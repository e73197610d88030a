----------------------------- MODULE OtaManager -----------------------------
(***************************************************************************)
(* Self-upgrade of the agent (src/src/ota_manager.cpp): an MQTT command    *)
(* starts a detached worker thread that downloads, unpacks, verifies and   *)
(* installs a firmware image and restarts the process; the next boot of    *)
(* the new image counts attempts in a "pending" file until a health timer  *)
(* commits the upgrade or too many attempts roll it back to the backup.    *)
(*                                                                         *)
(* A firmware image stands for its SHA-256, so the image a command names   *)
(* is the command's task_id, version and sha256 together.  A file holds an *)
(* image, Torn (some other bytes: partly written, or not that image) or    *)
(* None (no such file).  Threads interleave at every step that another     *)
(* thread, or a kill of the process, can tell apart.                       *)
(***************************************************************************)
EXTENDS Naturals

CONSTANTS
  Firmware,            \* the images that exist
  Factory,             \* the image the device is delivered with
  None, Torn,          \* no file; a file that is no image
  MaxBootAttempts,     \* m_maxBootAttempts
  MaxGen,              \* bound: commands accepted during one process life
  Outlasts,            \* may a job hold the lock longer than kOtaWatchdogMs?
  CommandsDuringTrial, \* may a command come before the last trial is decided?
  DiskFails,           \* may an open, a rename, or a write of the pending file fail?
  ShortCopy            \* may a copy of installBinary be cut short unnoticed?

ASSUME OtaAssumption ==
  /\ Factory \in Firmware
  /\ None \notin Firmware
  /\ Torn \notin Firmware
  /\ None # Torn
  /\ MaxBootAttempts \in Nat \ {0}
  /\ MaxGen \in Nat
  /\ Outlasts \in BOOLEAN
  /\ CommandsDuringTrial \in BOOLEAN
  /\ DiskFails \in BOOLEAN
  /\ ShortCopy \in BOOLEAN

Content == Firmware \cup {None, Torn}
Gens == 1..MaxGen

VARIABLES
  file,       \* contents of exe, exe.bak, exe.new.tmp, update.tar.gz, firmware.bin
  executable, \* may the file at m_exePath be executed? (a new file is 0644)
  pending,    \* the pending file: st "none", "torn" or "set", image, attempts
  proc,       \* where the process is: down, in checkPendingOta, or up
  image,      \* the image this process runs
  running,    \* m_running
  overdue,    \* more than kOtaWatchdogMs since m_runningSinceMs
  gen,        \* m_workerGen
  handler,    \* handleOtaCommand on the MQTT callback thread
  worker,     \* the otaWorker thread of each generation
  commit,     \* m_commitTimer's thread: "off", "armed", "removed"
  trial,      \* m_pendingTaskId, m_pendingVersion and the attempts of this boot
  committed,  \* history: the last image that was confirmed healthy
  mishap      \* history: since then, a kill in the middle of a change of several
              \* files, or a failed change of the disk that the code goes on after

disk == <<file, executable, pending>>
history == <<committed, mishap>>
thread == <<handler, worker, commit>>
lock == <<running, overdue, gen>>
vars == <<disk, history, proc, image, trial, lock, thread>>

-----------------------------------------------------------------------------
(* Shapes of the values *)

NoPending == [st |-> "none", image |-> None, attempts |-> 0]
TornPending == [st |-> "torn", image |-> None, attempts |-> 0]
Pending(f, n) == [st |-> "set", image |-> f, attempts |-> n]
Trials == [st : {"set"}, image : Firmware, attempts : 0..MaxBootAttempts]

IdleHandler == [pc |-> "idle", image |-> None]
NoWorker == [pc |-> "idle", image |-> None, src |-> None]

Files == {"exe", "bak", "tmp", "dl", "fw"}
BootPcs ==
  {"check", "bump", "bumped", "rollback", "restore", "chmod", "unmark", "restart"}
WorkerPcs ==
  {"idle", "disk", "fetch", "fetching", "fetched", "unpack", "unpacking",
   "unpacked", "hash", "verified", "copy", "copying", "backup", "backingUp",
   "swap", "chmod", "sweep", "mark", "marking", "restart", "release", "releasing"}

TypeOK ==
  /\ file \in [Files -> Content]
  /\ executable \in BOOLEAN
  /\ pending \in {NoPending, TornPending} \cup Trials
  /\ proc \in {"down", "up"} \cup BootPcs
  /\ image \in Firmware \cup {None}
  /\ trial \in {NoPending} \cup Trials
  /\ running \in BOOLEAN
  /\ overdue \in BOOLEAN
  /\ gen \in 0..MaxGen
  /\ handler \in [pc : {"idle", "taken", "paged"}, image : Firmware \cup {None}]
  /\ worker \in [Gens -> [pc : WorkerPcs, image : Firmware \cup {None}, src : Content]]
  /\ commit \in {"off", "armed", "removed"}
  /\ committed \in Firmware
  /\ mishap \in BOOLEAN

Init ==
  /\ file = [f \in Files |-> IF f = "exe" THEN Factory ELSE None]
  /\ executable = TRUE
  /\ pending = NoPending
  /\ proc = "down"
  /\ image = None
  /\ trial = NoPending
  /\ running = FALSE
  /\ overdue = FALSE
  /\ gen = 0
  /\ handler = IdleHandler
  /\ worker = [g \in Gens |-> NoWorker]
  /\ commit = "off"
  /\ committed = Factory
  /\ mishap = FALSE

-----------------------------------------------------------------------------
(* Process life *)

\* From the rename of the new image to the program's name until the pending
\* file is written, the disk does not say that the program is on trial.
Installing == \E g \in Gens : worker[g].pc \in {"chmod", "sweep", "mark", "marking"}

\* The pending file has been emptied to be written with the new count.
Recounting == proc = "bumped"

\* The process ends: every thread and every in-memory variable is gone.
Die ==
  /\ mishap' = (mishap \/ Installing \/ Recounting)
  /\ UNCHANGED <<disk, committed>>
  /\ proc' = "down"
  /\ image' = None
  /\ trial' = NoPending
  /\ running' = FALSE
  /\ overdue' = FALSE
  /\ gen' = 0
  /\ handler' = IdleHandler
  /\ worker' = [g \in Gens |-> NoWorker]
  /\ commit' = "off"

\* A crash of the program, a SIGKILL, an operator's restart.
Kill ==
  /\ proc # "down"
  /\ Die

Startable == file["exe"] \in Firmware /\ executable

\* systemd (Restart=always) executes the file at m_exePath, if it is a program.
Boot ==
  /\ proc = "down"
  /\ Startable
  /\ proc' = "check"
  /\ image' = file["exe"]
  /\ UNCHANGED <<disk, history, trial, lock, thread>>

\* With nothing at m_exePath that can be executed the unit fails to start,
\* again and again.
BootFails ==
  /\ proc = "down"
  /\ ~ Startable
  /\ UNCHANGED vars

-----------------------------------------------------------------------------
(* checkPendingOta and rollbackOta, run by main before anything else *)

CheckNothingPending ==
  /\ proc = "check"
  /\ pending.st = "none"
  /\ proc' = "up"
  /\ UNCHANGED <<disk, history, image, trial, lock, thread>>

\* A pending file that does not parse is removed.
CheckTorn ==
  /\ proc = "check"
  /\ pending.st = "torn"
  /\ pending' = NoPending
  /\ proc' = "up"
  /\ UNCHANGED <<file, executable, history, image, trial, lock, thread>>

\* The counter saturates at MaxBootAttempts: the code only asks whether it
\* has reached it.
Bump(n) == IF n < MaxBootAttempts THEN n + 1 ELSE n

\* m_pendingTaskId, m_pendingVersion and attempts are set from the file ...
CheckPending ==
  /\ proc = "check"
  /\ pending.st = "set"
  /\ trial' = Pending(pending.image, Bump(pending.attempts))
  /\ proc' = "bump"
  /\ UNCHANGED <<disk, history, image, lock, thread>>

\* After a failed change of the disk the code goes on as if it had been made.
DiskError == DiskFails /\ mishap' = TRUE /\ UNCHANGED committed

\* ... which is then opened again, emptying it, ...
BumpOpen ==
  /\ proc = "bump"
  /\ pending' = TornPending
  /\ proc' = "bumped"
  /\ UNCHANGED <<file, executable, history, image, trial, lock, thread>>

\* The upgrade is given up at the limit, or else its timer is started.
Decide ==
  \/ trial.attempts >= MaxBootAttempts /\ proc' = "rollback" /\ UNCHANGED commit
  \/ trial.attempts < MaxBootAttempts /\ proc' = "up" /\ commit' = "armed"

\* Mutant: the file is rewritten without the new count.
BugBumpWrite ==
  /\ proc = "bumped"
  /\ pending' = [trial EXCEPT !.attempts = 0]
  /\ Decide
  /\ UNCHANGED <<file, executable, history, image, trial, lock, handler, worker>>

\* ... and rewritten.
BumpWrite ==
  /\ proc = "bumped"
  /\ pending' = trial
  /\ Decide
  /\ UNCHANGED <<file, executable, history, image, trial, lock, handler, worker>>

\* When it cannot be opened, or not be written, nobody notices: this boot is
\* not counted, or the file stays empty.
BumpFails ==
  /\ proc \in {"bump", "bumped"}
  /\ Decide
  /\ DiskError
  /\ UNCHANGED <<disk, image, trial, lock, handler, worker>>

\* Mutant: the program is removed without looking for a backup.
BugRollbackRemove ==
  /\ proc = "rollback"
  /\ file' = [file EXCEPT !["exe"] = None]
  /\ proc' = "restore"
  /\ UNCHANGED <<executable, pending, history, image, trial, lock, thread>>

\* rollbackOta: with a backup at hand the program file is removed first ...
RollbackRemove ==
  /\ proc = "rollback"
  /\ file["bak"] # None
  /\ file' = [file EXCEPT !["exe"] = None]
  /\ proc' = "restore"
  /\ UNCHANGED <<executable, pending, history, image, trial, lock, thread>>

RollbackNoBackup ==
  /\ proc = "rollback"
  /\ file["bak"] = None
  /\ proc' = "unmark"
  /\ UNCHANGED <<disk, history, image, trial, lock, thread>>

\* Mutant: the backup becomes the program as it is, a file without the x bits.
BugRollbackRestore ==
  /\ proc = "restore"
  /\ file' = [file EXCEPT !["exe"] = file["bak"], !["bak"] = None]
  /\ executable' = FALSE
  /\ proc' = "unmark"
  /\ UNCHANGED <<pending, history, image, trial, lock, thread>>

\* ... then the backup, a file that installBinary created, gets its name ...
RollbackRestore ==
  /\ proc = "restore"
  /\ file' = [file EXCEPT !["exe"] = file["bak"], !["bak"] = None]
  /\ executable' = FALSE
  /\ proc' = "chmod"
  /\ UNCHANGED <<pending, history, image, trial, lock, thread>>

\* ... (or not: the rollback goes on without a program) ...
RollbackRestoreFails ==
  /\ proc = "restore"
  /\ proc' = "unmark"
  /\ DiskError
  /\ UNCHANGED <<disk, image, trial, lock, thread>>

\* ... and the mode of a program.
RollbackChmod ==
  /\ proc = "chmod"
  /\ executable' = TRUE
  /\ proc' = "unmark"
  /\ UNCHANGED <<file, pending, history, image, trial, lock, thread>>

RollbackUnmark ==
  /\ proc = "unmark"
  /\ pending' = NoPending
  /\ proc' = "restart"
  /\ UNCHANGED <<file, executable, history, image, trial, lock, thread>>

\* restartSelf, at the end of a rollback and of an installation.
RestartSelf ==
  /\ \/ proc = "restart"
     \/ proc = "up" /\ \E g \in Gens : worker[g].pc = "restart"
  /\ Die

-----------------------------------------------------------------------------
(* commitOta, on the thread of m_commitTimer *)

\* The timer fires in a process that has stayed up for BootCommitSec; an image
\* that never does is one whose process is always killed before.  The
\* early return for a pending file that is gone is never taken (TimerHasTrial).
CommitRemovePending ==
  /\ proc = "up"
  /\ commit = "armed"
  /\ pending.st # "none"
  /\ pending' = NoPending
  /\ committed' = image
  /\ mishap' = FALSE
  /\ commit' = "removed"
  /\ UNCHANGED <<file, executable, proc, image, trial, lock, handler, worker>>

\* "success" is reported, then the backup is removed.
CommitRemoveBackup ==
  /\ proc = "up"
  /\ commit = "removed"
  /\ file' = [file EXCEPT !["bak"] = None]
  /\ commit' = "off"
  /\ UNCHANGED <<executable, pending, history, proc, image, trial, lock, handler, worker>>

-----------------------------------------------------------------------------
(* handleOtaCommand, on the MQTT callback thread *)

TrialOngoing == pending.st # "none" \/ commit # "off"

\* m_running.exchange(true): the command goes on when the lock was free or
\* its holder is overdue, and is ignored otherwise.
HandleTakeLock(f) ==
  /\ proc = "up"
  /\ handler.pc = "idle"
  /\ gen < MaxGen
  /\ CommandsDuringTrial \/ ~ TrialOngoing
  /\ ~ running \/ overdue
  /\ running' = TRUE
  /\ handler' = [pc |-> "taken", image |-> f]
  /\ UNCHANGED <<disk, history, proc, image, trial, overdue, gen, worker, commit>>

\* m_runningSinceMs = now, ++m_workerGen.
HandleTurnPage ==
  /\ proc = "up"
  /\ handler.pc = "taken"
  /\ overdue' = FALSE
  /\ gen' = gen + 1
  /\ handler' = [handler EXCEPT !.pc = "paged"]
  /\ UNCHANGED <<disk, history, proc, image, trial, running, worker, commit>>

\* A command without url or sha256 is refused.
HandleReject ==
  /\ proc = "up"
  /\ handler.pc = "paged"
  /\ running' = FALSE
  /\ handler' = IdleHandler
  /\ UNCHANGED <<disk, history, proc, image, trial, overdue, gen, worker, commit>>

HandleSpawn ==
  /\ proc = "up"
  /\ handler.pc = "paged"
  /\ worker' = [worker EXCEPT ![gen] =
                  [pc |-> "disk", image |-> handler.image, src |-> None]]
  /\ handler' = IdleHandler
  /\ UNCHANGED <<disk, history, proc, image, trial, lock, commit>>

\* Time passes: the lock has been held for more than kOtaWatchdogMs.
Overdue ==
  /\ Outlasts
  /\ proc = "up"
  /\ running
  /\ ~ overdue
  /\ overdue' = TRUE
  /\ UNCHANGED <<disk, history, proc, image, trial, running, gen, thread>>

-----------------------------------------------------------------------------
(* otaWorker: one step per call that another thread or a kill can observe *)

At(g, p) == proc = "up" /\ worker[g].pc = p

Goto(g, p) == worker' = [worker EXCEPT ![g].pc = p]

\* On to p, with the content c read for the copy in progress.
Hold(g, p, c) ==
  worker' = [worker EXCEPT ![g] = [pc |-> p, image |-> @.image, src |-> c]]

Exit(g) == worker' = [worker EXCEPT ![g] = NoWorker]

\* stale(): a newer command has been accepted since this worker was spawned.
Stale(g) == gen # g

\* What every worker step below leaves alone, and most of them.
process == <<proc, image, trial, handler, commit>>
others == <<process, executable, history>>

\* The disk space check, then "accepted" and "downloading" are reported.
CheckDisk(g) ==
  /\ At(g, "disk")
  /\ Goto(g, "fetch") \/ Goto(g, "release")
  /\ UNCHANGED <<others, file, pending, lock>>

\* HTCLDownloadFile opens update.tar.gz with "wb" ...
FetchOpen(g) ==
  /\ At(g, "fetch")
  /\ file' = [file EXCEPT !["dl"] = Torn]
  /\ Goto(g, "fetching")
  /\ UNCHANGED <<others, pending, lock>>

\* ... and gets a package with the image, with another one, or with none.
FetchDone(g) ==
  /\ At(g, "fetching")
  /\ \E c \in Firmware \cup {Torn} : file' = [file EXCEPT !["dl"] = c]
  /\ Goto(g, "fetched")
  /\ UNCHANGED <<others, pending, lock>>

\* Mutant: an early return that forgets releaseLock().
BugFetchFails(g) ==
  /\ At(g, "fetching")
  /\ file' = [file EXCEPT !["dl"] = None]
  /\ Exit(g)
  /\ UNCHANGED <<others, pending, lock>>

\* A failed download is cleaned up before anything asks whether it is stale.
FetchFails(g) ==
  /\ At(g, "fetching")
  /\ file' = [file EXCEPT !["dl"] = None]
  /\ Goto(g, "release")
  /\ UNCHANGED <<others, pending, lock>>

\* The stale checks after the download and after the extraction.
CheckStale(g, from, to) ==
  /\ At(g, from)
  /\ \/ Stale(g) /\ Exit(g)
     \/ ~ Stale(g) /\ Goto(g, to)
  /\ UNCHANGED <<others, file, pending, lock>>

\* tar creates firmware.bin ...
Unpack(g) ==
  /\ At(g, "unpack")
  /\ file' = [file EXCEPT !["fw"] = Torn]
  /\ Goto(g, "unpacking")
  /\ UNCHANGED <<others, pending, lock>>

\* ... and fills it from a package that holds one.
Unpacked(g) ==
  /\ At(g, "unpacking")
  /\ \/ /\ file["dl"] \in Firmware
        /\ file' = [file EXCEPT !["fw"] = file["dl"]]
        /\ Goto(g, "unpacked")
     \/ /\ file["dl"] \notin Firmware
        /\ file' = [file EXCEPT !["dl"] = None, !["fw"] = None]
        /\ Goto(g, "release")
  /\ UNCHANGED <<others, pending, lock>>

\* Mutant: the hash is computed and not compared.
BugVerify(g) ==
  /\ At(g, "hash")
  /\ Goto(g, "verified")
  /\ UNCHANGED <<others, file, pending, lock>>

\* sha256File(firmware.bin) against the command's sha256; "verify_failed"
\* moves both files out of the way.
Verify(g) ==
  /\ At(g, "hash")
  /\ \/ /\ file["fw"] = worker[g].image
        /\ Goto(g, "verified")
        /\ UNCHANGED file
     \/ /\ file["fw"] # worker[g].image
        /\ file' = [file EXCEPT !["dl"] = None, !["fw"] = None]
        /\ Goto(g, "release")
  /\ UNCHANGED <<others, pending, lock>>

\* The last stale check: a superseded worker removes the files and gives up.
CheckStaleInstall(g) ==
  /\ At(g, "verified")
  /\ \/ /\ Stale(g)
        /\ file' = [file EXCEPT !["dl"] = None, !["fw"] = None]
        /\ Exit(g)
     \/ ~ Stale(g) /\ Goto(g, "copy") /\ UNCHANGED file
  /\ UNCHANGED <<others, pending, lock>>

\* installBinary fails after exe.new.tmp was emptied: "failed".
InstallFails(g, left) ==
  /\ file' = [file EXCEPT !["tmp"] = left, !["dl"] = None, !["fw"] = None]
  /\ Goto(g, "release")

\* What ends up in a copy of the content c, whose writes are not checked.
Copies(c) == IF ShortCopy THEN {c, Torn} ELSE {c}

\* Mutant: the new image is copied over the program itself.
BugCopyOpen(g) ==
  /\ At(g, "copy")
  /\ file["fw"] # None
  /\ file' = [file EXCEPT !["tmp"] = Torn, !["exe"] = Torn]
  /\ Hold(g, "copying", file["fw"])
  /\ UNCHANGED <<others, pending, lock>>

\* installBinary 1: exe.new.tmp is opened for writing, firmware.bin for reading.
CopyOpen(g) ==
  /\ At(g, "copy")
  /\ \/ /\ file["fw"] # None
        /\ file' = [file EXCEPT !["tmp"] = Torn]
        /\ Hold(g, "copying", file["fw"])
     \/ file["fw"] = None /\ InstallFails(g, Torn)
     \/ DiskFails /\ InstallFails(g, file["tmp"])
  /\ UNCHANGED <<others, pending, lock>>

\* Mutant: no backup is made.
BugCopyDone(g) ==
  /\ At(g, "copying")
  /\ file' = [file EXCEPT !["tmp"] = worker[g].src]
  /\ Hold(g, "swap", None)
  /\ UNCHANGED <<others, pending, lock>>

CopyDone(g) ==
  /\ At(g, "copying")
  /\ \E c \in Copies(worker[g].src) : file' = [file EXCEPT !["tmp"] = c]
  /\ Hold(g, "backup", None)
  /\ UNCHANGED <<others, pending, lock>>

\* installBinary 2: exe.bak is opened for writing, the program for reading
\* (it is in place whenever the process is up: ExePresentWhenUp).
BackupOpen(g) ==
  /\ At(g, "backup")
  /\ \/ /\ file' = [file EXCEPT !["bak"] = Torn]
        /\ Hold(g, "backingUp", file["exe"])
     \/ DiskFails /\ InstallFails(g, None)
  /\ UNCHANGED <<others, pending, lock>>

BackupDone(g) ==
  /\ At(g, "backingUp")
  /\ \E c \in Copies(worker[g].src) : file' = [file EXCEPT !["bak"] = c]
  /\ Hold(g, "swap", None)
  /\ UNCHANGED <<others, pending, lock>>

\* installBinary 3: exe.new.tmp, a file it created, gets the program's name ...
Swap(g) ==
  /\ At(g, "swap")
  /\ \/ /\ file["tmp"] # None
        /\ file' = [file EXCEPT !["exe"] = file["tmp"], !["tmp"] = None]
        /\ executable' = FALSE
        /\ Goto(g, "chmod")
     \/ /\ file["tmp"] = None \/ DiskFails
        /\ InstallFails(g, None)
        /\ UNCHANGED executable
  /\ UNCHANGED <<process, history, pending, lock>>

\* ... and the mode of a program.
Chmod(g) ==
  /\ At(g, "chmod")
  /\ executable' = TRUE
  /\ Goto(g, "sweep")
  /\ UNCHANGED <<process, history, file, pending, lock>>

\* installBinary 4: the package and the extracted image are removed.
Sweep(g) ==
  /\ At(g, "sweep")
  /\ file' = [file EXCEPT !["dl"] = None, !["fw"] = None]
  /\ Goto(g, "mark")
  /\ UNCHANGED <<others, pending, lock>>

\* The pending file is opened, emptying it, ...
MarkOpen(g) ==
  /\ At(g, "mark")
  /\ pending' = TornPending
  /\ Goto(g, "marking")
  /\ UNCHANGED <<others, file, lock>>

\* Mutant: the restart that follows is counted already.
BugMarkWrite(g) ==
  /\ At(g, "marking")
  /\ pending' = Pending(worker[g].image, 1)
  /\ Goto(g, "restart")
  /\ UNCHANGED <<others, file, lock>>

\* ... and written; then the process restarts itself (RestartSelf).
MarkWrite(g) ==
  /\ At(g, "marking")
  /\ pending' = Pending(worker[g].image, 0)
  /\ Goto(g, "restart")
  /\ UNCHANGED <<others, file, lock>>

\* When it cannot be opened, or not be written, the process restarts all the
\* same: into an image whose trial no file tells of.
MarkFails(g) ==
  /\ At(g, "mark") \/ At(g, "marking")
  /\ Goto(g, "restart")
  /\ DiskError
  /\ UNCHANGED <<process, disk, lock>>

\* releaseLock: the generation is loaded and compared ...
ReleaseCheck(g) ==
  /\ At(g, "release")
  /\ \/ Stale(g) /\ Exit(g)
     \/ ~ Stale(g) /\ Goto(g, "releasing")
  /\ UNCHANGED <<others, file, pending, lock>>

\* ... before m_running is stored.
ReleaseStore(g) ==
  /\ At(g, "releasing")
  /\ running' = FALSE
  /\ Exit(g)
  /\ UNCHANGED <<others, file, pending, overdue, gen>>

WorkerStep(g) ==
  \/ CheckDisk(g)
  \/ FetchOpen(g) \/ FetchDone(g) \/ FetchFails(g)
  \/ CheckStale(g, "fetched", "unpack")
  \/ Unpack(g) \/ Unpacked(g)
  \/ CheckStale(g, "unpacked", "hash")
  \/ Verify(g)
  \/ CheckStaleInstall(g)
  \/ CopyOpen(g) \/ CopyDone(g)
  \/ BackupOpen(g) \/ BackupDone(g)
  \/ Swap(g) \/ Chmod(g) \/ Sweep(g)
  \/ MarkOpen(g) \/ MarkWrite(g) \/ MarkFails(g)
  \/ ReleaseCheck(g) \/ ReleaseStore(g)

-----------------------------------------------------------------------------

BootStep ==
  \/ CheckNothingPending \/ CheckTorn \/ CheckPending
  \/ BumpOpen \/ BumpWrite \/ BumpFails
  \/ RollbackRemove \/ RollbackNoBackup
  \/ RollbackRestore \/ RollbackRestoreFails \/ RollbackChmod
  \/ RollbackUnmark

HandlerStep ==
  \/ \E f \in Firmware : HandleTakeLock(f)
  \/ HandleTurnPage \/ HandleReject \/ HandleSpawn

Next ==
  \/ Kill \/ Boot \/ BootFails \/ RestartSelf
  \/ BootStep
  \/ CommitRemovePending \/ CommitRemoveBackup
  \/ HandlerStep
  \/ Overdue
  \/ \E g \in Gens : WorkerStep(g)

Spec == Init /\ [][Next]_vars

-----------------------------------------------------------------------------
(* Properties *)

Active(g) == worker[g].pc # "idle"

\* No job outlasting the watchdog: at most one worker is alive, it is the
\* newest one, and m_running is held for as long as it is ("防并发 OTA").
LockExclusive ==
  \A g \in Gens : Active(g) => running /\ g = gen /\ handler.pc = "idle"

\* Whatever the timing, m_running is never left set with nobody to reset it:
\* its holder is the handler or the worker of the current generation, so the
\* watchdog is only ever needed against a thread that hangs.
LockNeverLeaks ==
  running => handler.pc # "idle" \/ (gen \in Gens /\ Active(gen))

\* The program file is complete at every instant, whenever the process is
\* killed: it is replaced by a rename, or absent in the middle of a rollback.
ExeWhole == file["exe"] \in Firmware \cup {None}

\* A running process has its program on disk (installBinary relies on it).
ExePresentWhenUp == proc = "up" => file["exe"] # None

\* What an installation puts in place is the image whose hash was checked
\* against the command, however many steps later; a rollback is the only
\* other writer of the program file.
ExeStep ==
  file'["exe"] # file["exe"] =>
    \/ proc \in BootPcs
    \/ \E g \in Gens : worker[g].pc = "swap" /\ file'["exe"] = worker[g].image

VerifiedInstall == [][ExeStep]_vars

\* An image that was never confirmed is on probation: the pending file names
\* it and the backup holds the last confirmed image.
Guarded ==
  /\ pending.st = "set"
  /\ pending.image = file["exe"]
  /\ file["bak"] = committed

\* An unconfirmed program is guarded whatever happens outside the two windows
\* in which the pending file is written: a kill or a failed write inside them
\* (a mishap) is the one way to lose the guard, and the next confirmed image
\* brings it back.
UnconfirmedGuarded ==
  file["exe"] \in Firmware \ {committed} =>
    Guarded \/ Installing \/ Recounting \/ mishap

\* The same without that exception (include/ota_manager.h:4-5).
KilledStillGuarded ==
  proc = "down" /\ file["exe"] \in Firmware \ {committed} => Guarded

\* At every instant, inside those windows too, the last confirmed image is on
\* the disk, as the program or as its backup; only after a mishap another
\* installation can overwrite it with an image nobody confirmed.
LastGoodOnDisk == committed \in {file["exe"], file["bak"]} \/ mishap

\* systemd finds a program it can execute, unless the process was killed in
\* the middle of a rollback, or a mishap came before.
StaysStartable ==
  proc \in {"down", "up"} /\ ~ Startable =>
    \/ Installing \/ mishap
    \/ pending.st = "set" /\ pending.attempts = MaxBootAttempts

\* While the commit timer runs there is a trial to commit: nothing else
\* removes the pending file in that process.
TimerHasTrial == commit = "armed" => pending.st # "none"

\* "success" is reported for the image that has been running since the boot,
\* never for one that was rolled back or never started.
SuccessNamesRunning ==
  [][commit = "armed" /\ commit' = "removed" => trial.image = image]_vars

-----------------------------------------------------------------------------
(* Liveness *)

\* A process that is executed gets through checkPendingOta sooner or later,
\* even if some attempts are cut short, and a write of the pending file
\* succeeds at last.
BootFairness ==
  /\ WF_vars(Boot \/ RestartSelf)
  /\ SF_vars(CheckTorn \/ CheckPending)
  /\ SF_vars(BumpOpen) /\ SF_vars(BumpWrite)
  /\ SF_vars(RollbackRemove \/ RollbackNoBackup)
  /\ WF_vars(RollbackRestore \/ RollbackChmod)
  /\ SF_vars(RollbackUnmark)

\* A process on trial stays up until its timer fires, or it dies before.
TrialEnds == CommitRemovePending \/ (commit = "armed" /\ Kill)

FairSpec ==
  Spec /\ BootFairness /\ WF_vars(TrialEnds) /\ \A g \in Gens : WF_vars(MarkWrite(g))

\* Every installed upgrade is decided: the pending file goes away and leaves a
\* confirmed image in place, except after a mishap, or when a kill in the
\* middle of the rollback left nothing that can be executed.
TrialDecided ==
  pending.st # "none" ~>
    \/ pending.st = "none" /\ (file["exe"] = committed \/ mishap)
    \/ ~ Startable

=============================================================================
