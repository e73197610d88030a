-------------------------- MODULE OtaManagerProofs --------------------------
(***************************************************************************)
(* Theorems about OtaManager, for every set of images, every limit on the  *)
(* attempts and every number of commands.                                  *)
(***************************************************************************)
EXTENDS OtaRefinement, TLAPS

-----------------------------------------------------------------------------
(* Type correctness *)

\* The bound on the generations is only kept because the handler looks at it
\* before it turns the page; a pending file is only well formed because every
\* worker has a command's image, as every process has a program's.
TypeInv ==
  /\ TypeOK
  /\ handler.pc = "taken" => gen < MaxGen
  /\ proc # "down" => image \in Firmware
  /\ handler.pc # "idle" => handler.image \in Firmware
  /\ \A g \in Gens : Active(g) => worker[g].image \in Firmware

LEMMA InitTypeInv == Init => TypeInv
<1> SUFFICES ASSUME Init PROVE TypeInv
  OBVIOUS
<1>1. file \in [Files -> Content]
  BY OtaAssumption DEF Init, Content
<1>2. handler \in [pc : {"idle", "taken", "paged"}, image : Firmware \cup {None}]
      /\ handler.pc = "idle"
  BY DEF Init, IdleHandler
<1>3. worker \in [Gens -> [pc : WorkerPcs, image : Firmware \cup {None}, src : Content]]
      /\ \A g \in Gens : worker[g].pc = "idle"
  BY DEF Init, NoWorker, WorkerPcs, Content
<1>4. running \in BOOLEAN /\ overdue \in BOOLEAN /\ executable \in BOOLEAN /\ mishap \in BOOLEAN
  BY DEF Init
<1>5. gen \in 0..MaxGen
  BY OtaAssumption DEF Init
<1> QED
  BY <1>1, <1>2, <1>3, <1>4, <1>5, OtaAssumption DEF Init, TypeInv, TypeOK, Active

\* The end of the process resets the in-memory state to well-typed values.
LEMMA DieTypeInv ==
  ASSUME TypeInv, Die
  PROVE  TypeInv'
<1>1. handler' \in [pc : {"idle", "taken", "paged"}, image : Firmware \cup {None}]
      /\ handler'.pc = "idle"
  BY DEF Die, IdleHandler
<1>2. worker' \in [Gens -> [pc : WorkerPcs, image : Firmware \cup {None}, src : Content]]
      /\ \A g \in Gens : worker'[g].pc = "idle"
  BY DEF Die, NoWorker, WorkerPcs, Content
<1>3. running' \in BOOLEAN /\ overdue' \in BOOLEAN
  BY DEF Die
<1>4. gen' \in 0..MaxGen
  BY OtaAssumption DEF Die
<1>5. mishap' \in BOOLEAN
  BY DEF Die
<1> QED
  BY <1>1, <1>2, <1>3, <1>4, <1>5, OtaAssumption DEF TypeInv, TypeOK, Die, disk, history, Active

LEMMA BootStepTypeInv ==
  ASSUME TypeInv, BootStep
  PROVE  TypeInv'
<1> USE OtaAssumption DEF TypeInv, TypeOK, disk, history, lock, thread, Active
<1>1. CASE CheckNothingPending
  BY <1>1 DEF CheckNothingPending
<1>2. CASE CheckTorn
  BY <1>2 DEF CheckTorn
<1>3. CASE CheckPending
  <2>1. pending \in Trials
    BY <1>3 DEF CheckPending, NoPending, TornPending
  <2>2. trial' \in Trials
    BY <1>3, <2>1 DEF CheckPending, Pending, Trials, Bump
  <2> QED
    BY <1>3, <2>2 DEF CheckPending, BootPcs
<1>4. CASE BumpOpen
  BY <1>4 DEF BumpOpen, BootPcs
<1>5. CASE BumpWrite
  BY <1>5 DEF BumpWrite, Decide, BootPcs
<1>10. CASE BumpFails
  <2>1. mishap' \in BOOLEAN /\ UNCHANGED <<disk, committed, image, trial, lock, handler, worker>>
    BY <1>10 DEF BumpFails, DiskError
  <2>2. proc # "down" /\ proc' \in {"up", "rollback"} /\ commit' \in {commit, "armed"}
    BY <1>10 DEF BumpFails, Decide
  <2> QED
    BY <2>1, <2>2 DEF BootPcs
<1>6. CASE RollbackRemove
  BY <1>6 DEF RollbackRemove, BootPcs, Content
<1>7. CASE RollbackNoBackup
  BY <1>7 DEF RollbackNoBackup, BootPcs
<1>8. CASE RollbackRestore
  <2>1. executable' \in BOOLEAN
    BY <1>8 DEF RollbackRestore
  <2> QED
    BY <1>8, <2>1 DEF RollbackRestore, BootPcs, Content, Files
<1>11. CASE RollbackRestoreFails
  <2>1. mishap' \in BOOLEAN
    BY <1>11 DEF RollbackRestoreFails, DiskError
  <2> QED
    BY <1>11, <2>1 DEF RollbackRestoreFails, DiskError, BootPcs
<1>12. CASE RollbackChmod
  <2>1. executable' \in BOOLEAN
    BY <1>12 DEF RollbackChmod
  <2> QED
    BY <1>12, <2>1 DEF RollbackChmod, BootPcs
<1>9. CASE RollbackUnmark
  BY <1>9 DEF RollbackUnmark, BootPcs
<1> QED
  BY <1>1, <1>2, <1>3, <1>4, <1>5, <1>6, <1>7, <1>8, <1>9, <1>10, <1>11, <1>12
  DEF BootStep

LEMMA HandlerStepTypeInv ==
  ASSUME TypeInv, HandlerStep
  PROVE  TypeInv'
<1> USE OtaAssumption DEF TypeInv, TypeOK, disk, history, lock, thread, Active
<1>1. ASSUME NEW f \in Firmware, HandleTakeLock(f)
      PROVE  TypeInv'
  <2>1. running' \in BOOLEAN
    BY <1>1 DEF HandleTakeLock
  <2>2. handler' \in [pc : {"idle", "taken", "paged"}, image : Firmware \cup {None}]
    BY <1>1 DEF HandleTakeLock
  <2> QED
    BY <1>1, <2>1, <2>2 DEF HandleTakeLock
<1>2. CASE HandleTurnPage
  <2>1. overdue' \in BOOLEAN /\ UNCHANGED running
    BY <1>2 DEF HandleTurnPage
  <2>2. handler' \in [pc : {"idle", "taken", "paged"}, image : Firmware \cup {None}]
        /\ handler'.pc = "paged"
    BY <1>2 DEF HandleTurnPage
  <2>3. gen' \in 0..MaxGen
    BY <1>2 DEF HandleTurnPage
  <2> QED
    BY <1>2, <2>1, <2>2, <2>3 DEF HandleTurnPage
<1>3. CASE HandleReject
  BY <1>3 DEF HandleReject, IdleHandler
<1>4. CASE HandleSpawn
  BY <1>4 DEF HandleSpawn, IdleHandler, WorkerPcs, Content
<1> QED
  BY <1>1, <1>2, <1>3, <1>4 DEF HandlerStep

\* The frame of a worker step.
LEMMA WorkerFrame ==
  ASSUME NEW g \in Gens, WorkerStep(g)
  PROVE  /\ proc = "up"
         /\ UNCHANGED <<committed, proc, image, trial, handler, commit, overdue, gen>>
  BY DEF WorkerStep, At, others, process, history, DiskError, lock, CheckDisk,
         FetchOpen, FetchDone, FetchFails, CheckStale, Unpack, Unpacked, Verify, CheckStaleInstall, CopyOpen,
         CopyDone, BackupOpen, BackupDone, Swap, Chmod, Sweep, MarkOpen, MarkWrite, MarkFails,
         ReleaseCheck, ReleaseStore

\* The program's mode changes with its rename and with the chmod after it, and
\* a failure to write the pending file is all that goes wrong unnoticed.
LEMMA WorkerMode ==
  ASSUME NEW g \in Gens, WorkerStep(g)
  PROVE  /\ UNCHANGED executable \/ executable' = FALSE \/ executable' = TRUE
         /\ UNCHANGED executable \/ executable' \/ Goto(g, "chmod")
         /\ worker[g].pc = "chmod" => executable'
         /\ UNCHANGED mishap \/ mishap'
         /\ UNCHANGED mishap \/ MarkFails(g)
<1>1. CASE Swap(g)
  BY <1>1 DEF Swap, process, history, At
<1>2. CASE Chmod(g)
  BY <1>2 DEF Chmod, process, history, At
<1>3. CASE MarkFails(g)
  BY <1>3 DEF MarkFails, DiskError, disk, At
<1>4. CASE ~ (Swap(g) \/ Chmod(g) \/ MarkFails(g))
  <2>1. UNCHANGED <<executable, history>> /\ worker[g].pc # "chmod"
    BY <1>4
    DEF WorkerStep, At, others, CheckDisk, FetchOpen, FetchDone, FetchFails,
        CheckStale, Unpack, Unpacked, Verify, CheckStaleInstall, CopyOpen,
        CopyDone, BackupOpen, BackupDone, Sweep, MarkOpen, MarkWrite,
        ReleaseCheck, ReleaseStore
  <2> QED
    BY <2>1 DEF history
<1> QED
  BY <1>1, <1>2, <1>3, <1>4

\* A worker step changes the thread of its own generation only, which keeps
\* the image of its command until it ends.
LEMMA WorkerOnlyItself ==
  ASSUME TypeOK, NEW g \in Gens, WorkerStep(g)
  PROVE  /\ worker' \in [Gens -> [pc : WorkerPcs, image : Firmware \cup {None}, src : Content]]
         /\ \A h \in Gens \ {g} : worker'[h] = worker[h]
         /\ Active(g)
         /\ Active(g)' => worker'[g].image = worker[g].image
<1> DEFINE Kept ==
      /\ worker' \in [Gens -> [pc : WorkerPcs, image : Firmware \cup {None}, src : Content]]
      /\ \A h \in Gens \ {g} : worker'[h] = worker[h]
      /\ Active(g)' => worker'[g].image = worker[g].image
<1>1. \A p \in WorkerPcs : Goto(g, p) => Kept
  BY DEF TypeOK, Goto
<1>2. Exit(g) => Kept
  BY DEF TypeOK, Exit, NoWorker, WorkerPcs, Content, Active
<1>3. ASSUME NEW p \in WorkerPcs, NEW c \in Content,
             Hold(g, p, c)
      PROVE  Kept
  BY <1>3 DEF TypeOK, Hold
<1>4. {file["fw"], file["exe"], None} \subseteq Content
  BY DEF TypeOK, Files, Content
<1> HIDE DEF Kept
<1>5. Active(g)
  BY DEF Active, At, WorkerStep, CheckDisk, FetchOpen, FetchDone, FetchFails,
         CheckStale, Unpack, Unpacked, Verify, CheckStaleInstall, CopyOpen,
         CopyDone, BackupOpen, BackupDone, Swap, Chmod, Sweep, MarkOpen, MarkWrite, MarkFails,
         ReleaseCheck, ReleaseStore
<1>6. CASE CopyOpen(g) \/ CopyDone(g) \/ BackupOpen(g) \/ BackupDone(g)
  <2>1. Kept
    <3>1. CASE CopyOpen(g)
      BY <1>1, <1>3, <1>4, <3>1 DEF CopyOpen, InstallFails, WorkerPcs
    <3>2. CASE CopyDone(g)
      BY <1>3, <1>4, <3>2 DEF CopyDone, WorkerPcs
    <3>3. CASE BackupOpen(g)
      BY <1>1, <1>3, <1>4, <3>3 DEF BackupOpen, InstallFails, WorkerPcs
    <3>4. CASE BackupDone(g)
      BY <1>3, <1>4, <3>4 DEF BackupDone, WorkerPcs
    <3> QED
      BY <1>6, <3>1, <3>2, <3>3, <3>4
  <2> QED
    BY <2>1, <1>5 DEF Kept
<1>7. CASE ~ (CopyOpen(g) \/ CopyDone(g) \/ BackupOpen(g) \/ BackupDone(g))
  <2>1. (\E p \in WorkerPcs : Goto(g, p)) \/ Exit(g)
    BY <1>7
    DEF WorkerStep, CheckDisk, FetchOpen, FetchDone, FetchFails, CheckStale,
        Unpack, Unpacked, Verify, CheckStaleInstall, Swap, Chmod, Sweep, MarkOpen,
        MarkWrite, MarkFails, ReleaseCheck, ReleaseStore, InstallFails, WorkerPcs
  <2>2. Kept
    BY <2>1, <1>1, <1>2
  <2> QED
    BY <2>2, <1>5 DEF Kept
<1> QED
  BY <1>6, <1>7

LEMMA WorkerStepTypeInv ==
  ASSUME TypeInv, NEW g \in Gens, WorkerStep(g)
  PROVE  TypeInv'
<1>1. TypeOK
  BY DEF TypeInv
<1>2. worker' \in [Gens -> [pc : WorkerPcs, image : Firmware \cup {None}, src : Content]]
  BY <1>1, WorkerOnlyItself
<1>3. file' \in [Files -> Content]
  <2>1. \A c \in Firmware \cup {Torn, None} : c \in Content
    BY DEF Content
  <2>2. file \in [Files -> Content] /\ worker[g].src \in Content
    BY <1>1 DEF TypeOK
  <2>3. CASE \/ CheckDisk(g) \/ CheckStale(g, "fetched", "unpack")
             \/ CheckStale(g, "unpacked", "hash") \/ Chmod(g)
             \/ MarkOpen(g) \/ MarkWrite(g) \/ MarkFails(g)
             \/ ReleaseCheck(g) \/ ReleaseStore(g)
    BY <2>2, <2>3
    DEF CheckDisk, CheckStale, Chmod, MarkOpen, MarkWrite, MarkFails, disk,
        ReleaseCheck, ReleaseStore
  <2>4. CASE FetchOpen(g) \/ FetchDone(g) \/ FetchFails(g)
    BY <2>1, <2>2, <2>4 DEF FetchOpen, FetchDone, FetchFails
  <2>5. CASE Unpack(g) \/ Unpacked(g)
    BY <2>1, <2>2, <2>5 DEF Unpack, Unpacked, Files
  <2>6. CASE Verify(g) \/ CheckStaleInstall(g)
    BY <2>1, <2>2, <2>6 DEF Verify, CheckStaleInstall
  <2>7. CASE CopyOpen(g) \/ CopyDone(g)
    BY <2>1, <2>2, <2>7 DEF CopyOpen, CopyDone, InstallFails, Copies, Files
  <2>8. CASE BackupOpen(g) \/ BackupDone(g)
    BY <2>1, <2>2, <2>8 DEF BackupOpen, BackupDone, InstallFails, Copies
  <2>9. CASE Swap(g) \/ Sweep(g)
    BY <2>1, <2>2, <2>9 DEF Swap, Sweep, InstallFails, Files
  <2> QED
    BY <2>3, <2>4, <2>5, <2>6, <2>7, <2>8, <2>9 DEF WorkerStep
<1>4. pending' \in {NoPending, TornPending} \cup Trials
  <2>1. CASE MarkOpen(g)
    BY <2>1 DEF MarkOpen
  <2>2. CASE MarkWrite(g)
    <3>1. worker[g].image \in Firmware
      BY WorkerOnlyItself, <1>1 DEF TypeInv
    <3> QED
      BY <2>2, <3>1, OtaAssumption DEF MarkWrite, Pending, Trials
  <2>3. CASE ~ MarkOpen(g) /\ ~ MarkWrite(g)
    <3>1. UNCHANGED pending
      BY <2>3
      DEF WorkerStep, CheckDisk, FetchOpen, FetchDone, FetchFails, CheckStale,
          Unpack, Unpacked, Verify, CheckStaleInstall, CopyOpen, CopyDone,
          BackupOpen, BackupDone, Swap, Chmod, Sweep, MarkFails, disk, ReleaseCheck, ReleaseStore
    <3> QED
      BY <1>1, <3>1 DEF TypeOK
  <2> QED
    BY <2>1, <2>2, <2>3
<1>5. running' \in BOOLEAN
  <2>1. running \in BOOLEAN
    BY <1>1 DEF TypeOK
  <2>2. CASE ReleaseStore(g)
    BY <2>2 DEF ReleaseStore
  <2>3. CASE ~ ReleaseStore(g)
    <3>1. UNCHANGED running
      BY <2>3
      DEF WorkerStep, lock, CheckDisk, FetchOpen, FetchDone, FetchFails,
          CheckStale, Unpack, Unpacked, Verify, CheckStaleInstall, CopyOpen,
          CopyDone, BackupOpen, BackupDone, Swap, Chmod, Sweep, MarkOpen, MarkWrite, MarkFails,
          ReleaseCheck
    <3> QED
      BY <2>1, <3>1
  <2> QED
    BY <2>2, <2>3
<1>6. UNCHANGED <<committed, proc, image, trial, handler, commit, overdue, gen>>
  BY WorkerFrame
<1>7. executable' \in BOOLEAN /\ mishap' \in BOOLEAN
  <2>1. (UNCHANGED executable \/ executable' = FALSE \/ executable' = TRUE)
        /\ (UNCHANGED mishap \/ mishap')
    BY WorkerMode
  <2> QED
    BY <1>1, <2>1 DEF TypeOK
<1> QED
  <2>1. TypeOK'
    BY <1>1, <1>2, <1>3, <1>4, <1>5, <1>6, <1>7 DEF TypeOK
  <2>2. \A h \in Gens : Active(h)' => worker'[h].image \in Firmware
    BY <1>1, WorkerOnlyItself DEF TypeInv, Active
  <2> QED
    BY <2>1, <2>2, <1>6 DEF TypeInv, Active

\* Every step of the agent keeps the types.
LEMMA NextTypeInv == TypeInv /\ [Next]_vars => TypeInv'
<1> SUFFICES ASSUME TypeInv, [Next]_vars PROVE TypeInv'
  OBVIOUS
<1> USE OtaAssumption
<1>1. CASE Kill \/ RestartSelf
  BY <1>1, DieTypeInv DEF Kill, RestartSelf
<1>2. CASE Boot
  <2>1. file["exe"] \in Firmware
    BY <1>2 DEF Boot, Startable
  <2> QED
    BY <1>2, <2>1 DEF Boot, TypeInv, TypeOK, Active, disk, history, lock, thread, BootPcs
<1>3. CASE BootStep
  BY <1>3, BootStepTypeInv
<1>4. CASE CommitRemovePending
  <2>1. image \in Firmware /\ mishap' \in BOOLEAN
    BY <1>4 DEF CommitRemovePending, TypeInv
  <2> QED
    BY <1>4, <2>1 DEF CommitRemovePending, TypeInv, TypeOK, Active, lock
<1>5. CASE CommitRemoveBackup
  BY <1>5 DEF CommitRemoveBackup, TypeInv, TypeOK, Active, lock, history, Content
<1>6. CASE HandlerStep
  BY <1>6, HandlerStepTypeInv
<1>7. CASE Overdue
  <2>1. overdue' \in BOOLEAN /\ UNCHANGED running
    BY <1>7 DEF Overdue
  <2> QED
    BY <1>7, <2>1 DEF Overdue, TypeInv, TypeOK, Active, disk, history, thread
<1>8. ASSUME NEW g \in Gens, WorkerStep(g)
      PROVE  TypeInv'
  BY <1>8, WorkerStepTypeInv
<1>9. CASE UNCHANGED vars
  BY <1>9 DEF vars, disk, history, lock, thread, TypeInv, TypeOK, Active
<1> QED
  BY <1>1, <1>2, <1>3, <1>4, <1>5, <1>6, <1>7, <1>8, <1>9 DEF Next, BootFails

\* Every variable of the agent keeps its type, whatever the timing, the kills
\* and the order of the commands (the members of OtaManager and its files).
THEOREM TypeCorrect == Spec => []TypeOK
<1>1. Init => TypeInv
  BY InitTypeInv
<1>2. TypeInv /\ [Next]_vars => TypeInv'
  BY NextTypeInv
<1>3. TypeInv => TypeOK
  BY DEF TypeInv
<1> QED
  BY <1>1, <1>2, <1>3, PTL DEF Spec

LEMMA TypeInvCorrect == Spec => []TypeInv
  BY InitTypeInv, NextTypeInv, PTL DEF Spec

-----------------------------------------------------------------------------
(* The lock always has a holder that will release it *)

LeakInv ==
  /\ handler.pc = "paged" => gen \in Gens
  /\ LockNeverLeaks

\* The worker of the current generation only ends by releasing the lock: its
\* other exits are stale checks.
LEMMA CurrentWorkerReleases ==
  ASSUME TypeInv, NEW g \in Gens, WorkerStep(g), g = gen, ~ Active(g)'
  PROVE  running' = FALSE
<1>1. CASE ReleaseStore(g)
  BY <1>1 DEF ReleaseStore
<1>2. CASE ~ ReleaseStore(g)
  <2>1. \A p \in WorkerPcs : Goto(g, p) => worker'[g].pc = p
    BY DEF Goto, TypeInv, TypeOK
  <2>2. \A p, c : Hold(g, p, c) => worker'[g].pc = p
    BY DEF Hold, TypeInv, TypeOK
  <2>3. \E p \in WorkerPcs \ {"idle"} : worker'[g].pc = p
    BY <1>2, <2>1, <2>2
    DEF WorkerStep, CheckDisk, FetchOpen, FetchDone, FetchFails, CheckStale,
        Unpack, Unpacked, Verify, CheckStaleInstall, CopyOpen, CopyDone,
        BackupOpen, BackupDone, Swap, Chmod, Sweep, MarkOpen, MarkWrite, MarkFails, ReleaseCheck,
        InstallFails, WorkerPcs, Stale
  <2> QED
    BY <2>3 DEF Active
<1> QED
  BY <1>1, <1>2

\* Only the last step of a worker touches the lock: it opens it and ends.
LEMMA WorkerLock ==
  ASSUME TypeInv, NEW g \in Gens, WorkerStep(g)
  PROVE  \/ UNCHANGED running
         \/ ~ running' /\ ~ Active(g)'
<1>1. CASE ReleaseStore(g)
  BY <1>1 DEF ReleaseStore, Exit, NoWorker, Active, TypeInv, TypeOK
<1>2. CASE ~ ReleaseStore(g)
  BY <1>2
  DEF WorkerStep, lock, CheckDisk, FetchOpen, FetchDone, FetchFails,
      CheckStale, Unpack, Unpacked, Verify, CheckStaleInstall, CopyOpen,
      CopyDone, BackupOpen, BackupDone, Swap, Chmod, Sweep, MarkOpen, MarkWrite, MarkFails,
      ReleaseCheck
<1> QED
  BY <1>1, <1>2

LEMMA NextLeakInv == TypeInv /\ LeakInv /\ [Next]_vars => LeakInv'
<1> SUFFICES ASSUME TypeInv, LeakInv, [Next]_vars PROVE LeakInv'
  OBVIOUS
<1>1. CASE Kill \/ RestartSelf
  BY <1>1 DEF Kill, RestartSelf, Die, LeakInv, LockNeverLeaks, IdleHandler
<1>2. CASE UNCHANGED <<running, gen, handler, worker>>
  BY <1>2 DEF LeakInv, LockNeverLeaks, Active
<1>3. CASE Boot \/ BootStep \/ CommitRemovePending \/ CommitRemoveBackup \/ Overdue
           \/ BootFails \/ UNCHANGED vars
  <2>1. UNCHANGED <<running, gen, handler, worker>>
    BY <1>3
    DEF Boot, BootStep, CheckNothingPending, CheckTorn, CheckPending, BumpOpen,
        BumpWrite, BumpFails, Decide, DiskError, RollbackRemove, RollbackNoBackup,
        RollbackRestore, RollbackRestoreFails, RollbackChmod, RollbackUnmark, CommitRemovePending, CommitRemoveBackup, Overdue,
        BootFails, vars, lock, thread
  <2> QED
    BY <2>1, <1>2
<1>4. ASSUME NEW f \in Firmware, HandleTakeLock(f)
      PROVE  LeakInv'
  BY <1>4 DEF HandleTakeLock, LeakInv, LockNeverLeaks
<1>5. CASE HandleTurnPage
  <2>1. gen' \in Gens /\ handler'.pc = "paged"
    BY <1>5, OtaAssumption DEF HandleTurnPage, TypeInv, TypeOK, Gens
  <2> QED
    BY <2>1 DEF LeakInv, LockNeverLeaks
<1>6. CASE HandleReject
  BY <1>6 DEF HandleReject, LeakInv, LockNeverLeaks, IdleHandler
<1>7. CASE HandleSpawn
  <2>1. gen \in Gens /\ UNCHANGED gen /\ worker'[gen].pc = "disk" /\ handler'.pc = "idle"
    BY <1>7 DEF HandleSpawn, LeakInv, TypeInv, TypeOK, lock, IdleHandler
  <2> QED
    BY <2>1 DEF LeakInv, LockNeverLeaks, Active
<1>8. ASSUME NEW g \in Gens, WorkerStep(g)
      PROVE  LeakInv'
  <2>1. UNCHANGED <<handler, gen>>
    BY <1>8, WorkerFrame
  <2>2. ASSUME running', handler.pc = "idle"
        PROVE  gen \in Gens /\ Active(gen)'
    <3>1. gen \in Gens /\ Active(gen)
      BY <1>8, <2>2, WorkerLock DEF LeakInv, LockNeverLeaks
    <3>2. CASE gen = g
      BY <1>8, <2>1, <2>2, <3>1, <3>2, CurrentWorkerReleases
    <3>3. CASE gen # g
      BY <1>8, <2>1, <3>1, <3>3, WorkerOnlyItself DEF TypeInv, Active
    <3> QED
      BY <3>1, <3>2, <3>3
  <2> QED
    BY <2>1, <2>2 DEF LeakInv, LockNeverLeaks, Active
<1> QED
  BY <1>1, <1>2, <1>3, <1>4, <1>5, <1>6, <1>7, <1>8 DEF Next, HandlerStep

\* m_running is never left set with nobody to reset it, whatever the timing:
\* after a takeover too its holder is the handler or the newest worker.
THEOREM LockHasHolder == Spec => []LockNeverLeaks
<1>1. Init => LeakInv
  BY DEF Init, LeakInv, LockNeverLeaks, IdleHandler
<1>2. LeakInv => LockNeverLeaks
  BY DEF LeakInv
<1> QED
  BY <1>1, <1>2, NextLeakInv, TypeInvCorrect, PTL DEF Spec

-----------------------------------------------------------------------------
(* One installer at a time, when no job outlasts the watchdog *)

ExclInv ==
  /\ ~ overdue
  /\ handler.pc # "idle" => running /\ \A g \in Gens : ~ Active(g)
  /\ LockExclusive

LEMMA NextExclInv ==
  ASSUME ~ Outlasts
  PROVE  TypeInv /\ ExclInv /\ [Next]_vars => ExclInv'
<1> SUFFICES ASSUME TypeInv, ExclInv, [Next]_vars PROVE ExclInv'
  OBVIOUS
<1>1. CASE Kill \/ RestartSelf
  <2>1. ~ overdue' /\ handler'.pc = "idle" /\ \A g \in Gens : worker'[g].pc = "idle"
    BY <1>1 DEF Kill, RestartSelf, Die, IdleHandler, NoWorker
  <2> QED
    BY <2>1 DEF ExclInv, LockExclusive, Active
<1>2. CASE Boot \/ BootStep \/ CommitRemovePending \/ CommitRemoveBackup
           \/ BootFails \/ UNCHANGED vars
  <2>1. UNCHANGED <<overdue, running, gen, handler, worker>>
    BY <1>2
    DEF Boot, BootStep, CheckNothingPending, CheckTorn, CheckPending, BumpOpen,
        BumpWrite, BumpFails, Decide, DiskError, RollbackRemove, RollbackNoBackup,
        RollbackRestore, RollbackRestoreFails, RollbackChmod, RollbackUnmark, CommitRemovePending, CommitRemoveBackup,
        BootFails, vars, lock, thread
  <2> QED
    BY <2>1 DEF ExclInv, LockExclusive, Active
<1>3. CASE Overdue
  BY <1>3 DEF Overdue
<1>4. ASSUME NEW f \in Firmware, HandleTakeLock(f)
      PROVE  ExclInv'
  <2>1. \A g \in Gens : ~ Active(g)
    BY <1>4 DEF HandleTakeLock, ExclInv, LockExclusive
  <2>2. running' /\ UNCHANGED <<overdue, worker>>
    BY <1>4 DEF HandleTakeLock
  <2> QED
    BY <2>1, <2>2 DEF ExclInv, LockExclusive, Active
<1>5. CASE HandleTurnPage
  <2>1. running /\ \A g \in Gens : ~ Active(g)
    BY <1>5 DEF HandleTurnPage, ExclInv
  <2>2. ~ overdue' /\ UNCHANGED <<running, worker>>
    BY <1>5 DEF HandleTurnPage
  <2> QED
    BY <2>1, <2>2 DEF ExclInv, LockExclusive, Active
<1>6. CASE HandleReject
  <2>1. \A g \in Gens : ~ Active(g)
    BY <1>6 DEF HandleReject, ExclInv
  <2>2. handler'.pc = "idle" /\ UNCHANGED <<overdue, worker>>
    BY <1>6 DEF HandleReject, IdleHandler
  <2> QED
    BY <2>1, <2>2 DEF ExclInv, LockExclusive, Active
<1>7. CASE HandleSpawn
  <2>1. running /\ \A g \in Gens : ~ Active(g)
    BY <1>7 DEF HandleSpawn, ExclInv
  <2>2. handler'.pc = "idle" /\ UNCHANGED <<overdue, running, gen>>
    BY <1>7 DEF HandleSpawn, IdleHandler, lock
  <2>3. \A g \in Gens \ {gen} : worker'[g] = worker[g]
    BY <1>7 DEF HandleSpawn, TypeInv, TypeOK
  <2> QED
    BY <2>1, <2>2, <2>3 DEF ExclInv, LockExclusive, Active
<1>8. ASSUME NEW g \in Gens, WorkerStep(g)
      PROVE  ExclInv'
  <2>1. UNCHANGED <<handler, gen, overdue>>
    BY <1>8, WorkerFrame
  <2>2. Active(g) /\ \A h \in Gens \ {g} : worker'[h] = worker[h]
    BY <1>8, WorkerOnlyItself DEF TypeInv
  <2>3. running /\ g = gen /\ handler.pc = "idle" /\ \A h \in Gens \ {g} : ~ Active(h)
    BY <2>2 DEF ExclInv, LockExclusive
  <2>4. Active(g)' => running'
    BY <1>8, <2>3, WorkerLock
  <2> QED
    BY <2>1, <2>2, <2>3, <2>4 DEF ExclInv, LockExclusive, Active
<1> QED
  BY <1>1, <1>2, <1>3, <1>4, <1>5, <1>6, <1>7, <1>8 DEF Next, HandlerStep

LEMMA InitExclInv == Init => ExclInv
  BY DEF Init, ExclInv, LockExclusive, IdleHandler, NoWorker, Active

\* When no job holds the lock longer than the watchdog allows, at most one
\* worker is alive, it is the newest, and the lock is held while it is.
THEOREM OneWorker ==
  ASSUME ~ Outlasts
  PROVE  Spec => []LockExclusive
<1>1. ExclInv => LockExclusive
  BY DEF ExclInv
<1> QED
  BY <1>1, InitExclInv, NextExclInv, TypeInvCorrect, PTL DEF Spec

-----------------------------------------------------------------------------
(* What is installed is what was verified *)

\* From the check of the hash on, the worker's image is in firmware.bin, then
\* in the copy it is making, then in exe.new.tmp.
Carries(g) ==
  /\ worker[g].pc \in {"verified", "copy"} => file["fw"] = worker[g].image
  /\ worker[g].pc = "copying" => worker[g].src = worker[g].image
  /\ worker[g].pc \in {"backup", "backingUp", "swap"} => file["tmp"] = worker[g].image

CarryInv == \A g \in Gens : Carries(g)

\* A worker that is alone keeps carrying its image.
LEMMA WorkerCarries ==
  ASSUME ~ ShortCopy, TypeInv, NEW g \in Gens, WorkerStep(g), Carries(g)
  PROVE  Carries(g)'
<1>1. worker \in [Gens -> [pc : WorkerPcs, image : Firmware \cup {None}, src : Content]]
      /\ file \in [Files -> Content]
      /\ worker[g].image \in Firmware
  BY WorkerOnlyItself DEF TypeInv, TypeOK
<1> USE <1>1, OtaAssumption DEF Carries, At, Goto, Hold, Exit, NoWorker, Files
<1>2. CASE CheckDisk(g) \/ FetchOpen(g) \/ FetchDone(g) \/ FetchFails(g)
  BY <1>2 DEF CheckDisk, FetchOpen, FetchDone, FetchFails
<1>3. CASE CheckStale(g, "fetched", "unpack") \/ CheckStale(g, "unpacked", "hash")
  BY <1>3 DEF CheckStale
<1>4. CASE Unpack(g) \/ Unpacked(g)
  BY <1>4 DEF Unpack, Unpacked
<1>5. CASE Verify(g)
  BY <1>5 DEF Verify
<1>6. CASE CheckStaleInstall(g)
  BY <1>6 DEF CheckStaleInstall
<1>7. CASE CopyOpen(g)
  BY <1>7 DEF CopyOpen, InstallFails
<1>8. CASE CopyDone(g)
  BY <1>8 DEF CopyDone, Copies
<1>9. CASE BackupOpen(g) \/ BackupDone(g)
  BY <1>9 DEF BackupOpen, BackupDone, InstallFails
<1>10. CASE Swap(g) \/ Chmod(g) \/ Sweep(g)
  BY <1>10 DEF Swap, Chmod, Sweep, InstallFails
<1>11. CASE MarkOpen(g) \/ MarkWrite(g) \/ MarkFails(g)
  BY <1>11 DEF MarkOpen, MarkWrite, MarkFails
<1>12. CASE ReleaseCheck(g) \/ ReleaseStore(g)
  BY <1>12 DEF ReleaseCheck, ReleaseStore
<1> QED
  BY <1>2, <1>3, <1>4, <1>5, <1>6, <1>7, <1>8, <1>9, <1>10, <1>11, <1>12
  DEF WorkerStep

LEMMA IdleCarries ==
  ASSUME NEW g \in Gens, ~ Active(g)
  PROVE  Carries(g)
  BY DEF Active, Carries

LEMMA NextCarryInv ==
  ASSUME ~ ShortCopy
  PROVE  TypeInv /\ ExclInv /\ CarryInv /\ [Next]_vars => CarryInv'
<1> SUFFICES ASSUME TypeInv, ExclInv, CarryInv, [Next]_vars, NEW g \in Gens
             PROVE  Carries(g)'
  BY DEF CarryInv
<1>1. CASE Kill \/ RestartSelf
  BY <1>1 DEF Kill, RestartSelf, Die, NoWorker, Carries
<1>2. ASSUME UNCHANGED worker, file'["fw"] = file["fw"], file'["tmp"] = file["tmp"]
      PROVE  Carries(g)'
  BY <1>2 DEF CarryInv, Carries
<1>3. CASE Boot \/ BootStep \/ CommitRemovePending \/ CommitRemoveBackup \/ Overdue
           \/ BootFails \/ UNCHANGED vars
  <2>1. UNCHANGED worker /\ file'["fw"] = file["fw"] /\ file'["tmp"] = file["tmp"]
    BY <1>3
    DEF Boot, BootStep, CheckNothingPending, CheckTorn, CheckPending, BumpOpen,
        BumpWrite, BumpFails, Decide, DiskError, RollbackRemove, RollbackNoBackup,
        RollbackRestore, RollbackRestoreFails, RollbackChmod, RollbackUnmark, CommitRemovePending, CommitRemoveBackup, Overdue,
        BootFails, vars, disk, history, thread, TypeInv, TypeOK, Files
  <2> QED
    BY <2>1, <1>2
<1>4. CASE HandlerStep /\ ~ HandleSpawn
  <2>1. UNCHANGED worker /\ UNCHANGED file
    BY <1>4 DEF HandlerStep, HandleTakeLock, HandleTurnPage, HandleReject, disk, history
  <2> QED
    BY <2>1, <1>2
<1>5. CASE HandleSpawn
  <2>1. worker[g].pc = "idle"
    BY <1>5 DEF HandleSpawn, ExclInv, Active
  <2>2. worker'[g].pc \in {"idle", "disk"}
    BY <1>5, <2>1 DEF HandleSpawn, TypeInv, TypeOK
  <2> QED
    BY <2>2 DEF Carries
<1>6. ASSUME NEW h \in Gens, WorkerStep(h)
      PROVE  Carries(g)'
  <2>1. CASE g = h
    BY <1>6, <2>1, WorkerCarries DEF CarryInv
  <2>2. CASE g # h
    <3>1. worker'[g] = worker[g] /\ worker[g].pc = "idle"
      BY <1>6, <2>2, WorkerOnlyItself DEF TypeInv, ExclInv, LockExclusive, Active
    <3> QED
      BY <3>1 DEF Carries
  <2> QED
    BY <2>1, <2>2
<1> QED
  BY <1>1, <1>3, <1>4, <1>5, <1>6 DEF Next

\* The program file is only written by a rollback and by the rename of a
\* worker that carries the image it verified.
LEMMA ExeStepOfNext ==
  ASSUME TypeInv, CarryInv, [Next]_vars
  PROVE  ExeStep
<1>1. CASE UNCHANGED file
  BY <1>1 DEF ExeStep
<1>2. CASE BootStep
  <2>1. proc \in BootPcs
    BY <1>2
    DEF BootStep, CheckNothingPending, CheckTorn, CheckPending, BumpOpen,
        BumpWrite, BumpFails, Decide, DiskError, RollbackRemove, RollbackNoBackup,
        RollbackRestore, RollbackRestoreFails, RollbackChmod, RollbackUnmark, BootPcs
  <2> QED
    BY <2>1 DEF ExeStep
<1>3. CASE CommitRemoveBackup
  BY <1>3 DEF CommitRemoveBackup, ExeStep, TypeInv, TypeOK, Files
<1>4. ASSUME NEW g \in Gens, WorkerStep(g), ~ Swap(g)
      PROVE  ExeStep
  <2>1. file'["exe"] = file["exe"]
    BY <1>4
    DEF WorkerStep, CheckDisk, FetchOpen, FetchDone, FetchFails, CheckStale,
        Unpack, Unpacked, Verify, CheckStaleInstall, CopyOpen, CopyDone,
        BackupOpen, BackupDone, Chmod, Sweep, MarkOpen, MarkWrite, MarkFails, ReleaseCheck,
        ReleaseStore, InstallFails, disk, TypeInv, TypeOK, Files
  <2> QED
    BY <2>1 DEF ExeStep
<1>5. ASSUME NEW g \in Gens, Swap(g)
      PROVE  ExeStep
  <2>1. worker[g].pc = "swap" /\ file["tmp"] = worker[g].image
    BY <1>5 DEF Swap, At, CarryInv, Carries
  <2>2. file'["exe"] \in {file["exe"], file["tmp"]}
    BY <1>5 DEF Swap, InstallFails, TypeInv, TypeOK, Files
  <2> QED
    BY <2>1, <2>2 DEF ExeStep
<1> QED
  BY <1>1, <1>2, <1>3, <1>4, <1>5
  DEF Next, Kill, Die, Boot, BootFails, RestartSelf, CommitRemovePending, HandlerStep,
      HandleTakeLock, HandleTurnPage, HandleReject, HandleSpawn, Overdue, vars, disk, history

LEMMA InitCarryInv == Init => CarryInv
  BY DEF Init, CarryInv, Carries, NoWorker

\* When no job outlasts the watchdog and no copy is cut short, the program
\* file only ever receives the image whose hash was checked for the command,
\* or, in a rollback, the backup.
THEOREM InstallsOnlyVerified ==
  ASSUME ~ Outlasts, ~ ShortCopy
  PROVE  Spec => VerifiedInstall
<1>1. TypeInv /\ CarryInv /\ [Next]_vars => [ExeStep]_vars
  BY ExeStepOfNext
<1> QED
  BY <1>1, InitExclInv, NextExclInv, InitCarryInv, NextCarryInv, TypeInvCorrect, PTL
  DEF Spec, VerifiedInstall

-----------------------------------------------------------------------------
(* The program file is never torn *)

\* Before its pending file a worker works while no trial is open; threads only
\* live while the process is up.
QuietInv ==
  /\ handler.pc # "idle" => proc = "up" /\ ~ TrialOngoing
  /\ \A g \in Gens : Active(g) =>
       /\ proc = "up"
       /\ commit = "off"
       /\ worker[g].pc \notin {"marking", "restart"} => pending.st = "none"

\* The backup is only torn while a worker writes it, or when the process was
\* killed just then: in both cases no trial can go back to it.
BackupInv ==
  /\ file["bak"] = Torn =>
       pending.st = "none" /\ proc \notin BootPcs \ {"check", "restart"}
  /\ \A g \in Gens :
       /\ worker[g].pc = "backingUp" => worker[g].src # Torn
       /\ worker[g].pc \in {"swap", "chmod", "sweep", "mark", "marking", "restart"} => file["bak"] # Torn

WholeInv == QuietInv /\ BackupInv /\ ExeWhole

LEMMA InitWholeInv == Init => WholeInv
<1> SUFFICES ASSUME Init PROVE WholeInv
  OBVIOUS
<1>1. file["bak"] = None /\ file["exe"] = Factory
  BY DEF Init, Files
<1>2. handler.pc = "idle" /\ \A g \in Gens : worker[g].pc = "idle"
  BY DEF Init, IdleHandler, NoWorker
<1> QED
  BY <1>1, <1>2, OtaAssumption DEF WholeInv, QuietInv, BackupInv, ExeWhole, Active

LEMMA BootStepWhole ==
  ASSUME TypeInv, WholeInv, BootStep
  PROVE  WholeInv'
<1>1. proc # "up" /\ UNCHANGED <<handler, worker>>
  BY DEF BootStep, CheckNothingPending, CheckTorn, CheckPending, BumpOpen,
         BumpWrite, BumpFails, Decide, DiskError, RollbackRemove, RollbackNoBackup,
         RollbackRestore, RollbackRestoreFails, RollbackChmod, RollbackUnmark, thread
<1>2. handler'.pc = "idle" /\ \A g \in Gens : ~ Active(g)'
  BY <1>1 DEF WholeInv, QuietInv, Active
<1>3. ExeWhole' /\ (file'["bak"] = Torn =>
           pending'.st = "none" /\ proc' \notin BootPcs \ {"check", "restart"})
  <2> USE DEF WholeInv, BackupInv, ExeWhole, BootPcs, disk, history
  <2>1. CASE CheckNothingPending \/ CheckTorn
    BY <2>1 DEF CheckNothingPending, CheckTorn, NoPending
  <2>2. CASE CheckPending
    BY <2>2 DEF CheckPending
  <2>3. CASE BumpOpen \/ BumpWrite \/ BumpFails
    BY <2>3 DEF BumpOpen, BumpWrite, BumpFails, Decide
  <2>4. CASE RollbackRemove
    BY <2>4 DEF RollbackRemove, TypeInv, TypeOK, Files
  <2>5. CASE RollbackNoBackup
    BY <2>5 DEF RollbackNoBackup
  <2>6. CASE RollbackRestore
    <3>1. file["bak"] \in Firmware \cup {None}
      BY <2>6 DEF RollbackRestore, TypeInv, TypeOK, Files, Content
    <3>2. file'["exe"] = file["bak"] /\ file'["bak"] = None
      BY <2>6 DEF RollbackRestore, TypeInv, TypeOK, Files
    <3> QED
      BY <3>1, <3>2, OtaAssumption
  <2>7. CASE RollbackUnmark
    BY <2>7 DEF RollbackUnmark
  <2>8. CASE RollbackRestoreFails \/ RollbackChmod
    BY <2>8 DEF RollbackRestoreFails, RollbackChmod
  <2> QED
    BY <2>1, <2>2, <2>3, <2>4, <2>5, <2>6, <2>7, <2>8 DEF BootStep
<1> QED
  BY <1>2, <1>3 DEF WholeInv, QuietInv, BackupInv, Active

\* What a worker step does to the pending file, the program and the backup.
LEMMA WorkerFiles ==
  ASSUME ~ ShortCopy, TypeInv, CarryInv, BackupInv, ExeWhole, NEW g \in Gens, WorkerStep(g)
  PROVE  /\ worker[g].pc \notin {"mark", "marking"} =>
              /\ UNCHANGED pending
              /\ worker[g].pc # "restart"
              /\ worker'[g].pc \notin {"marking", "restart"}
         /\ worker[g].pc = "mark" => worker'[g].pc \in {"marking", "restart"}
         /\ worker[g].pc = "marking" => worker'[g].pc = "restart"
         /\ ExeWhole'
         /\ file'["bak"] = Torn => file["bak"] = Torn \/ worker[g].pc = "backup"
         /\ worker'[g].pc = "backingUp" => worker'[g].src # Torn
         /\ worker'[g].pc \in {"swap", "chmod", "sweep", "mark", "marking", "restart"} => file'["bak"] # Torn
<1>1. worker \in [Gens -> [pc : WorkerPcs, image : Firmware \cup {None}, src : Content]]
      /\ file \in [Files -> Content]
      /\ worker[g].image \in Firmware
  BY WorkerOnlyItself DEF TypeInv, TypeOK
<1> USE <1>1, OtaAssumption
    DEF At, Goto, Hold, Exit, NoWorker, Files, BackupInv, ExeWhole
<1>2. CASE CheckDisk(g) \/ FetchOpen(g) \/ FetchDone(g) \/ FetchFails(g)
  BY <1>2 DEF CheckDisk, FetchOpen, FetchDone, FetchFails
<1>3. CASE CheckStale(g, "fetched", "unpack") \/ CheckStale(g, "unpacked", "hash")
  BY <1>3 DEF CheckStale
<1>4. CASE Unpack(g) \/ Unpacked(g)
  BY <1>4 DEF Unpack, Unpacked
<1>5. CASE Verify(g) \/ CheckStaleInstall(g)
  BY <1>5 DEF Verify, CheckStaleInstall
<1>6. CASE CopyOpen(g) \/ CopyDone(g)
  BY <1>6 DEF CopyOpen, CopyDone, InstallFails
<1>7. CASE BackupOpen(g)
  BY <1>7 DEF BackupOpen, InstallFails
<1>8. CASE BackupDone(g)
  BY <1>8 DEF BackupDone, Copies
<1>9. CASE Swap(g)
  BY <1>9 DEF Swap, InstallFails, CarryInv, Carries
<1>10. CASE Chmod(g) \/ Sweep(g)
  BY <1>10 DEF Chmod, Sweep
<1>11. CASE MarkOpen(g) \/ MarkWrite(g) \/ MarkFails(g)
  BY <1>11 DEF MarkOpen, MarkWrite, MarkFails, disk
<1>12. CASE ReleaseCheck(g) \/ ReleaseStore(g)
  BY <1>12 DEF ReleaseCheck, ReleaseStore
<1> QED
  BY <1>2, <1>3, <1>4, <1>5, <1>6, <1>7, <1>8, <1>9, <1>10, <1>11, <1>12
  DEF WorkerStep

LEMMA NextWholeInv ==
  ASSUME ~ Outlasts, ~ ShortCopy, ~ CommandsDuringTrial
  PROVE  TypeInv /\ ExclInv /\ CarryInv /\ WholeInv /\ [Next]_vars => WholeInv'
<1> SUFFICES ASSUME TypeInv, ExclInv, CarryInv, WholeInv, [Next]_vars PROVE WholeInv'
  OBVIOUS
<1>1. CASE Kill \/ RestartSelf
  <2>1. proc' = "down" /\ handler'.pc = "idle" /\ \A g \in Gens : worker'[g].pc = "idle"
    BY <1>1 DEF Kill, RestartSelf, Die, IdleHandler, NoWorker
  <2>2. UNCHANGED <<file, pending>>
    BY <1>1 DEF Kill, RestartSelf, Die, disk
  <2> QED
    BY <2>1, <2>2 DEF WholeInv, QuietInv, BackupInv, ExeWhole, Active, BootPcs
<1>2. CASE Boot
  <2>1. proc = "down" /\ proc' = "check" /\ UNCHANGED <<file, pending, handler, worker>>
    BY <1>2 DEF Boot, disk, history, thread
  <2>2. handler.pc = "idle" /\ \A g \in Gens : ~ Active(g)
    BY <2>1 DEF WholeInv, QuietInv
  <2> QED
    BY <2>1, <2>2 DEF WholeInv, QuietInv, BackupInv, ExeWhole, Active
<1>3. CASE BootStep
  BY <1>3, BootStepWhole
<1>4. CASE CommitRemovePending \/ CommitRemoveBackup
  <2>1. commit # "off" /\ proc = "up" /\ UNCHANGED <<proc, handler, worker>>
    BY <1>4 DEF CommitRemovePending, CommitRemoveBackup
  <2>2. handler.pc = "idle" /\ \A g \in Gens : ~ Active(g)
    BY <2>1 DEF WholeInv, QuietInv, TrialOngoing
  <2>3. /\ pending' \in {pending, NoPending}
        /\ file'["exe"] = file["exe"]
        /\ file'["bak"] \in {file["bak"], None}
    BY <1>4 DEF CommitRemovePending, CommitRemoveBackup, TypeInv, TypeOK, Files
  <2> QED
    BY <2>1, <2>2, <2>3, OtaAssumption
    DEF WholeInv, QuietInv, BackupInv, ExeWhole, Active, NoPending
<1>5. CASE Overdue \/ BootFails \/ UNCHANGED vars
  <2>1. UNCHANGED <<file, pending, proc, handler, worker, commit>>
    BY <1>5 DEF Overdue, BootFails, vars, disk, history, thread
  <2> QED
    BY <2>1 DEF WholeInv, QuietInv, BackupInv, ExeWhole, Active, TrialOngoing
<1>6. CASE HandlerStep
  <2>1. /\ proc = "up"
        /\ UNCHANGED <<file, pending, proc, commit>>
        /\ ~ TrialOngoing
    BY <1>6
    DEF HandlerStep, HandleTakeLock, HandleTurnPage, HandleReject, HandleSpawn,
        disk, history, WholeInv, QuietInv
  <2>2. \A g \in Gens : Active(g)' =>
          (Active(g) /\ worker'[g] = worker[g]) \/ worker'[g].pc = "disk"
    BY <1>6
    DEF HandlerStep, HandleTakeLock, HandleTurnPage, HandleReject, HandleSpawn,
        Active, TypeInv, TypeOK
  <2> QED
    BY <2>1, <2>2 DEF WholeInv, QuietInv, BackupInv, ExeWhole, Active, TrialOngoing
<1>7. ASSUME NEW g \in Gens, WorkerStep(g)
      PROVE  WholeInv'
  <2>1. UNCHANGED <<handler, commit, proc>> /\ proc = "up"
    BY <1>7, WorkerFrame
  <2>2. /\ Active(g)
        /\ handler.pc = "idle"
        /\ \A h \in Gens \ {g} : worker'[h] = worker[h] /\ ~ Active(h)
    BY <1>7, WorkerOnlyItself DEF TypeInv, ExclInv, LockExclusive
  <2>3. \A h \in Gens \ {g} : worker'[h].pc = "idle"
    BY <2>2 DEF Active
  <2>4. BackupInv /\ ExeWhole /\ commit = "off"
        /\ (worker[g].pc \notin {"marking", "restart"} => pending.st = "none")
    BY <2>2 DEF WholeInv, QuietInv
  <2>5. QuietInv'
    BY <1>7, <2>1, <2>2, <2>3, <2>4, WorkerFiles DEF QuietInv, Active
  <2>6. file'["bak"] = Torn => pending'.st = "none"
    BY <1>7, <2>4, WorkerFiles DEF BackupInv
  <2> QED
    BY <1>7, <2>1, <2>3, <2>4, <2>5, <2>6, WorkerFiles DEF WholeInv, BackupInv, BootPcs
<1> QED
  BY <1>1, <1>2, <1>3, <1>4, <1>5, <1>6, <1>7 DEF Next

\* However the process is killed, the program file is a whole image or absent,
\* when jobs respect the watchdog, copies are complete and commands wait for
\* the last trial to be decided.
THEOREM ExeAlwaysWhole ==
  ASSUME ~ Outlasts, ~ ShortCopy, ~ CommandsDuringTrial
  PROVE  Spec => []ExeWhole
<1>1. WholeInv => ExeWhole
  BY DEF WholeInv
<1> QED
  BY <1>1, InitWholeInv, NextWholeInv, InitExclInv, NextExclInv, InitCarryInv,
     NextCarryInv, TypeInvCorrect, PTL
  DEF Spec

-----------------------------------------------------------------------------
(* The last confirmed image is never lost *)

\* A trial of img: the program is img and the backup the last confirmed image,
\* or a rollback has restored that one already.
TrialShape(img) ==
  \/ file["exe"] = img /\ file["bak"] = committed
  \/ file["exe"] = committed /\ file["bak"] = None

\* What the pending file says about the program and the backup.
DiskInv ==
  /\ pending.st = "none" =>
       file["exe"] = committed \/ \E g \in Gens : worker[g].pc \in {"chmod", "sweep", "mark"}
  /\ pending.st = "set" =>
       \/ TrialShape(pending.image)
       \/ /\ file["exe"] = None /\ file["bak"] = committed
          /\ proc \in {"down", "restore"} /\ pending.attempts = MaxBootAttempts
  /\ pending.st = "torn" => proc = "bumped" \/ \E g \in Gens : worker[g].pc = "marking"

\* The image of a process is its program, until a rollback or an installation
\* replaces that; the commit timer only runs in such a process.  A mishap does
\* not change that, so the image that is confirmed is the one on the disk.
ImageInv ==
  /\ proc \in {"check", "bump", "bumped"} \/ commit = "armed" => image = file["exe"]
  /\ commit # "off" => proc = "up"

LEMMA InitImageInv == Init => ImageInv
  BY DEF Init, ImageInv

LEMMA NextImageInv == TypeInv /\ WholeInv /\ ImageInv /\ [Next]_vars => ImageInv'
<1> SUFFICES ASSUME TypeInv, WholeInv, ImageInv, [Next]_vars PROVE ImageInv'
  OBVIOUS
<1> USE DEF ImageInv, disk, history, thread
<1>1. CASE Kill \/ RestartSelf
  BY <1>1 DEF Kill, RestartSelf, Die
<1>2. CASE Boot
  BY <1>2 DEF Boot
<1>3. CASE BootStep
  <2>1. CASE CheckNothingPending \/ CheckTorn \/ CheckPending
    BY <2>1 DEF CheckNothingPending, CheckTorn, CheckPending
  <2>2. CASE BumpOpen \/ BumpWrite \/ BumpFails
    BY <2>2 DEF BumpOpen, BumpWrite, BumpFails, Decide
  <2>3. CASE RollbackRemove \/ RollbackNoBackup \/ RollbackRestore
             \/ RollbackRestoreFails \/ RollbackChmod \/ RollbackUnmark
    BY <2>3
    DEF RollbackRemove, RollbackNoBackup, RollbackRestore, RollbackRestoreFails,
        RollbackChmod, RollbackUnmark
  <2> QED
    BY <1>3, <2>1, <2>2, <2>3 DEF BootStep
<1>4. CASE CommitRemovePending \/ CommitRemoveBackup
  BY <1>4 DEF CommitRemovePending, CommitRemoveBackup, TypeInv, TypeOK, Files
<1>5. CASE Overdue \/ BootFails \/ UNCHANGED vars
  BY <1>5 DEF Overdue, BootFails, vars
<1>6. CASE HandlerStep
  BY <1>6
  DEF HandlerStep, HandleTakeLock, HandleTurnPage, HandleReject, HandleSpawn
<1>7. ASSUME NEW g \in Gens, WorkerStep(g)
      PROVE  ImageInv'
  <2>1. proc = "up" /\ UNCHANGED <<proc, commit>>
    BY <1>7, WorkerFrame
  <2>2. commit = "off"
    BY <1>7, WorkerOnlyItself DEF TypeInv, WholeInv, QuietInv
  <2> QED
    BY <2>1, <2>2
<1> QED
  BY <1>1, <1>2, <1>3, <1>4, <1>5, <1>6, <1>7 DEF Next

\* Where the boot is with the trial, and where the commit timer is.
BootInv ==
  /\ proc = "bump" => /\ pending.st = "set"
                      /\ trial = Pending(pending.image, Bump(pending.attempts))
  /\ proc = "bumped" => /\ trial.st = "set" /\ trial.attempts >= 1
                        /\ TrialShape(trial.image)
  /\ proc \in {"rollback", "restore", "chmod", "unmark"} =>
       pending.st = "set" /\ pending.attempts = MaxBootAttempts
  /\ proc = "restore" => file["exe"] = None /\ file["bak"] = committed
  /\ proc \in {"chmod", "unmark"} => file["exe"] = committed
  /\ proc = "restart" => pending.st = "none"
  /\ commit = "armed" => pending.st = "set" /\ pending.attempts \in 1..(MaxBootAttempts - 1)
  /\ commit = "removed" => pending.st = "none"

\* Where an installation is with the files.
InstallInv ==
  \A g \in Gens :
    /\ worker[g].pc = "backingUp" => worker[g].src = committed
    /\ worker[g].pc = "swap" => file["bak"] = committed
    /\ worker[g].pc \in {"chmod", "sweep", "mark", "marking"} =>
         file["exe"] = worker[g].image /\ file["bak"] = committed
    /\ worker[g].pc = "marking" => pending.st = "torn"

GuardInv == DiskInv /\ BootInv /\ InstallInv

LEMMA InitGuardInv == Init => GuardInv
<1> SUFFICES ASSUME Init PROVE GuardInv
  OBVIOUS
<1>1. file["exe"] = committed /\ pending.st = "none"
  BY DEF Init, Files, NoPending
<1>2. \A g \in Gens : worker[g].pc = "idle"
  BY DEF Init, NoWorker
<1>3. proc = "down" /\ commit = "off"
  BY DEF Init
<1> QED
  BY <1>1, <1>2, <1>3 DEF GuardInv, DiskInv, BootInv, InstallInv

\* Only a confirmation ends the time after a mishap.
LEMMA MishapLasts ==
  ASSUME mishap, [Next]_vars, ~ CommitRemovePending
  PROVE  mishap'
<1> USE DEF disk, history, thread
<1>1. CASE Kill \/ RestartSelf
  BY <1>1 DEF Kill, RestartSelf, Die
<1>2. CASE BootStep
  BY <1>2
  DEF BootStep, CheckNothingPending, CheckTorn, CheckPending, BumpOpen,
      BumpWrite, BumpFails, DiskError, RollbackRemove, RollbackNoBackup,
      RollbackRestore, RollbackRestoreFails, RollbackChmod, RollbackUnmark
<1>3. CASE Boot \/ BootFails \/ CommitRemoveBackup \/ HandlerStep \/ Overdue \/ UNCHANGED vars
  BY <1>3
  DEF Boot, BootFails, CommitRemoveBackup, HandlerStep, HandleTakeLock,
      HandleTurnPage, HandleReject, HandleSpawn, Overdue, vars
<1>4. ASSUME NEW g \in Gens, WorkerStep(g)
      PROVE  mishap'
  BY <1>4, WorkerMode
<1> QED
  BY <1>1, <1>2, <1>3, <1>4 DEF Next

\* A worker that steps is alone.
LEMMA WorkerAlone ==
  ASSUME TypeInv, ExclInv, NEW g \in Gens, WorkerStep(g)
  PROVE  \A h \in Gens \ {g} : worker[h].pc = "idle" /\ worker'[h] = worker[h]
<1>1. Active(g) /\ \A h \in Gens \ {g} : worker'[h] = worker[h]
  BY WorkerOnlyItself DEF TypeInv
<1> QED
  BY <1>1 DEF ExclInv, LockExclusive, Active

\* What an installation does to the program, the backup and the pending file.
LEMMA InstallSteps ==
  ASSUME ~ ShortCopy, TypeInv, CarryInv, ~ mishap', NEW g \in Gens, WorkerStep(g)
  PROVE  LET w == worker[g]
             new == worker'[g]
             kept == file'["exe"] = file["exe"]
         IN  \/ /\ w.pc \notin {"backingUp", "chmod", "sweep", "mark", "marking", "restart"}
                /\ new.pc \notin {"backingUp", "swap", "chmod", "sweep", "mark", "marking", "restart"}
                /\ kept /\ file'["bak"] = file["bak"] /\ UNCHANGED pending
             \/ /\ w.pc = "backup" /\ new.pc = "backingUp" /\ new.src = file["exe"]
                /\ kept /\ UNCHANGED pending
             \/ /\ w.pc = "backingUp" /\ new.pc = "swap"
                /\ kept /\ file'["bak"] = w.src /\ UNCHANGED pending
             \/ /\ w.pc = "swap" /\ new.pc = "chmod" /\ new.image = w.image
                /\ file'["exe"] = w.image /\ file'["bak"] = file["bak"] /\ UNCHANGED pending
             \/ /\ w.pc = "chmod" /\ new.pc = "sweep" /\ new.image = w.image
                /\ kept /\ file'["bak"] = file["bak"] /\ UNCHANGED pending
             \/ /\ w.pc = "sweep" /\ new.pc = "mark" /\ new.image = w.image
                /\ kept /\ file'["bak"] = file["bak"] /\ UNCHANGED pending
             \/ /\ w.pc = "mark" /\ new.pc = "marking" /\ new.image = w.image
                /\ UNCHANGED file /\ pending' = TornPending
             \/ /\ w.pc = "marking" /\ new.pc = "restart"
                /\ UNCHANGED file /\ pending' = Pending(w.image, 0)
<1>1. worker \in [Gens -> [pc : WorkerPcs, image : Firmware \cup {None}, src : Content]]
      /\ file \in [Files -> Content]
      /\ worker[g].image \in Firmware
  BY WorkerOnlyItself DEF TypeInv, TypeOK
<1> USE <1>1, OtaAssumption DEF At, Goto, Hold, Exit, NoWorker, Files
<1>2. CASE CheckDisk(g) \/ FetchOpen(g) \/ FetchDone(g) \/ FetchFails(g)
  BY <1>2 DEF CheckDisk, FetchOpen, FetchDone, FetchFails
<1>3. CASE CheckStale(g, "fetched", "unpack") \/ CheckStale(g, "unpacked", "hash")
  BY <1>3 DEF CheckStale
<1>4. CASE Unpack(g) \/ Unpacked(g)
  BY <1>4 DEF Unpack, Unpacked
<1>5. CASE Verify(g) \/ CheckStaleInstall(g)
  BY <1>5 DEF Verify, CheckStaleInstall
<1>6. CASE CopyOpen(g) \/ CopyDone(g)
  BY <1>6 DEF CopyOpen, CopyDone, InstallFails
<1>7. CASE BackupOpen(g)
  BY <1>7 DEF BackupOpen, InstallFails
<1>8. CASE BackupDone(g)
  BY <1>8 DEF BackupDone, Copies
<1>9. CASE Swap(g)
  <2>1. file["tmp"] = worker[g].image
    BY <1>9 DEF Swap, CarryInv, Carries
  <2> QED
    BY <1>9, <2>1 DEF Swap, InstallFails
<1>10. CASE Chmod(g) \/ Sweep(g)
  BY <1>10 DEF Chmod, Sweep
<1>11. CASE MarkOpen(g)
  BY <1>11 DEF MarkOpen
<1>12. CASE MarkWrite(g)
  BY <1>12 DEF MarkWrite
<1>13. CASE ReleaseCheck(g) \/ ReleaseStore(g)
  BY <1>13 DEF ReleaseCheck, ReleaseStore
<1>14. CASE MarkFails(g)
  BY <1>14 DEF MarkFails, DiskError
<1> QED
  BY <1>2, <1>3, <1>4, <1>5, <1>6, <1>7, <1>8, <1>9, <1>10, <1>11, <1>12, <1>13, <1>14
  DEF WorkerStep

\* Until it renames the new image to the program's name a worker finds the last
\* confirmed image there, and no trial.
LEMMA WorkerGuard ==
  ASSUME ~ ShortCopy, TypeInv, ExclInv, CarryInv, WholeInv, GuardInv, ~ mishap',
         NEW g \in Gens, WorkerStep(g)
  PROVE  GuardInv'
<1>1. /\ proc = "up"
      /\ UNCHANGED <<committed, proc, image, trial, commit>>
  BY WorkerFrame
<1>2. \A h \in Gens \ {g} : worker[h].pc = "idle" /\ worker'[h] = worker[h]
  BY WorkerAlone
<1>3. /\ Active(g) /\ commit = "off"
      /\ worker[g].pc \notin {"marking", "restart"} => pending.st = "none"
  BY WorkerOnlyItself DEF TypeInv, WholeInv, QuietInv
<1>4. worker[g].pc \notin {"chmod", "sweep", "mark", "marking", "restart"} => file["exe"] = committed
  BY <1>2, <1>3 DEF GuardInv, DiskInv
<1>5. /\ worker[g].pc = "backingUp" => worker[g].src = committed
      /\ worker[g].pc = "swap" => file["bak"] = committed
      /\ worker[g].pc \in {"chmod", "sweep", "mark", "marking"} =>
           file["exe"] = worker[g].image /\ file["bak"] = committed
  BY DEF GuardInv, InstallInv
<1> USE <1>1
<1>6. InstallInv'
  <2> SUFFICES ASSUME NEW h \in Gens
               PROVE /\ worker'[h].pc = "backingUp" => worker'[h].src = committed
                     /\ worker'[h].pc = "swap" => file'["bak"] = committed
                     /\ worker'[h].pc \in {"chmod", "sweep", "mark", "marking"} =>
                          file'["exe"] = worker'[h].image /\ file'["bak"] = committed
                     /\ worker'[h].pc = "marking" => pending'.st = "torn"
    BY DEF InstallInv
  <2>1. CASE h = g
    BY <1>4, <1>5, <2>1, InstallSteps DEF TornPending
  <2>2. CASE h # g
    BY <1>2, <2>2
  <2> QED
    BY <2>1, <2>2
<1>7. DiskInv'
  <2>1. CASE worker'[g].pc = "restart"
    <3>1. /\ pending' = Pending(worker[g].image, 0)
          /\ UNCHANGED file
          /\ file["exe"] = worker[g].image /\ file["bak"] = committed
      BY <1>5, <2>1, InstallSteps
    <3> QED
      BY <3>1 DEF DiskInv, Pending, TrialShape
  <2>2. CASE worker'[g].pc = "marking"
    <3>1. pending' = TornPending
      BY <2>2, InstallSteps
    <3> QED
      BY <2>2, <3>1 DEF DiskInv, TornPending
  <2>3. CASE worker'[g].pc \in {"chmod", "sweep", "mark"}
    <3>1. UNCHANGED pending /\ pending.st = "none"
      BY <1>3, <2>3, InstallSteps
    <3> QED
      BY <2>3, <3>1 DEF DiskInv
  <2>4. CASE worker'[g].pc \notin {"chmod", "sweep", "mark", "marking", "restart"}
    <3>1. /\ UNCHANGED pending /\ file'["exe"] = file["exe"]
          /\ worker[g].pc \notin {"chmod", "sweep", "mark", "marking", "restart"}
      BY <2>4, InstallSteps
    <3>2. pending'.st = "none" /\ file'["exe"] = committed
      BY <1>3, <1>4, <3>1
    <3> QED
      BY <3>2 DEF DiskInv
  <2> QED
    BY <2>1, <2>2, <2>3, <2>4
<1>8. BootInv'
  BY <1>3 DEF BootInv
<1> QED
  BY <1>6, <1>7, <1>8 DEF GuardInv

\* The end of the process outside the two windows.
LEMMA DieGuard ==
  ASSUME ~ mishap', TypeInv, ExclInv, WholeInv, GuardInv, Kill \/ RestartSelf
  PROVE  GuardInv'
<1>1. /\ proc' = "down" /\ commit' = "off"
      /\ \A g \in Gens : worker'[g].pc = "idle"
      /\ UNCHANGED <<file, pending, committed>>
  BY DEF Kill, RestartSelf, Die, NoWorker, disk
<1>4. mishap' = (mishap \/ Installing \/ Recounting)
  BY DEF Kill, RestartSelf, Die
<1>5. ~ Installing /\ ~ Recounting
  BY <1>4, Zenon
<1>2. proc # "bumped" /\ \A g \in Gens : worker[g].pc \notin {"chmod", "sweep", "mark", "marking"}
  BY <1>5 DEF Installing, Recounting
<1>3. DiskInv'
  BY <1>1, <1>2 DEF GuardInv, DiskInv, TrialShape
<1> QED
  BY <1>1, <1>3 DEF GuardInv, BootInv, InstallInv

LEMMA BootStepGuard ==
  ASSUME TypeInv, WholeInv, ImageInv, GuardInv, ~ mishap', BootStep
  PROVE  GuardInv'
<1>1. /\ proc # "up" /\ proc \in BootPcs /\ UNCHANGED <<worker, committed, image>>
      /\ commit = "off"
  BY DEF BootStep, CheckNothingPending, CheckTorn, CheckPending, BumpOpen,
         BumpWrite, BumpFails, Decide, DiskError, RollbackRemove, RollbackNoBackup,
         RollbackRestore, RollbackRestoreFails, RollbackChmod, RollbackUnmark,
         thread, disk, history, BootPcs, ImageInv
<1>2. \A g \in Gens : worker[g].pc = "idle" /\ worker'[g].pc = "idle"
  BY <1>1 DEF WholeInv, QuietInv, Active
<1>3. InstallInv'
  BY <1>2 DEF InstallInv
<1>4. /\ file \in [Files -> Content] /\ committed \in Firmware
      /\ pending \in {NoPending, TornPending} \cup Trials
      /\ MaxBootAttempts \in Nat \ {0} /\ None \notin Firmware
  BY OtaAssumption DEF TypeInv, TypeOK
<1>5. DiskInv' /\ BootInv'
  <2> USE <1>1, <1>2, <1>4 DEF GuardInv, disk, history, thread
  <2>1. CASE CheckNothingPending
    BY <2>1 DEF CheckNothingPending, DiskInv, BootInv, TrialShape
  <2>2. CASE CheckTorn
    BY <2>2 DEF CheckTorn, DiskInv
  <2>3. CASE CheckPending
    <3>1. /\ pending.st = "set" /\ pending \in Trials
          /\ trial' = Pending(pending.image, Bump(pending.attempts))
          /\ proc = "check" /\ proc' = "bump" /\ commit' = commit
          /\ UNCHANGED <<file, pending>>
      BY <2>3 DEF CheckPending, NoPending, TornPending
    <3> QED
      BY <3>1 DEF DiskInv, BootInv, TrialShape
  <2>4. CASE BumpOpen
    <3>1. /\ proc = "bump" /\ proc' = "bumped" /\ pending' = TornPending
          /\ UNCHANGED <<file, trial, commit>>
      BY <2>4 DEF BumpOpen
    <3>2. /\ pending.st = "set" /\ pending \in Trials
          /\ trial = Pending(pending.image, Bump(pending.attempts))
      BY <3>1 DEF BootInv, NoPending, TornPending
    <3>3. Bump(pending.attempts) >= 1
      BY <3>2 DEF Bump, Trials
    <3>4. TrialShape(trial.image) /\ trial.st = "set" /\ trial.attempts >= 1
      BY <3>1, <3>2, <3>3 DEF DiskInv, Pending
    <3> QED
      BY <3>1, <3>4 DEF DiskInv, BootInv, TornPending, TrialShape
  <2>5. CASE BumpWrite
    <3>1. /\ proc = "bumped" /\ pending' = trial /\ UNCHANGED <<file, trial>>
          /\ \/ trial.attempts >= MaxBootAttempts /\ proc' = "rollback" /\ commit' = "off"
             \/ trial.attempts < MaxBootAttempts /\ proc' = "up" /\ commit' = "armed"
      BY <2>5 DEF BumpWrite, Decide
    <3>2. trial.st = "set" /\ trial.attempts >= 1 /\ TrialShape(trial.image)
      BY <3>1 DEF BootInv
    <3>3. trial.attempts \in 0..MaxBootAttempts
      BY <3>2 DEF TypeInv, TypeOK, NoPending, Trials
    <3>4. \/ trial.attempts = MaxBootAttempts /\ proc' = "rollback" /\ commit' = "off"
          \/ trial.attempts \in 1..(MaxBootAttempts - 1) /\ proc' = "up" /\ commit' = "armed"
      BY <3>1, <3>2, <3>3
    <3> QED
      BY <3>1, <3>2, <3>4 DEF DiskInv, BootInv, TrialShape
  <2>6. CASE RollbackRemove
    <3>1. /\ proc = "rollback" /\ proc' = "restore" /\ file["bak"] # None
          /\ file'["exe"] = None /\ file'["bak"] = file["bak"]
          /\ UNCHANGED <<pending, trial, commit>>
      BY <2>6 DEF RollbackRemove, Files
    <3>2. pending.st = "set" /\ pending.attempts = MaxBootAttempts /\ file["bak"] = committed
      BY <3>1 DEF BootInv, DiskInv, TrialShape
    <3> QED
      BY <3>1, <3>2 DEF DiskInv, BootInv
  <2>7. CASE RollbackNoBackup
    <3>1. /\ proc = "rollback" /\ proc' = "unmark" /\ file["bak"] = None
          /\ UNCHANGED <<file, pending, trial, commit>>
      BY <2>7 DEF RollbackNoBackup
    <3>2. /\ pending.st = "set" /\ pending.attempts = MaxBootAttempts
          /\ file["exe"] = committed
      BY <3>1 DEF BootInv, DiskInv, TrialShape
    <3> QED
      BY <3>1, <3>2 DEF DiskInv, BootInv, TrialShape
  <2>8. CASE RollbackRestore
    <3>1. /\ proc = "restore" /\ proc' = "chmod"
          /\ file'["exe"] = file["bak"] /\ file'["bak"] = None
          /\ UNCHANGED <<pending, trial, commit>>
      BY <2>8 DEF RollbackRestore, Files
    <3>2. /\ pending.st = "set" /\ pending.attempts = MaxBootAttempts
          /\ file["bak"] = committed
      BY <3>1 DEF BootInv
    <3> QED
      BY <3>1, <3>2 DEF DiskInv, BootInv, TrialShape
  <2>9. CASE RollbackUnmark
    <3>1. /\ proc = "unmark" /\ proc' = "restart" /\ pending' = NoPending
          /\ UNCHANGED <<file, trial, commit>>
      BY <2>9 DEF RollbackUnmark
    <3>2. file["exe"] = committed
      BY <3>1 DEF BootInv
    <3> QED
      BY <3>1, <3>2 DEF DiskInv, BootInv, NoPending
  <2>10. CASE RollbackChmod
    <3>1. /\ proc = "chmod" /\ proc' = "unmark"
          /\ UNCHANGED <<file, pending, trial, commit>>
      BY <2>10 DEF RollbackChmod
    <3> QED
      BY <3>1 DEF DiskInv, BootInv, TrialShape
  <2>11. CASE BumpFails \/ RollbackRestoreFails
    BY <2>11 DEF BumpFails, RollbackRestoreFails, DiskError
  <2> QED
    BY <2>1, <2>2, <2>3, <2>4, <2>5, <2>6, <2>7, <2>8, <2>9, <2>10, <2>11 DEF BootStep
<1> QED
  BY <1>3, <1>5 DEF GuardInv

LEMMA NextGuardInv ==
  ASSUME ~ Outlasts, ~ ShortCopy, ~ CommandsDuringTrial
  PROVE  /\ TypeInv /\ ExclInv /\ CarryInv /\ WholeInv /\ ImageInv
         /\ mishap \/ GuardInv
         /\ [Next]_vars
         => (mishap \/ GuardInv)'
<1> SUFFICES ASSUME TypeInv, ExclInv, CarryInv, WholeInv, ImageInv, mishap \/ GuardInv,
                    [Next]_vars, ~ mishap'
             PROVE  GuardInv'
  OBVIOUS
<1>8. CASE CommitRemovePending
  <2>1. /\ commit = "armed" /\ proc = "up" /\ UNCHANGED <<proc, worker, file>>
        /\ commit' = "removed" /\ committed' = image /\ pending' = NoPending
    BY <1>8 DEF CommitRemovePending
  <2>2. \A g \in Gens : worker[g].pc = "idle"
    BY <2>1 DEF WholeInv, QuietInv, Active
  <2>3. image = file["exe"]
    BY <2>1 DEF ImageInv
  <2> QED
    BY <2>1, <2>2, <2>3 DEF GuardInv, DiskInv, BootInv, InstallInv, NoPending
<1> SUFFICES ASSUME ~ CommitRemovePending PROVE GuardInv'
  BY <1>8
<1>9. GuardInv
  BY MishapLasts
<1>1. CASE Kill \/ RestartSelf
  BY <1>1, <1>9, DieGuard
<1>2. CASE Boot
  <2>1. /\ proc = "down" /\ proc' = "check" /\ image' = file["exe"] /\ file["exe"] \in Firmware
        /\ UNCHANGED <<file, pending, committed, worker, commit>>
    BY <1>2 DEF Boot, Startable, disk, history, thread
  <2>2. \A g \in Gens : worker[g].pc = "idle"
    BY <2>1 DEF WholeInv, QuietInv, Active
  <2>3. commit = "off" /\ file["exe"] # None
    BY <2>1, OtaAssumption DEF ImageInv
  <2>4. DiskInv'
    BY <1>9, <2>1, <2>2, <2>3 DEF GuardInv, DiskInv, TrialShape
  <2> QED
    BY <2>1, <2>2, <2>3, <2>4 DEF GuardInv, BootInv, InstallInv
<1>3. CASE BootStep
  BY <1>3, <1>9, BootStepGuard
<1>4. CASE CommitRemoveBackup
  <2>1. /\ commit = "removed" /\ commit' = "off"
        /\ file'["exe"] = file["exe"]
        /\ proc = "up" /\ UNCHANGED <<pending, committed, proc, worker, image, trial>>
    BY <1>4 DEF CommitRemoveBackup, history, TypeInv, TypeOK, Files
  <2>2. \A g \in Gens : worker[g].pc = "idle"
    BY <2>1 DEF WholeInv, QuietInv, Active
  <2>3. pending.st = "none" /\ file["exe"] = committed
    BY <1>9, <2>1, <2>2 DEF GuardInv, BootInv, DiskInv
  <2> QED
    BY <2>1, <2>2, <2>3 DEF GuardInv, DiskInv, BootInv, InstallInv
<1>5. CASE Overdue \/ BootFails \/ UNCHANGED vars
  <2>1. UNCHANGED <<file, pending, committed, proc, image, trial, worker, commit>>
    BY <1>5 DEF Overdue, BootFails, vars, disk, history, thread
  <2> QED
    BY <1>9, <2>1 DEF GuardInv, DiskInv, BootInv, InstallInv, TrialShape
<1>6. CASE HandlerStep
  <2>1. UNCHANGED <<file, pending, committed, proc, image, trial, commit>>
    BY <1>6
    DEF HandlerStep, HandleTakeLock, HandleTurnPage, HandleReject, HandleSpawn, disk, history
  <2>2. \A g \in Gens : \/ worker'[g] = worker[g]
                        \/ worker'[g].pc = "disk" /\ worker[g].pc = "idle"
    <3>1. CASE HandleSpawn
      <4>1. \A g \in Gens : worker[g].pc = "idle"
        BY <3>1 DEF HandleSpawn, ExclInv, Active
      <4> QED
        BY <3>1, <4>1 DEF HandleSpawn, TypeInv, TypeOK
    <3>2. CASE ~ HandleSpawn
      BY <1>6, <3>2 DEF HandlerStep, HandleTakeLock, HandleTurnPage, HandleReject
    <3> QED
      BY <3>1, <3>2
  <2>3. \A g \in Gens : worker[g].pc \in {"chmod", "sweep", "mark", "marking"} => worker'[g] = worker[g]
    BY <2>2
  <2>4. DiskInv'
    BY <1>9, <2>1, <2>3 DEF GuardInv, DiskInv, TrialShape
  <2>5. BootInv'
    BY <1>9, <2>1 DEF GuardInv, BootInv, TrialShape
  <2>6. InstallInv'
    BY <1>9, <2>1, <2>2 DEF GuardInv, InstallInv
  <2> QED
    BY <2>4, <2>5, <2>6 DEF GuardInv
<1>7. ASSUME NEW g \in Gens, WorkerStep(g)
      PROVE  GuardInv'
  BY <1>7, <1>9, WorkerGuard
<1> QED
  BY <1>1, <1>2, <1>3, <1>4, <1>5, <1>6, <1>7 DEF Next

LEMMA GuardInvariant ==
  ASSUME ~ Outlasts, ~ ShortCopy, ~ CommandsDuringTrial
  PROVE  Spec => [](/\ TypeInv /\ ExclInv /\ CarryInv /\ WholeInv /\ ImageInv
                    /\ mishap \/ GuardInv)
BY InitGuardInv, NextGuardInv, InitImageInv, NextImageInv, InitWholeInv, NextWholeInv,
   InitExclInv, NextExclInv, InitCarryInv, NextCarryInv, TypeInvCorrect, PTL DEF Spec

\* Whenever and however often the process is killed and the disk fails: a program
\* that was never confirmed is named by the pending file and has the last
\* confirmed image as its backup, except in the two windows in which the pending
\* file is written and, after a kill or a failed write there, until the next
\* image is confirmed.
THEOREM TrialGuarded ==
  ASSUME ~ Outlasts, ~ ShortCopy, ~ CommandsDuringTrial
  PROVE  Spec => []UnconfirmedGuarded
<1>1. TypeInv /\ (mishap \/ GuardInv) => UnconfirmedGuarded
  <2> SUFFICES ASSUME TypeInv, GuardInv, file["exe"] \in Firmware \ {committed},
                      ~ Installing, ~ Recounting
               PROVE  Guarded
    BY DEF UnconfirmedGuarded
  <2>1. proc # "bumped" /\ \A g \in Gens : worker[g].pc \notin {"chmod", "sweep", "mark", "marking"}
    BY DEF Installing, Recounting
  <2>2. pending.st \in {"none", "torn", "set"}
    BY DEF TypeInv, TypeOK, NoPending, TornPending, Trials
  <2>3. pending.st = "set" /\ file["exe"] # None
    BY <2>1, <2>2, OtaAssumption DEF GuardInv, DiskInv
  <2> QED
    BY <2>3 DEF GuardInv, DiskInv, TrialShape, Guarded
<1> QED
  BY <1>1, GuardInvariant, PTL

\* Under the same conditions the last confirmed image is on the disk at every
\* instant, as the program or as its backup, until an installation that follows
\* a mishap, and again from the next confirmed image on.
THEOREM LastGoodKept ==
  ASSUME ~ Outlasts, ~ ShortCopy, ~ CommandsDuringTrial
  PROVE  Spec => []LastGoodOnDisk
<1>1. TypeInv /\ (mishap \/ GuardInv) => LastGoodOnDisk
  <2> SUFFICES ASSUME TypeInv, GuardInv PROVE committed \in {file["exe"], file["bak"]}
    BY DEF LastGoodOnDisk
  <2>1. CASE pending.st = "none"
    BY <2>1 DEF GuardInv, DiskInv, InstallInv
  <2>2. CASE pending.st = "set"
    BY <2>2 DEF GuardInv, DiskInv, TrialShape
  <2>3. CASE pending.st = "torn"
    BY <2>3 DEF GuardInv, DiskInv, BootInv, InstallInv, TrialShape
  <2>4. pending.st \in {"none", "torn", "set"}
    BY DEF TypeInv, TypeOK, NoPending, TornPending, Trials
  <2> QED
    BY <2>1, <2>2, <2>3, <2>4
<1> QED
  BY <1>1, GuardInvariant, PTL

-----------------------------------------------------------------------------
(* The device can start again *)

\* The program lacks the x bits between a rename and the chmod after it only; a
\* kill in between is a mishap, or one in the middle of a rollback.
ModeInv ==
  /\ ~ executable =>
       proc \in {"down", "chmod"} \/ \E g \in Gens : worker[g].pc = "chmod"
  /\ ~ executable /\ proc = "down" =>
       mishap \/ (pending.st = "set" /\ pending.attempts = MaxBootAttempts)

LEMMA NextModeInv ==
  TypeInv /\ ExclInv /\ WholeInv /\ (mishap \/ GuardInv) /\ ModeInv /\ [Next]_vars => ModeInv'
<1> SUFFICES ASSUME TypeInv, ExclInv, WholeInv, mishap \/ GuardInv, ModeInv, [Next]_vars
             PROVE  ModeInv'
  OBVIOUS
<1> USE DEF disk, history, thread
<1>1. CASE Kill \/ RestartSelf
  <2>1. proc' = "down" /\ UNCHANGED <<executable, pending>>
    BY <1>1 DEF Kill, RestartSelf, Die
  <2>2. mishap' = (mishap \/ Installing \/ Recounting)
    BY <1>1 DEF Kill, RestartSelf, Die
  <2>3. mishap \/ Installing => mishap'
    BY <2>2, Zenon
  <2>4. (\E g \in Gens : worker[g].pc = "chmod") => Installing
    BY DEF Installing
  <2>5. proc # "down"
    BY <1>1 DEF Kill, RestartSelf
  <2>6. proc = "chmod" => mishap \/ (pending.st = "set" /\ pending.attempts = MaxBootAttempts)
    BY DEF GuardInv, BootInv
  <2> QED
    BY <2>1, <2>3, <2>4, <2>5, <2>6 DEF ModeInv
<1>2. CASE Boot
  BY <1>2 DEF Boot, Startable, ModeInv
<1>3. CASE BootStep
  <2>1. /\ proc \notin {"down", "up"} /\ proc' # "down"
        /\ \/ UNCHANGED executable /\ proc # "chmod"
           \/ executable' = TRUE
           \/ executable' = FALSE /\ proc' = "chmod"
    BY <1>3
    DEF BootStep, CheckNothingPending, CheckTorn, CheckPending, BumpOpen,
        BumpWrite, BumpFails, Decide, RollbackRemove, RollbackNoBackup,
        RollbackRestore, RollbackRestoreFails, RollbackChmod, RollbackUnmark
  <2>2. \A g \in Gens : worker[g].pc = "idle"
    BY <2>1 DEF WholeInv, QuietInv, Active
  <2> QED
    BY <2>1, <2>2 DEF ModeInv
<1>4. CASE CommitRemovePending \/ CommitRemoveBackup \/ Overdue
  BY <1>4 DEF CommitRemovePending, CommitRemoveBackup, Overdue, ModeInv
<1>5. CASE HandlerStep
  <2>1. proc = "up" /\ UNCHANGED <<proc, executable>>
    BY <1>5
    DEF HandlerStep, HandleTakeLock, HandleTurnPage, HandleReject, HandleSpawn
  <2>2. CASE UNCHANGED worker
    BY <2>1, <2>2 DEF ModeInv
  <2>3. CASE HandleSpawn
    <3>1. \A g \in Gens : worker[g].pc = "idle"
      BY <2>3 DEF HandleSpawn, ExclInv, Active
    <3> QED
      BY <2>1, <3>1 DEF ModeInv
  <2> QED
    BY <1>5, <2>2, <2>3 DEF HandlerStep, HandleTakeLock, HandleTurnPage, HandleReject
<1>6. ASSUME NEW g \in Gens, WorkerStep(g)
      PROVE  ModeInv'
  <2>1. proc = "up" /\ UNCHANGED proc
    BY <1>6, WorkerFrame
  <2>2. \A h \in Gens \ {g} : worker'[h] = worker[h]
    BY <1>6, WorkerOnlyItself DEF TypeInv
  <2>3. Goto(g, "chmod") => worker'[g].pc = "chmod"
    BY DEF Goto, TypeInv, TypeOK
  <2>4. ~ executable' =>
          \/ UNCHANGED executable /\ worker[g].pc # "chmod"
          \/ worker'[g].pc = "chmod"
    BY <1>6, <2>3, WorkerMode
  <2> QED
    BY <2>1, <2>2, <2>4 DEF ModeInv
<1>7. CASE BootFails \/ UNCHANGED vars
  BY <1>7 DEF BootFails, vars, ModeInv
<1> QED
  BY <1>1, <1>2, <1>3, <1>4, <1>5, <1>6, <1>7 DEF Next

\* Under the conditions of TrialGuarded the file at m_exePath is a program that
\* systemd can execute, at every instant outside an installation's own steps,
\* unless a rollback was killed in its middle or there was a mishap.
THEOREM DeviceStarts ==
  ASSUME ~ Outlasts, ~ ShortCopy, ~ CommandsDuringTrial
  PROVE  Spec => []StaysStartable
<1>1. Init => ModeInv
  BY DEF Init, ModeInv
<1>2. TypeInv /\ (mishap \/ GuardInv) /\ ModeInv => StaysStartable
  <2> SUFFICES ASSUME TypeInv, GuardInv, ModeInv, proc \in {"down", "up"}, ~ Installing,
                      ~ mishap, ~ (pending.st = "set" /\ pending.attempts = MaxBootAttempts)
               PROVE  Startable
    BY DEF StaysStartable
  <2>1. \A g \in Gens : worker[g].pc \notin {"chmod", "sweep", "mark", "marking"}
    BY DEF Installing
  <2>2. executable
    BY <2>1 DEF ModeInv
  <2>3. /\ committed \in Firmware
        /\ pending \in {NoPending, TornPending} \cup Trials
    BY DEF TypeInv, TypeOK
  <2>4. pending.st \in {"none", "set"}
    BY <2>1, <2>3 DEF GuardInv, DiskInv, NoPending, TornPending, Trials
  <2>5. file["exe"] \in {committed, pending.image}
    BY <2>1, <2>4 DEF GuardInv, DiskInv, TrialShape
  <2>6. pending.st = "set" => pending.image \in Firmware
    BY <2>3 DEF NoPending, TornPending, Trials
  <2>7. pending.st = "none" => file["exe"] = committed
    BY <2>1 DEF GuardInv, DiskInv
  <2> QED
    BY <2>2, <2>3, <2>4, <2>5, <2>6, <2>7 DEF Startable
<1> QED
  BY <1>1, <1>2, NextModeInv, GuardInvariant, PTL DEF Spec

-----------------------------------------------------------------------------
(* OtaManager implements UpgradeSlot *)

\* No worker is between the rename of the program and the pending file.
NoInstall == \A g \in Gens : worker[g].pc \notin {"chmod", "sweep", "mark", "marking"}

LEMMA SlotIs ==
  /\ NoInstall /\ file["exe"] # None => slotOfDisk = file["exe"]
  /\ NoInstall /\ file["exe"] = None => slotOfDisk = pending.image
  /\ ~ NoInstall => slotOfDisk = committed
BY DEF slotOfDisk, Installing, NoInstall

LEMMA SlotBecomes ==
  /\ NoInstall' /\ file'["exe"] # None => slotOfDisk' = file'["exe"]
  /\ NoInstall' /\ file'["exe"] = None => slotOfDisk' = pending'.image
  /\ ~ NoInstall' => slotOfDisk' = committed'
BY DEF slotOfDisk, Installing, NoInstall

LEMMA TrialIs ==
  /\ proc # "bumped" =>
       (trialOnDisk <=> pending.st = "set") /\ bootsOnDisk = pending.attempts
  /\ proc = "bumped" => trialOnDisk /\ bootsOnDisk = trial.attempts
BY DEF trialOnDisk, bootsOnDisk

LEMMA TrialBecomes ==
  /\ proc' # "bumped" =>
       (trialOnDisk' <=> pending'.st = "set") /\ bootsOnDisk' = pending'.attempts
  /\ proc' = "bumped" => trialOnDisk' /\ bootsOnDisk' = trial'.attempts
BY DEF trialOnDisk, bootsOnDisk

\* Nothing that the slot is made of changes.
LEMMA SlotStutters ==
  ASSUME slotOfDisk' = slotOfDisk, committed' = committed,
         trialOnDisk' <=> trialOnDisk, bootsOnDisk' = bootsOnDisk
  PROVE  UNCHANGED Slot!slotVars
<1>1. trialOnDisk' = trialOnDisk
  BY DEF trialOnDisk
<1> QED
  BY <1>1 DEF Slot!slotVars

\* A worker installs the image when it writes the pending file, and until then
\* the slot holds the last confirmed image.
LEMMA WorkerSlot ==
  ASSUME ~ ShortCopy, TypeInv, ExclInv, CarryInv, WholeInv, GuardInv, ~ mishap',
         NEW g \in Gens, WorkerStep(g)
  PROVE  [Slot!SlotNext]_(Slot!slotVars)
<1>1. /\ proc = "up" /\ proc' = "up" /\ committed' = committed
  BY WorkerFrame
<1>2. \A h \in Gens \ {g} : worker[h].pc = "idle" /\ worker'[h] = worker[h]
  BY WorkerAlone
<1>3. /\ worker[g].pc \notin {"marking", "restart"} => pending.st = "none"
      /\ worker[g].image \in Firmware
  BY WorkerOnlyItself DEF TypeInv, WholeInv, QuietInv
<1>4. worker[g].pc \notin {"chmod", "sweep", "mark", "marking", "restart"} => file["exe"] = committed
  BY <1>2, <1>3 DEF GuardInv, DiskInv
<1>5. committed # None /\ committed \in Firmware
  BY OtaAssumption DEF TypeInv, TypeOK
<1>6. /\ NoInstall <=> worker[g].pc \notin {"chmod", "sweep", "mark", "marking"}
      /\ NoInstall' <=> worker'[g].pc \notin {"chmod", "sweep", "mark", "marking"}
  BY <1>2 DEF NoInstall
<1>7. pending.st = "none" => pending.attempts = 0
  BY DEF TypeInv, TypeOK, NoPending, TornPending, Trials
<1>8. CASE worker[g].pc = "marking"
  <2>1. /\ worker'[g].pc = "restart" /\ file' = file
        /\ pending' = Pending(worker[g].image, 0) /\ file["exe"] = worker[g].image
    BY <1>8, InstallSteps DEF GuardInv, InstallInv
  <2>2. pending = TornPending
    BY <1>8 DEF GuardInv, InstallInv, TypeInv, TypeOK, NoPending, Trials
  <2>3. slotOfDisk' = worker[g].image
    BY <1>3, <1>6, <2>1, SlotBecomes, OtaAssumption
  <2>4. ~ trialOnDisk /\ trialOnDisk' /\ bootsOnDisk' = bootsOnDisk
    BY <1>1, <2>1, <2>2, TrialIs, TrialBecomes DEF TornPending, Pending
  <2>5. Slot!Install(worker[g].image)
    BY <1>1, <2>3, <2>4 DEF Slot!Install, trialOnDisk
  <2> QED
    BY <1>3, <2>5 DEF Slot!SlotNext
<1>9. CASE worker[g].pc # "marking"
  <2>1. slotOfDisk' = slotOfDisk
    BY <1>1, <1>2, <1>4, <1>5, <1>6, <1>9, InstallSteps, SlotIs, SlotBecomes
    DEF GuardInv, InstallInv
  <2>2. /\ pending'.st = "set" <=> pending.st = "set"
        /\ pending'.attempts = pending.attempts
    BY <1>3, <1>7, <1>9, InstallSteps DEF TornPending
  <2> QED
    BY <1>1, <2>1, <2>2, TrialIs, TrialBecomes, SlotStutters
<1> QED
  BY <1>8, <1>9

\* A boot is counted when the pending file is opened to be rewritten; at the
\* limit the trial is reverted by the rename of the backup and given up with the
\* pending file.
LEMMA BootSlot ==
  ASSUME TypeInv, WholeInv, ImageInv, GuardInv, ~ mishap', BootStep
  PROVE  [Slot!SlotNext]_(Slot!slotVars)
<1>1. /\ proc \in BootPcs /\ proc # "up" /\ UNCHANGED <<worker, committed>>
  BY DEF BootStep, CheckNothingPending, CheckTorn, CheckPending, BumpOpen,
         BumpWrite, BumpFails, Decide, DiskError, RollbackRemove, RollbackNoBackup,
         RollbackRestore, RollbackRestoreFails, RollbackChmod, RollbackUnmark,
         thread, disk, history, BootPcs
<1>2. /\ NoInstall /\ NoInstall'
      /\ \A g \in Gens : worker[g].pc = "idle"
  BY <1>1 DEF WholeInv, QuietInv, Active, NoInstall
<1>3. /\ file \in [Files -> Content] /\ committed \in Firmware /\ image \in Firmware
      /\ pending \in {NoPending, TornPending} \cup Trials
      /\ MaxBootAttempts \in Nat \ {0} /\ None \notin Firmware
  BY <1>1, OtaAssumption DEF TypeInv, TypeOK, BootPcs
<1> USE <1>1, <1>2, <1>3
<1>4. proc \in {"check", "bump", "bumped"} => file["exe"] # None
  BY DEF ImageInv
<1>5. ASSUME UNCHANGED <<file, pending>>, proc # "bumped", proc' # "bumped"
      PROVE  UNCHANGED Slot!slotVars
  BY <1>5, SlotIs, SlotBecomes, TrialIs, TrialBecomes, SlotStutters
<1>6. CASE CheckNothingPending \/ CheckPending \/ RollbackNoBackup
  BY <1>5, <1>6 DEF CheckNothingPending, CheckPending, RollbackNoBackup, disk, history
<1>7. CASE CheckTorn
  BY <1>7 DEF CheckTorn, GuardInv, DiskInv
<1>8. CASE BumpOpen
  <2>1. /\ proc = "bump" /\ proc' = "bumped" /\ UNCHANGED <<file, trial>>
        /\ pending.st = "set" /\ trial = Pending(pending.image, Bump(pending.attempts))
    BY <1>8 DEF BumpOpen, GuardInv, BootInv
  <2>2. slotOfDisk' = slotOfDisk
    BY <1>4, <2>1, SlotIs, SlotBecomes
  <2>3. trialOnDisk /\ trialOnDisk' /\ bootsOnDisk' = Bump(bootsOnDisk)
    BY <2>1, TrialIs, TrialBecomes DEF Pending
  <2>4. CASE bootsOnDisk < MaxBootAttempts
    BY <2>2, <2>3, <2>4 DEF Bump, Slot!CountBoot, Slot!SlotNext, trialOnDisk
  <2>5. CASE ~ (bootsOnDisk < MaxBootAttempts)
    BY <2>2, <2>3, <2>5, SlotStutters DEF Bump
  <2> QED
    BY <2>4, <2>5
<1>9. CASE BumpWrite
  <2>1. /\ proc = "bumped" /\ proc' # "bumped" /\ pending' = trial
        /\ file' = file /\ trial.st = "set"
    BY <1>9 DEF BumpWrite, Decide, GuardInv, BootInv
  <2> QED
    BY <1>4, <2>1, SlotIs, SlotBecomes, TrialIs, TrialBecomes, SlotStutters
<1>10. CASE RollbackRemove
  <2>1. /\ proc = "rollback" /\ proc' = "restore" /\ file["bak"] # None
        /\ file'["exe"] = None /\ pending' = pending
    BY <1>10 DEF RollbackRemove, Files
  <2>2. pending.st = "set" /\ file["exe"] = pending.image /\ file["exe"] # None
    BY <2>1 DEF GuardInv, BootInv, DiskInv, TrialShape, NoPending, TornPending, Trials
  <2> QED
    BY <2>1, <2>2, SlotIs, SlotBecomes, TrialIs, TrialBecomes, SlotStutters
<1>11. CASE RollbackRestore
  <2>1. /\ proc = "restore" /\ proc' = "chmod" /\ pending' = pending
        /\ file'["exe"] = file["bak"]
    BY <1>11 DEF RollbackRestore, Files
  <2>2. /\ pending.st = "set" /\ pending.attempts = MaxBootAttempts
        /\ file["bak"] = committed
    BY <2>1 DEF GuardInv, BootInv
  <2>3. slotOfDisk' = committed
    BY <2>1, <2>2, SlotBecomes
  <2>4. trialOnDisk /\ trialOnDisk' /\ bootsOnDisk = MaxBootAttempts /\ bootsOnDisk' = bootsOnDisk
    BY <2>1, <2>2, TrialIs, TrialBecomes
  <2> QED
    BY <2>3, <2>4 DEF Slot!Revert, Slot!SlotNext, trialOnDisk
<1>12. CASE RollbackUnmark
  <2>1. /\ proc = "unmark" /\ proc' = "restart" /\ pending' = NoPending /\ file' = file
    BY <1>12 DEF RollbackUnmark
  <2>2. /\ pending.st = "set" /\ pending.attempts = MaxBootAttempts
        /\ file["exe"] = committed
    BY <2>1 DEF GuardInv, BootInv
  <2>3. slotOfDisk = committed /\ slotOfDisk' = committed
    BY <2>1, <2>2, SlotIs, SlotBecomes
  <2>4. /\ trialOnDisk /\ bootsOnDisk = MaxBootAttempts
        /\ ~ trialOnDisk' /\ bootsOnDisk' = 0
    BY <2>1, <2>2, TrialIs, TrialBecomes DEF NoPending
  <2> QED
    BY <2>3, <2>4 DEF Slot!GiveUp, Slot!SlotNext, trialOnDisk
<1>13. CASE RollbackChmod
  BY <1>5, <1>13 DEF RollbackChmod
<1>14. CASE BumpFails \/ RollbackRestoreFails
  BY <1>14 DEF BumpFails, RollbackRestoreFails, DiskError
<1> QED
  BY <1>6, <1>7, <1>8, <1>9, <1>10, <1>11, <1>12, <1>13, <1>14 DEF BootStep

LEMMA SlotStep ==
  ASSUME ~ Outlasts, ~ ShortCopy, ~ CommandsDuringTrial
  PROVE  /\ TypeInv /\ ExclInv /\ CarryInv /\ WholeInv /\ ImageInv
         /\ mishap \/ GuardInv
         /\ [Next]_vars
         => [mishap \/ mishap' \/ Slot!SlotNext]_(Slot!slotVars)
<1> SUFFICES ASSUME TypeInv, ExclInv, CarryInv, WholeInv, ImageInv, GuardInv, [Next]_vars,
                    ~ mishap'
             PROVE  [Slot!SlotNext]_(Slot!slotVars)
  OBVIOUS
<1>1. ASSUME UNCHANGED <<file, pending, committed>>, NoInstall, NoInstall',
             proc # "bumped", proc' # "bumped"
      PROVE  UNCHANGED Slot!slotVars
  BY <1>1, SlotIs, SlotBecomes, TrialIs, TrialBecomes, SlotStutters
<1>2. CASE Kill \/ RestartSelf
  <2>1. /\ proc' = "down" /\ NoInstall' /\ UNCHANGED <<file, pending, committed>>
    BY <1>2 DEF Kill, RestartSelf, Die, NoWorker, disk, history, NoInstall
  <2>2. proc # "bumped" /\ NoInstall
    BY <1>2 DEF Kill, RestartSelf, Die, Installing, Recounting, NoInstall
  <2> QED
    BY <1>1, <2>1, <2>2
<1>3. CASE Boot
  <2>1. /\ proc = "down" /\ proc' = "check" /\ worker' = worker
        /\ UNCHANGED <<file, pending, committed>>
    BY <1>3 DEF Boot, disk, history, thread
  <2> QED
    BY <1>1, <2>1 DEF WholeInv, QuietInv, Active, NoInstall
<1>4. CASE BootStep
  BY <1>4, BootSlot
<1>5. CASE CommitRemovePending
  <2>1. /\ proc = "up" /\ proc' = "up" /\ commit = "armed" /\ UNCHANGED <<file, worker>>
        /\ pending' = NoPending /\ committed' = image
    BY <1>5 DEF CommitRemovePending
  <2>2. /\ NoInstall /\ NoInstall'
        /\ image = file["exe"] /\ file["exe"] # None
        /\ pending.st = "set" /\ pending.attempts \in 1 .. (MaxBootAttempts - 1)
    BY <2>1, OtaAssumption
    DEF TypeInv, WholeInv, QuietInv, ImageInv, GuardInv, BootInv, Active, NoInstall
  <2>3. slotOfDisk' = slotOfDisk /\ slotOfDisk = image
    BY <2>1, <2>2, SlotIs, SlotBecomes
  <2>4. /\ trialOnDisk /\ bootsOnDisk \in 1 .. MaxBootAttempts - 1
        /\ ~ trialOnDisk' /\ bootsOnDisk' = 0
    BY <2>1, <2>2, TrialIs, TrialBecomes DEF NoPending
  <2> QED
    BY <2>1, <2>3, <2>4 DEF Slot!Confirm, Slot!SlotNext, trialOnDisk
<1>6. CASE CommitRemoveBackup
  <2>1. /\ proc = "up" /\ proc' = "up" /\ commit = "removed" /\ worker' = worker
        /\ UNCHANGED <<pending, committed>> /\ file'["exe"] = file["exe"]
    BY <1>6 DEF CommitRemoveBackup, history, TypeInv, TypeOK, Files
  <2>2. NoInstall /\ NoInstall'
    BY <2>1 DEF WholeInv, QuietInv, Active, NoInstall
  <2> QED
    BY <2>1, <2>2, SlotIs, SlotBecomes, TrialIs, TrialBecomes, SlotStutters
<1>7. CASE Overdue \/ BootFails \/ UNCHANGED vars
  <2>1. UNCHANGED <<file, pending, committed, proc, trial, worker>>
    BY <1>7 DEF Overdue, BootFails, vars, disk, history, thread
  <2> QED
    BY <2>1, SlotIs, SlotBecomes, TrialIs, TrialBecomes, SlotStutters DEF NoInstall
<1>8. CASE HandlerStep
  <2>1. UNCHANGED <<file, pending, committed, proc>> /\ proc = "up"
    BY <1>8
    DEF HandlerStep, HandleTakeLock, HandleTurnPage, HandleReject, HandleSpawn, disk, history
  <2>2. \A g \in Gens : \/ worker'[g] = worker[g]
                        \/ worker'[g].pc = "disk" /\ worker[g].pc = "idle"
    <3>1. CASE HandleSpawn
      <4>1. \A g \in Gens : worker[g].pc = "idle"
        BY <3>1 DEF HandleSpawn, ExclInv, Active
      <4> QED
        BY <3>1, <4>1 DEF HandleSpawn, TypeInv, TypeOK
    <3>2. CASE ~ HandleSpawn
      BY <1>8, <3>2 DEF HandlerStep, HandleTakeLock, HandleTurnPage, HandleReject
    <3> QED
      BY <3>1, <3>2
  <2>3. NoInstall' <=> NoInstall
    BY <2>2 DEF NoInstall
  <2> QED
    BY <2>1, <2>3, SlotIs, SlotBecomes, TrialIs, TrialBecomes, SlotStutters
<1>9. ASSUME NEW g \in Gens, WorkerStep(g)
      PROVE  [Slot!SlotNext]_(Slot!slotVars)
  BY <1>9, WorkerSlot
<1> QED
  BY <1>2, <1>3, <1>4, <1>5, <1>6, <1>7, <1>8, <1>9 DEF Next

\* Under the conditions of TrialGuarded every step of a worker, of the boot, of
\* the commit timer and of a kill is a step of UpgradeSlot or none: a boot runs
\* the confirmed image or the one on trial, which is counted, confirmed, or
\* reverted at the limit, and nothing else ends a trial; a mishap suspends this
\* until the next image is confirmed.
THEOREM OtaImplementsSlot ==
  ASSUME ~ Outlasts, ~ ShortCopy, ~ CommandsDuringTrial
  PROVE  Spec => ImplementsUpgradeSlot
<1>1. Init => Slot!SlotInit
  <2> SUFFICES ASSUME Init PROVE Slot!SlotInit
    OBVIOUS
  <2>1. NoInstall /\ file["exe"] = Factory /\ Factory # None
    BY OtaAssumption DEF Init, NoInstall, NoWorker, Files
  <2>2. proc # "bumped" /\ pending = NoPending /\ committed = Factory
    BY DEF Init
  <2>3. slotOfDisk = Factory /\ ~ trialOnDisk /\ bootsOnDisk = 0
    BY <2>1, <2>2, SlotIs, TrialIs DEF NoPending
  <2> QED
    BY <2>2, <2>3 DEF Slot!SlotInit, trialOnDisk
<1>2. /\ TypeInv /\ ExclInv /\ CarryInv /\ WholeInv /\ ImageInv
      /\ mishap \/ GuardInv
      /\ [Next]_vars
      => [mishap \/ mishap' \/ Slot!SlotNext]_(Slot!slotVars)
  BY SlotStep
<1> QED
  BY <1>1, <1>2, GuardInvariant, PTL DEF Spec, ImplementsUpgradeSlot

=============================================================================
