-------------------------- MODULE CollectionCycle --------------------------
(***************************************************************************)
(* The collection cycle of ProbeManager (vwiseProbeTaskHandle), run by the *)
(* threads of the collection timer (src/common/timer.hpp), with the states *)
(* it derives (src/src/cellular_diagnosis.cpp) from what the modem driver  *)
(* answers (drivers/quectel_5g), and collection_config, which restarts the *)
(* timer.  A cycle that is running when the timer is restarted goes on     *)
(* beside those of the new thread; all share the statics of the function.  *)
(*                                                                         *)
(* Overlapping cycles interleave between the steps below; two threads in   *)
(* one step's accesses to a static at once are a data race (undefined) and *)
(* left out.                                                               *)
(*                                                                         *)
(* Of a message only what goes into error_code and the versions that are   *)
(* sent once is modelled.  A cycle that reads no CPU load returns at once  *)
(* and changes nothing.  Measured power is always negative, so a threshold *)
(* makes every signal weak when it is positive and none when it is not.    *)
(***************************************************************************)
EXTENDS Naturals

CONSTANTS
  Threads,      \* names for the threads of the timer
  NoThread,     \* m_timerZD is stopped
  Regs,         \* the registrations the module may report
  Sims,         \* the SIM states it may report
  WeakRats,     \* technologies with a positive threshold (m_noNetLTEThr, m_noNet5GThr)
  NetRats,      \* the technologies the device moves between, at any time
  Overlaps,     \* may a cycle still be running when another thread's is due?
  LogCap,       \* kUrcLogCap, 100 in the code
  MaxBoots,     \* bound: restarts of the module
  MaxCommands   \* bound: collection_config commands

Stats == {"unknown", "none", "home", "roaming", "denied"}
Causes == {"none", "congestion"}
Rats == {"LTE", "NR5G"}

ASSUME CollectionAssumption ==
  /\ NoThread \notin Threads
  /\ Regs \subseteq [ps : Stats, cs : Stats, nr : Stats, cause : Causes, nrCause : Causes,
                     pdp : BOOLEAN]
  /\ Sims \subseteq {"READY", "LOCKED", "ABSENT"}
  /\ WeakRats \subseteq Rats
  /\ NetRats \subseteq Rats
  /\ Overlaps \in BOOLEAN
  /\ LogCap \in Nat \ {0}
  /\ MaxBoots \in Nat
  /\ MaxCommands \in Nat

VARIABLES
  module,     \* RPIModuleInterface: not initialised, connecting, connected; then
              \* probeMgrStart has come to its end
  timer,      \* the thread of m_timerZD's generation
  expired,    \* m_timerZD's _expired
  calls,      \* where main and the command's thread are in its stop and start
  stranded,   \* history: has a stop ended a start that came after its first half?
  cycle,      \* where each thread is, and its message
  category,   \* m_collectCategory
  swSent,     \* s_swVersionSent
  boot,       \* s_bootPending
  log,        \* the place of the latest "PB DONE" in urc_log_, from the newest; 0: none
  dropped,    \* history: has it dropped out of the full log?
  due,        \* is the slow refresh due?
  snapValid,  \* s_snapValid
  sim,        \* s_simInfo.status
  snap,       \* s_snap
  filter,     \* s_errorCodeEdge
  lastRat,    \* s_ratSwitch
  fed,     \* history: the last state the filter was given
  told,       \* history: the last state in a message
  unreported, \* history: has the module restarted since the last REBOOT?
  boots,      \* restarts of the module so far
  reboots,    \* history: messages with REBOOT so far
  commands    \* commands so far

statics == <<swSent, boot, due, snapValid, sim, snap, filter, lastRat>>
timers == <<timer, expired, calls, stranded>>
outside == <<module, timers, category, commands>>
history == <<fed, told, reboots>>
modem == <<log, dropped, unreported, boots>>
vars == <<outside, cycle, statics, modem, history>>

None == "-"
States ==
  {"NONE", "SIM_FAULT", "REGISTER_FAIL", "NET_RESOURCE_SHORT", "NOT_REGISTERED",
   "NO_CELL", "WEAK_SIGNAL"}

\* A registration the module did not answer for, and the empty DiagSnapshot.
NoReg == [ps |-> "unknown", cs |-> "unknown", nr |-> "unknown", cause |-> "none",
          nrCause |-> "none", pdp |-> FALSE]
NoSnap == [reg |-> NoReg, cell |-> FALSE, rat |-> None]

NoFilter == [last |-> None, candidate |-> None]
Resting == [sw |-> FALSE, reboot |-> FALSE, code |-> None]
NoCycle == [pc |-> "none", msg |-> Resting]

Pcs == {"none", "sleep", "slow", "fill", "drain", "fast", "judge", "publish"}
Working == Pcs \ {"none", "sleep"}

\* m_timerZD's callers: the end of probeMgrStart and collection_config.
Callers == {"main", "command"}

TypeOK ==
  /\ module \in {"off", "connecting", "connected", "started"}
  /\ timer \in Threads \cup {NoThread}
  /\ expired \in BOOLEAN /\ stranded \in BOOLEAN
  /\ calls \in [Callers -> {"idle", "stop", "start", "claim", "launch"}]
  /\ cycle \in [Threads -> [pc : Pcs,
                            msg : [sw : BOOLEAN, reboot : BOOLEAN,
                                   code : States \cup {None, "REBOOT", "G4G5_SWITCH"}]]]
  /\ category \in {"full", "core"}
  /\ swSent \in BOOLEAN /\ boot \in BOOLEAN /\ due \in BOOLEAN
  /\ snapValid \in BOOLEAN
  /\ sim \in {"READY", "LOCKED", "ABSENT", "UNKNOWN"}
  /\ snap \in [reg : Regs \cup {NoReg}, cell : BOOLEAN, rat : Rats \cup {None}]
  /\ filter \in [last : States \cup {None}, candidate : States \cup {None}]
  /\ lastRat \in Rats \cup {None}
  /\ fed \in States \cup {None} /\ told \in States \cup {None}
  /\ log \in 0..LogCap /\ dropped \in BOOLEAN /\ unreported \in BOOLEAN
  /\ boots \in 0..MaxBoots /\ reboots \in Nat /\ commands \in 0..MaxCommands

Init ==
  /\ module = "off"
  /\ timer = NoThread /\ expired = TRUE /\ stranded = FALSE
  /\ calls = [c \in Callers |-> "idle"]
  /\ cycle = [t \in Threads |-> NoCycle]
  /\ category = "full"
  /\ swSent = FALSE /\ boot = FALSE /\ due = TRUE
  /\ snapValid = FALSE
  /\ sim = "UNKNOWN"
  /\ snap = NoSnap
  /\ filter = NoFilter
  /\ lastRat = None
  /\ fed = None /\ told = None
  /\ log = 0 /\ dropped = FALSE /\ unreported = FALSE
  /\ boots = 0 /\ reboots = 0 /\ commands = 0

-----------------------------------------------------------------------------
(* cellular_diagnosis.cpp *)

SimFault == sim \in {"ABSENT", "LOCKED"}

Denied(reg) == "denied" \in {reg.ps, reg.cs, reg.nr}

Congested(reg) ==
  \/ reg.ps = "denied" /\ reg.cause = "congestion"
  \/ reg.nr = "denied" /\ reg.nrCause = "congestion"

\* effective_registered: a data context with an address counts.
Registered(reg) == {reg.ps, reg.nr} \cap {"home", "roaming"} # {} \/ reg.pdp

\* deriveWirelessErrorCode
Derive ==
  IF SimFault THEN "SIM_FAULT"
  ELSE IF Denied(snap.reg) /\ Congested(snap.reg) THEN "NET_RESOURCE_SHORT"
  ELSE IF Denied(snap.reg) \/ ~ Registered(snap.reg) THEN "REGISTER_FAIL"
  ELSE IF ~ snap.cell THEN "NO_CELL"
  ELSE IF snap.rat \in WeakRats THEN "WEAK_SIGNAL"
  ELSE "NONE"

\* deriveWirelessErrorCodeFallback: a cell counts as registration, and a signal
\* that was not read as an LTE signal of power 0.
DeriveFallback(s) ==
  IF SimFault THEN "SIM_FAULT"
  ELSE IF ~ s.cell THEN "NOT_REGISTERED"
  ELSE IF (IF s.rat = "NR5G" THEN "NR5G" ELSE "LTE") \in WeakRats THEN "WEAK_SIGNAL"
  ELSE "NONE"

\* Mutant: the candidate is kept when the state that was held comes back.
BugFiltered(c) ==
  IF c = filter.last THEN filter
  ELSE IF filter.last = None \/ c = "NONE" \/ c = filter.candidate
         THEN [last |-> c, candidate |-> None]
  ELSE [filter EXCEPT !.candidate = c]

\* ErrorCodeEdgeFilter::changed, with kStableCycles = 2: the candidate has
\* been found once, and the second time in a row it is taken.
Filtered(c) ==
  IF c = filter.last THEN [filter EXCEPT !.candidate = None]
  ELSE IF filter.last = None \/ c = "NONE" \/ c = filter.candidate
         THEN [last |-> c, candidate |-> None]
  ELSE [filter EXCEPT !.candidate = c]

\* RatSwitchDetector::switched
Switched(rat) == None \notin {rat, lastRat} /\ rat # lastRat

-----------------------------------------------------------------------------
(* The module, as the driver's queries see it *)

Connected == module \in {"connected", "started"}

\* QENG's cell with its technology, or with no usable power; without a cell
\* (or an answer) CESQ may still have a power, which counts as LTE.
Servings ==
  IF Connected
  THEN [cell : {TRUE}, rat : NetRats \cup {None}] \cup [cell : {FALSE}, rat : {"LTE", None}]
  ELSE {[cell |-> FALSE, rat |-> None]}

\* getNetworkWirelessInfo asks CESQ also when the cell has no usable power.
ServingsFallback ==
  Servings \cup {[cell |-> TRUE, rat |-> r] : r \in IF Connected THEN {"LTE"} ELSE {}}

Answers(values, none) == IF Connected THEN values ELSE {none}

-----------------------------------------------------------------------------
(* One cycle *)

At(t, p) == cycle[t].pc = p

Goto(t, p) == cycle' = [cycle EXCEPT ![t].pc = p]

\* Into p, with the message m.
Carry(t, p, m) == cycle' = [cycle EXCEPT ![t] = [pc |-> p, msg |-> m]]

\* The timer's thread wakes up.  sw_version goes into the first full message
\* and stands for a start of the process.
Begin(t) ==
  /\ At(t, "sleep")
  /\ timer = t
  /\ Overlaps \/ \A u \in Threads : cycle[u].pc \notin Working
  /\ LET sw == category = "full" /\ ~ swSent
     IN  /\ Carry(t, IF due THEN "slow" ELSE "drain", [Resting EXCEPT !.sw = sw])
         /\ swSent' = (swSent \/ sw)
         /\ boot' = (boot \/ sw)
  /\ UNCHANGED <<outside, due, snapValid, sim, snap, filter, lastRat, modem, fed, told, reboots>>

\* Mutant: the log is emptied when the slow refresh starts.
BugSlowStart(t) ==
  /\ At(t, "slow")
  /\ sim' \in Answers(Sims, "ABSENT")
  /\ log' = 0
  /\ \/ module = "off" /\ Goto(t, "drain") /\ due' = FALSE /\ UNCHANGED snap
     \/ module # "off" /\ Goto(t, "fill") /\ snap' = NoSnap /\ UNCHANGED due
  /\ UNCHANGED <<outside, swSent, boot, snapValid, filter, lastRat, dropped, unreported, boots, history>>

\* getSimInfo, then getDiagSnapshot empties the snapshot, if the driver can be
\* initialised (it then never fails); if not, the next try is 30 s away.
SlowStart(t) ==
  /\ At(t, "slow")
  /\ sim' \in Answers(Sims, "ABSENT")
  /\ \/ module = "off" /\ Goto(t, "drain") /\ due' = FALSE /\ UNCHANGED snap
     \/ module # "off" /\ Goto(t, "fill") /\ snap' = NoSnap /\ UNCHANGED due
  /\ UNCHANGED <<outside, swSent, boot, snapValid, filter, lastRat, modem, history>>

\* ... and has filled it.
SlowDone(t) ==
  /\ At(t, "fill")
  /\ \E reg \in Answers(Regs, NoReg), s \in Servings :
       snap' = [reg |-> reg, cell |-> s.cell, rat |-> s.rat]
  /\ snapValid' = TRUE
  /\ due' = FALSE
  /\ Goto(t, "drain")
  /\ UNCHANGED <<outside, swSent, boot, sim, filter, lastRat, modem, history>>

\* Mutant: the pending restart is kept until the message is sent.
BugDrain(t) ==
  /\ At(t, "drain")
  /\ log' = 0
  /\ Carry(t, IF snapValid THEN "fast" ELSE "judge", [cycle[t].msg EXCEPT !.reboot = boot \/ log > 0])
  /\ boot' = (boot \/ log > 0)
  /\ UNCHANGED <<outside, swSent, due, snapValid, sim, snap, filter, lastRat, dropped, unreported, boots,
                 history>>

\* The log of unsolicited lines is taken, the pending restart with it.
Drain(t) ==
  /\ At(t, "drain")
  /\ log' = 0
  /\ Carry(t, IF snapValid THEN "fast" ELSE "judge", [cycle[t].msg EXCEPT !.reboot = boot \/ log > 0])
  /\ boot' = FALSE
  /\ UNCHANGED <<outside, swSent, due, snapValid, sim, snap, filter, lastRat, dropped, unreported, boots,
                 history>>

\* getServingSignal
Fast(t) ==
  /\ At(t, "fast")
  /\ \E s \in Servings : snap' = [snap EXCEPT !.cell = s.cell, !.rat = s.rat]
  /\ Goto(t, "judge")
  /\ UNCHANGED <<outside, swSent, boot, due, snapValid, sim, filter, lastRat, modem, history>>

\* Mutant: a change of technology takes the place of a change of state.
BugCompose(t, rat, c) ==
  LET m == cycle[t].msg
      changed == Filtered(c).last # filter.last
  IN  /\ lastRat' = IF rat = None THEN lastRat ELSE rat
      /\ filter' = IF m.reboot THEN filter ELSE Filtered(c)
      /\ Carry(t, "publish", [m EXCEPT !.code =
           IF m.reboot THEN "REBOOT"
           ELSE IF Switched(rat) THEN "G4G5_SWITCH"
           ELSE IF changed THEN c ELSE None])
      /\ fed' = IF m.reboot THEN fed ELSE c

\* Mutant: the filter is fed the state that a REBOOT hides.
BugHidden(t, rat, c) ==
  LET m == cycle[t].msg
      changed == Filtered(c).last # filter.last
  IN  /\ lastRat' = IF rat = None THEN lastRat ELSE rat
      /\ filter' = Filtered(c)
      /\ Carry(t, "publish", [m EXCEPT !.code =
           IF m.reboot THEN "REBOOT"
           ELSE IF changed THEN c
           ELSE IF Switched(rat) THEN "G4G5_SWITCH" ELSE None])
      /\ fed' = c

\* A REBOOT is not fed to the filter; a change of state comes before a change
\* of technology.
Compose(t, rat, c) ==
  LET m == cycle[t].msg
      changed == Filtered(c).last # filter.last
  IN  /\ lastRat' = IF rat = None THEN lastRat ELSE rat
      /\ filter' = IF m.reboot THEN filter ELSE Filtered(c)
      /\ Carry(t, "publish", [m EXCEPT !.code =
           IF m.reboot THEN "REBOOT"
           ELSE IF changed THEN c
           ELSE IF Switched(rat) THEN "G4G5_SWITCH" ELSE None])
      /\ fed' = IF m.reboot THEN fed ELSE c

\* Without a snapshot the fallback queries the board itself.
Judge(t) ==
  /\ At(t, "judge")
  /\ \/ snapValid /\ Compose(t, snap.rat, Derive)
     \/ ~ snapValid /\ \E s \in ServingsFallback : Compose(t, s.rat, DeriveFallback(s))
  /\ UNCHANGED <<outside, swSent, boot, due, snapValid, sim, snap, modem, told, reboots>>

\* publishData, which sends or caches the message.
Publish(t) ==
  /\ At(t, "publish")
  /\ LET c == cycle[t].msg.code
     IN  /\ told' = IF c \in States THEN c ELSE told
         /\ reboots' = reboots + (IF c = "REBOOT" THEN 1 ELSE 0)
         /\ unreported' = (unreported /\ (c # "REBOOT" \/ log > 0 \/ dropped))
  /\ Carry(t, "sleep", Resting)
  /\ UNCHANGED <<outside, statics, log, dropped, boots, fed>>

\* A thread of an older generation ends when it gets back to its loop.
Exit(t) ==
  /\ At(t, "sleep")
  /\ timer # t
  /\ cycle' = [cycle EXCEPT ![t] = NoCycle]
  /\ UNCHANGED <<outside, statics, modem, history>>

-----------------------------------------------------------------------------
(* The other threads *)

elsewhere == <<statics, modem, history>>

Call(c, p) == calls' = [calls EXCEPT ![c] = p]

\* RPIModuleInterface::init on the main thread: initialised before connected.
InitModule ==
  /\ module = "off"
  /\ module' = "connecting"
  /\ UNCHANGED <<timers, category, commands, cycle, elsewhere>>

Connect ==
  /\ module = "connecting"
  /\ module' = "connected"
  /\ UNCHANGED <<timers, category, commands, cycle, elsewhere>>

\* The end of probeMgrStart, where main starts the timer.
Start ==
  /\ module = "connected"
  /\ module' = "started"
  /\ Call("main", "start")
  /\ UNCHANGED <<timer, expired, stranded, category, commands, cycle, elsewhere>>

\* collection_config on the MQTT callback thread, from before InitModule on:
\* another category, ...
SetCategory ==
  /\ calls["command"] = "idle"
  /\ commands < MaxCommands
  /\ commands' = commands + 1
  /\ category' \in {"full", "core"} \ {category}
  /\ UNCHANGED <<module, timers, cycle, elsewhere>>

\* ... or another interval: the timer is stopped and started.  stop says so in
\* _expired first, ...
RestartTimer ==
  /\ calls["command"] = "idle"
  /\ commands < MaxCommands
  /\ commands' = commands + 1
  /\ expired' = TRUE
  /\ Call("command", "stop")
  /\ UNCHANGED <<module, timer, stranded, category, cycle, elsewhere>>

\* Mutant: the timer is started, which does nothing, and then stopped.
BugEndGeneration ==
  /\ calls["command"] = "stop"
  /\ timer' = NoThread
  /\ stranded' = (~ expired /\ calls["main"] # "launch")
  /\ Call("command", "idle")
  /\ UNCHANGED <<module, expired, category, commands, cycle, elsewhere>>

\* ... and ends the generation then, that of a start in between as well: the
\* start that follows finds the timer running and does nothing.
EndGeneration ==
  /\ calls["command"] = "stop"
  /\ timer' = NoThread
  /\ stranded' = (~ expired /\ calls["main"] # "launch")
  /\ Call("command", "start")
  /\ UNCHANGED <<module, expired, category, commands, cycle, elsewhere>>

\* start returns when the timer has been started, ...
CheckExpired(c) ==
  /\ calls[c] = "start"
  /\ Call(c, IF expired THEN "claim" ELSE "idle")
  /\ UNCHANGED <<module, timer, expired, stranded, category, commands, cycle, elsewhere>>

ClearExpired(c) ==
  /\ calls[c] = "claim"
  /\ expired' = FALSE
  /\ Call(c, "launch")
  /\ UNCHANGED <<module, timer, stranded, category, commands, cycle, elsewhere>>

\* ... or goes on with a new generation and its thread.
StartTimer(c) ==
  /\ calls[c] = "launch"
  /\ \E t \in Threads :
       /\ At(t, "none")
       /\ timer' = t
       /\ Goto(t, "sleep")
  /\ stranded' = FALSE
  /\ Call(c, "idle")
  /\ UNCHANGED <<module, expired, category, commands, elsewhere>>

\* 30 s have passed since the last refresh.
TimePasses ==
  /\ ~ due
  /\ due' = TRUE
  /\ UNCHANGED <<outside, cycle, swSent, boot, snapValid, sim, snap, filter, lastRat, modem, history>>

\* The module has restarted: +QIND: "PB DONE".
ModuleBoots ==
  /\ Connected
  /\ boots < MaxBoots
  /\ boots' = boots + 1
  /\ log' = 1
  /\ dropped' = FALSE
  /\ unreported' = TRUE
  /\ UNCHANGED <<outside, cycle, statics, history>>

\* Another unsolicited line comes after it; a full log drops its oldest.
OtherUrc ==
  /\ Connected
  /\ log > 0
  /\ log' = IF log = LogCap THEN 0 ELSE log + 1
  /\ dropped' = (log = LogCap)
  /\ UNCHANGED <<outside, cycle, statics, unreported, boots, history>>

CallStep(c) == CheckExpired(c) \/ ClearExpired(c) \/ StartTimer(c)

CycleStep(t) ==
  \/ Begin(t) \/ SlowStart(t) \/ SlowDone(t) \/ Drain(t) \/ Fast(t) \/ Judge(t)
  \/ Publish(t) \/ Exit(t)

Next ==
  \/ \E t \in Threads : CycleStep(t)
  \/ InitModule \/ Connect \/ Start
  \/ \E c \in Callers : CallStep(c)
  \/ SetCategory \/ RestartTimer \/ EndGeneration
  \/ TimePasses \/ ModuleBoots \/ OtherUrc

Spec == Init /\ [][Next]_vars

-----------------------------------------------------------------------------
(* Properties *)

\* While no two cycles run at once: the platform knows the state that the
\* filter takes for reported.  None is lost to a REBOOT or to a change of
\* technology, and none is reported that the filter does not know of.
PlatformInSync ==
  told = filter.last \/ \E t \in Threads : At(t, "publish")

\* ... sw_version comes with REBOOT in the same message ("随本条消息的
\* error_code 携带 REBOOT").
SwVersionWithReboot ==
  \A t \in Threads :
    At(t, "publish") /\ cycle[t].msg.sw => cycle[t].msg.code = "REBOOT"

\* ... and there is at most one REBOOT for each restart of the module and for
\* the start of the process.
RebootsHaveCause == reboots <= boots + (IF swSent THEN 1 ELSE 0)

\* A device that never changes its technology reports no change ("QENG 瞬时失败
\* 保留旧值，不会假触发").
NoFalseSwitch ==
  \A rat : NetRats = {rat} => \A t \in Threads : cycle[t].msg.code # "G4G5_SWITCH"

-----------------------------------------------------------------------------
(* Liveness *)

\* Threads go on: those of the timer, main through its start, and the one that
\* runs a command.
CollectionFairness ==
  /\ \A t \in Threads : WF_vars(CycleStep(t))
  /\ WF_vars(InitModule \/ Connect \/ Start \/ CallStep("main"))
  /\ WF_vars(EndGeneration \/ CallStep("command"))

FairSpec == Spec /\ CollectionFairness

\* Whatever commands arrive, even before the start is complete, messages are
\* published again and again; only a command that stops the timer around the
\* start at the end of probeMgrStart leaves it stopped, until the next one.
CollectionGoesOn == []<>(stranded \/ \E t \in Threads : At(t, "publish"))

\* Every restart of the module is reported, while no two cycles run at once,
\* unless kUrcLogCap lines come after it before a cycle takes the log.
RebootTold == unreported ~> ~ unreported \/ dropped \/ stranded

\* The state that the filter is given changes for ever, or becomes the one the
\* platform was told last (again with one cycle at a time).
StateTold ==
  []<><<fed' # fed>>_fed \/ <>[](told = fed \/ stranded)

=============================================================================
