------------------------- MODULE AgentOnlineProofs -------------------------
(***************************************************************************)
(* Theorems about AgentOnline, for any number of timer threads, tasks,     *)
(* executions, topics, outages and refused calls.                          *)
(***************************************************************************)
EXTENDS AgentOnline, FiniteSetTheorems, TLAPS

(***************************************************************************)
(* The strengthenings                                                      *)
(***************************************************************************)
\* In the middle of a command or of a tick.
Busy(a) == pc[a] \notin {"idle", "sleep"}
Stopping(a) == pc[a] \in {"flags", "flag", "time", "loss"}

\* The handler is never in a tick, and a timer never in PING::start.
Roles ==
  /\ pc[Handler] \notin {"sleep", "report", "last"}
  /\ \A t \in Timers : pc[t] \notin {"started", "threads", "arm"}

\* PING keeps a handle for every thread that was not joined ...
Held ==
  \A l \in Loops, k \in Threads : loop[l][k] # "none" => handle[l] = k

\* ... and the one that joins a thread is alone in it.
Joiner ==
  \A l \in Loops, a \in Actors :
    pc[a] = l => handle[l] # None /\ \A b \in Actors \ {a} : pc[b] # l

\* A thread that will report has executions left, and is not the current one any
\* more when it is in PING::stop.
Counts ==
  \A t \in Timers :
    /\ pc[t] \in {"sleep", "report"} => execNum[t] # 0
    /\ Stopping(t) => current # t

\* While the task was stopped or not started, no timer thread is current.
OneAtATime ==
  /\ \A a, b \in Actors : Busy(a) /\ Busy(b) => a = b
  /\ \A t \in Timers : pc[t] \in {"report", "last"} => current = t
  /\ \A a \in Actors : Stopping(a) => current = None
  /\ pc[Handler] # "idle" => current = None
  /\ pc[Handler] \in {"started", "threads", "arm"} => running # {}
  /\ running = {} => current = None

\* A stop that is complete leaves no thread, so that the next task's threads
\* are new ones.
StopIsComplete ==
  /\ running = {} /\ (\A a \in Actors : ~ Busy(a)) => \A l \in Loops : handle[l] = None
  /\ \A a \in Actors :
       /\ pc[a] = "flag" => running \subseteq {"time"}
       /\ pc[a] \in {"time", "loss"} => running = {}
       /\ pc[a] = "loss" => handle["time"] = None

\* What is measured, and was, is of the address of the task.
OwnAddress ==
  /\ \A l \in Loops, k \in Threads : loop[l][k] = "ping" => target[l][k]
  /\ \A l \in fresh : value[l]

CalmInv == calm => OneAtATime /\ StopIsComplete /\ OwnAddress

\* What may be due in which state of the connection.
LineInv ==
  /\ conn \in {"none", "null", "connecting"} => events = <<>>
  /\ conn = "off" => events \in {<<>>, <<"failure">>, <<"lost">>, <<"success", "lost">>}
  /\ conn = "on" => events \in {<<>>, <<"success">>}
  /\ conn # "on" \/ events # <<>> => refused = {} /\ asked = {} /\ subs = {}
  /\ asked \cap refused = {}
  /\ HearsTopics

PingInv == Roles /\ Counts /\ Held /\ Joiner /\ CalmInv

-----------------------------------------------------------------------------
(***************************************************************************)
(* Steps                                                                   *)
(***************************************************************************)
LEMMA PingSteps ==
  ASSUME [Next]_vars
  PROVE  \/ UNCHANGED pingVars
         \/ StartTask
         \/ StopTask
         \/ StartTime
         \/ StartThreads
         \/ StartTimer
         \/ \E a \in Actors : StopLoss(a)
         \/ \E a \in Actors : StopFlags(a)
         \/ \E a \in Actors, l \in Loops : Joined(a, l)
         \/ \E t \in Timers : Wake(t)
         \/ \E t \in Timers : Report(t)
         \/ \E t \in Timers : LastReport(t)
         \/ \E l \in Loops, k \in Threads : LoopTop(l, k)
         \/ \E l \in Loops, k \in Threads : LoopMeasured(l, k)
         \/ /\ PingRestart
            /\ \/ commands' = commands
               \/ commands < MaxCommands /\ commands' = commands + 1
<1>1. CASE UNCHANGED vars \/ Start \/ ConnectionCallback \/ Environment
  BY <1>1 DEF vars, Start, ConnectionCallback, Environment
<1>2. CASE Deliver
  BY <1>2 DEF Deliver, Receive, IgnoreCommand
<1>3. CASE Ping
  <2>1. CASE HandlerStep
    BY <2>1 DEF HandlerStep, Actors
  <2>2. ASSUME NEW t \in Timers, TimerStep(t)
        PROVE  \/ \E a \in Actors : StopLoss(a)
               \/ \E a \in Actors : StopFlags(a)
               \/ \E a \in Actors, l \in Loops : Joined(a, l)
               \/ \E u \in Timers : Wake(u)
               \/ \E u \in Timers : Report(u)
               \/ \E u \in Timers : LastReport(u)
    BY <2>2 DEF TimerStep, Actors
  <2>3. CASE \E l \in Loops, k \in Threads : LoopStep(l, k)
    BY <2>3 DEF LoopStep
  <2> QED
    BY <1>3, <2>1, <2>2, <2>3 DEF Ping, PingStep
<1>4. CASE Abort \/ Die \/ Crash
  BY <1>4 DEF Abort, Die, Crash
<1> QED
  BY <1>1, <1>2, <1>3, <1>4 DEF Next

LEMMA LineSteps ==
  ASSUME [Next]_vars
  PROVE  \/ UNCHANGED mqttVars
         \/ StartClient
         \/ Callback
         \/ Network
         \/ MqttRestart
BY DEF Next, vars, Start, Deliver, Abort, ConnectionCallback, Environment, Ping, Die, Crash

\* Where a stop goes on after the flags: to the first thread that there is.
LEMMA AfterFlagsIs ==
  ASSUME NEW a
  PROVE  /\ handle["time"] # None => AfterFlags(a, handle) = "time"
         /\ handle["time"] = None /\ handle["loss"] # None => AfterFlags(a, handle) = "loss"
         /\ handle["time"] = None /\ handle["loss"] = None =>
              AfterFlags(a, handle) = AfterStop(a)
BY DEF AfterFlags

LEMMA AfterStopIs ==
  ASSUME NEW a
  PROVE  AfterStop(a) \in {"idle", "sleep"} /\ (a = Handler => AfterStop(a) = "idle")
BY DEF AfterStop, AfterTick

\* A join takes the thread's handle; only that of "time" is followed by one.
LEMMA JoinedIs ==
  ASSUME PingTypeOK, NEW a \in Actors, NEW l \in Loops, Joined(a, l)
  PROVE  /\ pc[a] = l
         /\ handle' = [handle EXCEPT ![l] = None]
         /\ loop' = [loop EXCEPT ![l][handle[l]] = "none"]
         /\ \E p : /\ pc' = [pc EXCEPT ![a] = p]
                   /\ ~ JoinClash(a, p)
                   /\ \/ p = "loss" /\ l = "time" /\ handle["loss"] # None
                      \/ /\ p = AfterStop(a)
                         /\ l = "time" => handle["loss"] = None
         /\ UNCHANGED <<running, target, value, armed, current, execNum, fresh, calm,
                        commands>>
<1> DEFINE h == [handle EXCEPT ![l] = None]
           p == AfterJoin(a, l, h)
<1>1. /\ pc[a] = l
      /\ handle' = h
      /\ loop' = [loop EXCEPT ![l][handle[l]] = "none"]
      /\ pc' = [pc EXCEPT ![a] = p]
      /\ ~ JoinClash(a, p)
      /\ UNCHANGED <<running, target, value, armed, current, execNum, fresh, calm,
                     commands>>
  BY DEF Joined
<1>2. l = "time" => h["loss"] = handle["loss"]
  BY DEF PingTypeOK, Loops
<1>3. \/ p = "loss" /\ l = "time" /\ handle["loss"] # None
      \/ p = AfterStop(a) /\ (l = "time" => handle["loss"] = None)
  BY <1>2 DEF AfterJoin
<1> QED
  BY <1>1, <1>3

\* The threads that PING::start makes.
LEMMA ThreadsStarted ==
  ASSUME PingTypeOK, StartThreads
  PROVE  /\ pc[Handler] = "threads"
         /\ pc' = [pc EXCEPT ![Handler] = "arm"]
         /\ \E f : /\ \A l \in Loops :
                        handle[l] = None => f[l] \in Threads /\ loop[l][f[l]] = "none"
                   /\ handle' = [l \in Loops |-> IF handle[l] = None THEN f[l] ELSE handle[l]]
                   /\ loop' = [l \in Loops |-> [k \in Threads |->
                                 IF handle[l] = None /\ k = f[l]
                                 THEN "top" ELSE loop[l][k]]]
         /\ UNCHANGED <<running, target, value, armed, current, execNum, fresh, calm,
                        commands>>
<1> DEFINE f == [l \in Loops |-> CHOOSE k \in Threads : loop[l][k] = "none"]
           new == {l \in Loops : handle[l] = None}
           free(l) == CHOOSE k \in Threads : loop[l][k] = "none"
<1>1. \A l \in Loops : f[l] = free(l)
  OBVIOUS
<1>2. ASSUME NEW l \in Loops, handle[l] = None
      PROVE  f[l] \in Threads /\ loop[l][f[l]] = "none"
  <2>1. \E k \in Threads : loop[l][k] = "none"
    BY <1>2 DEF StartThreads
  <2> QED
    BY <1>1, <2>1
<1>3. handle' = [l \in Loops |-> IF l \in new THEN free(l) ELSE handle[l]]
  BY DEF StartThreads
<1>4. loop' = [l \in Loops |-> [k \in Threads |->
                 IF l \in new /\ k = free(l) THEN "top" ELSE loop[l][k]]]
  BY DEF StartThreads
<1> HIDE DEF f
<1>5. handle' = [l \in Loops |-> IF handle[l] = None THEN f[l] ELSE handle[l]]
  BY <1>1, <1>3, Zenon
<1>6. loop' = [l \in Loops |-> [k \in Threads |->
                 IF handle[l] = None /\ k = f[l] THEN "top" ELSE loop[l][k]]]
  BY <1>1, <1>4, Zenon
<1> QED
  BY <1>2, <1>5, <1>6 DEF StartThreads

-----------------------------------------------------------------------------
(***************************************************************************)
(* Types                                                                   *)
(***************************************************************************)
Pcs == {"idle", "started", "threads", "arm", "sleep", "report", "last", "flags", "flag", "time",
        "loss"}
Places == {"none", "top", "ping", "ended"}

LEMMA PingParts ==
  /\ PingTypeOK <=>
       /\ running \subseteq Loops /\ armed \in BOOLEAN /\ calm \in BOOLEAN
       /\ handle \in [Loops -> Threads \cup {None}]
       /\ loop \in [Loops -> [Threads -> Places]]
       /\ target \in [Loops -> [Threads -> BOOLEAN]]
       /\ value \in [Loops -> BOOLEAN]
       /\ current \in Timers \cup {None}
       /\ execNum \in [Timers -> 0..MaxExec]
       /\ pc \in [Actors -> Pcs]
       /\ fresh \subseteq Loops
       /\ commands \in 0..MaxCommands
  /\ PingTypeOK' <=>
       /\ running' \subseteq Loops /\ armed' \in BOOLEAN /\ calm' \in BOOLEAN
       /\ handle' \in [Loops -> Threads \cup {None}]
       /\ loop' \in [Loops -> [Threads -> Places]]
       /\ target' \in [Loops -> [Threads -> BOOLEAN]]
       /\ value' \in [Loops -> BOOLEAN]
       /\ current' \in Timers \cup {None}
       /\ execNum' \in [Timers -> 0..MaxExec]
       /\ pc' \in [Actors -> Pcs]
       /\ fresh' \subseteq Loops
       /\ commands' \in 0..MaxCommands
BY DEF PingTypeOK, Pcs, Places

\* What a step of one actor leaves of the others.
LEMMA PcStep ==
  ASSUME PingTypeOK, NEW a \in Actors, NEW p \in Pcs, pc' = [pc EXCEPT ![a] = p]
  PROVE  /\ pc' \in [Actors -> Pcs]
         /\ pc'[a] = p
         /\ \A b \in Actors : b # a => pc'[b] = pc[b]
BY PingParts

LEMMA PcValues ==
  /\ "started" \in Pcs /\ "flag" \in Pcs
  /\ "idle" \in Pcs /\ "threads" \in Pcs /\ "arm" \in Pcs /\ "sleep" \in Pcs
  /\ "report" \in Pcs /\ "last" \in Pcs /\ "flags" \in Pcs /\ "time" \in Pcs /\ "loss" \in Pcs
  /\ Handler \in Actors /\ \A t \in Timers : t \in Actors /\ t # Handler
BY PingAssumption DEF PingAssumption, Pcs, Actors

\* A flag that two threads share is set to what the step makes of it.
LEMMA CalmIsFlag ==
  ASSUME calm \in BOOLEAN, NEW P, calm' = (calm /\ P)
  PROVE  calm' \in BOOLEAN
BY Zenon

\* The same for a function of two arguments.
LEMMA PairStep ==
  ASSUME NEW S, NEW T, NEW B, NEW f \in [S -> [T -> B]], NEW s \in S, NEW t \in T, NEW b \in B
  PROVE  /\ [f EXCEPT ![s][t] = b] \in [S -> [T -> B]]
         /\ \A x \in S, y \in T :
              [f EXCEPT ![s][t] = b][x][y] = IF x = s /\ y = t THEN b ELSE f[x][y]
OBVIOUS

LEMMA PlaceStep ==
  ASSUME NEW S, NEW B, NEW f \in [S -> B], NEW s \in S, NEW b \in B
  PROVE  [f EXCEPT ![s] = b] \in [S -> B] /\ [f EXCEPT ![s] = b][s] = b
OBVIOUS

LEMMA PingTypeStep ==
  ASSUME PingTypeOK, Counts, [Next]_vars
  PROVE  PingTypeOK'
<1>1. /\ running \subseteq Loops /\ armed \in BOOLEAN /\ calm \in BOOLEAN
      /\ handle \in [Loops -> Threads \cup {None}]
      /\ loop \in [Loops -> [Threads -> Places]]
      /\ target \in [Loops -> [Threads -> BOOLEAN]]
      /\ value \in [Loops -> BOOLEAN]
      /\ current \in Timers \cup {None}
      /\ execNum \in [Timers -> 0..MaxExec]
      /\ pc \in [Actors -> Pcs]
      /\ fresh \subseteq Loops
      /\ commands \in 0..MaxCommands
  BY PingParts
<1>2. MaxExec \in Nat \ {0} /\ MaxCommands \in Nat
  BY PingAssumption DEF PingAssumption
<1>3. CASE UNCHANGED pingVars
  BY <1>1, <1>3, PingParts DEF pingVars
<1>4. ASSUME Command PROVE calm' \in BOOLEAN /\ commands' \in 0..MaxCommands
  <2>1. calm' \in BOOLEAN
    BY <1>1, <1>4, CalmIsFlag DEF Command
  <2>2. commands' \in 0..MaxCommands
    BY <1>1, <1>2, <1>4 DEF Command
  <2> QED
    BY <2>1, <2>2
<1>5. CASE StartTask
  <2>1. calm' \in BOOLEAN /\ commands' \in 0..MaxCommands
    BY <1>4, <1>5 DEF StartTask
  <2>2. /\ running' = {"loss"} /\ target' = [l \in Loops |-> [k \in Threads |-> FALSE]]
        /\ value' = [l \in Loops |-> FALSE] /\ fresh' = {}
        /\ pc' = [pc EXCEPT ![Handler] = "started"]
        /\ UNCHANGED <<handle, loop, armed, current, execNum>>
    BY <1>5 DEF StartTask
  <2>3. pc' \in [Actors -> Pcs]
    BY <2>2, PcStep, PcValues
  <2>4. running' \subseteq Loops
    BY <2>2 DEF Loops
  <2> QED
    BY <1>1, <2>1, <2>2, <2>3, <2>4, PingParts
<1>6. CASE StopTask
  <2>1. calm' \in BOOLEAN /\ commands' \in 0..MaxCommands
    BY <1>4, <1>6 DEF StopTask
  <2>2. pc' \in [Actors -> Pcs]
    BY <1>6, PcStep, PcValues DEF StopTask
  <2> QED
    BY <1>1, <1>6, <2>1, <2>2, PingParts DEF StopTask
<1>17. CASE StartTime
  <2>1. running' \subseteq Loops
    BY <1>1, <1>17 DEF StartTime, Loops
  <2>2. pc' \in [Actors -> Pcs]
    BY <1>17, PcStep, PcValues DEF StartTime
  <2> QED
    BY <1>1, <1>17, <2>1, <2>2, PingParts DEF StartTime
<1>18. ASSUME NEW a \in Actors, StopLoss(a) PROVE PingTypeOK'
  <2>1. pc' \in [Actors -> Pcs]
    BY <1>18, PcStep, PcValues DEF StopLoss
  <2> QED
    BY <1>1, <1>18, <2>1, PingParts DEF StopLoss
<1>7. CASE StartThreads
  <2>1. PICK f : /\ \A l \in Loops : handle[l] = None => f[l] \in Threads
                 /\ handle' = [l \in Loops |-> IF handle[l] = None THEN f[l] ELSE handle[l]]
                 /\ loop' = [l \in Loops |-> [k \in Threads |->
                               IF handle[l] = None /\ k = f[l] THEN "top" ELSE loop[l][k]]]
    BY <1>7, ThreadsStarted
  <2>2. handle' \in [Loops -> Threads \cup {None}]
    BY <1>1, <2>1
  <2>3. loop' \in [Loops -> [Threads -> Places]]
    BY <1>1, <2>1 DEF Places
  <2>4. pc' \in [Actors -> Pcs]
    BY <1>7, ThreadsStarted, PcStep, PcValues
  <2>5. UNCHANGED <<running, target, value, armed, current, execNum, fresh, calm, commands>>
    BY <1>7, ThreadsStarted
  <2> QED
    BY <1>1, <2>2, <2>3, <2>4, <2>5, PingParts
<1>8. CASE StartTimer
  <2>1. UNCHANGED <<running, handle, loop, target, value, fresh, calm, commands>>
    BY <1>8 DEF StartTimer
  <2>2. CASE armed /\ pc' = [pc EXCEPT ![Handler] = "idle"]
             /\ UNCHANGED <<armed, current, execNum>>
    <3>1. pc' \in [Actors -> Pcs]
      BY <2>2, PcStep, PcValues
    <3> QED
      BY <1>1, <2>1, <2>2, <3>1, PingParts
  <2>3. ASSUME NEW t \in Timers, NEW n \in 1..MaxExec,
               armed' = TRUE, current' = t, execNum' = [execNum EXCEPT ![t] = n],
               pc' = [pc EXCEPT ![t] = "sleep", ![Handler] = "idle"]
        PROVE  PingTypeOK'
    <3>1. pc' \in [Actors -> Pcs]
      BY <1>1, <2>3 DEF Pcs
    <3>2. execNum' \in [Timers -> 0..MaxExec]
      BY <1>1, <1>2, <2>3
    <3>3. armed' \in BOOLEAN /\ current' \in Timers \cup {None}
      BY <2>3
    <3> QED
      BY <1>1, <2>1, <3>1, <3>2, <3>3, PingParts
  <2> QED
    BY <1>8, <2>2, <2>3 DEF StartTimer
<1>9. ASSUME NEW a \in Actors, StopFlags(a) PROVE PingTypeOK'
  <2>1. AfterFlags(a, handle) \in Pcs
    BY AfterFlagsIs, AfterStopIs, PcValues
  <2>2. pc' \in [Actors -> Pcs]
    BY <1>9, <2>1, PcStep DEF StopFlags
  <2>3. running' \subseteq Loops
    BY <1>1, <1>9 DEF StopFlags
  <2> QED
    BY <1>1, <1>9, <2>2, <2>3, PingParts DEF StopFlags
<1>10. ASSUME NEW a \in Actors, NEW l \in Loops, Joined(a, l) PROVE PingTypeOK'
  <2>1. PICK p : pc' = [pc EXCEPT ![a] = p] /\ (p = "loss" \/ p = AfterStop(a))
    BY <1>10, JoinedIs
  <2>2. pc' \in [Actors -> Pcs]
    BY <2>1, AfterStopIs, PcValues, PcStep
  <2>3. /\ handle' = [handle EXCEPT ![l] = None]
        /\ loop' = [loop EXCEPT ![l][handle[l]] = "none"]
        /\ UNCHANGED <<running, target, value, armed, current, execNum, fresh, calm, commands>>
    BY <1>10, JoinedIs
  <2>4. loop' \in [Loops -> [Threads -> Places]]
    BY <1>1, <2>3 DEF Places
  <2>5. handle' \in [Loops -> Threads \cup {None}]
    BY <1>1, <2>3
  <2> QED
    BY <1>1, <2>2, <2>3, <2>4, <2>5, PingParts
<1>11. ASSUME NEW t \in Timers, Wake(t) PROVE PingTypeOK'
  <2>1. pc' \in [Actors -> Pcs]
    BY <1>11, PcStep, PcValues DEF Wake
  <2>2. execNum' \in [Timers -> 0..MaxExec]
    BY <1>1, <1>2, <1>11 DEF Wake
  <2> QED
    BY <1>1, <1>11, <2>1, <2>2, PingParts DEF Wake
<1>12. ASSUME NEW t \in Timers, Report(t) PROVE PingTypeOK'
  <2>1. calm' \in BOOLEAN
    BY <1>1, <1>12 DEF Report
  <2>2. pc' \in [Actors -> Pcs]
    BY <1>12, PcStep, PcValues DEF Report, AfterTick
  <2>3. PICK n \in {execNum[t] - 1, 0} : execNum' = [execNum EXCEPT ![t] = n]
    BY <1>12 DEF Report
  <2>5. execNum[t] # 0
    BY <1>12 DEF Report, Counts
  <2>4. execNum' \in [Timers -> 0..MaxExec]
    <3>1. execNum[t] \in 0..MaxExec
      BY <1>1
    <3>2. n \in 0..MaxExec
      BY <1>2, <2>5, <3>1
    <3> QED
      BY <1>1, <2>3, <3>2
  <2> QED
    BY <1>1, <1>12, <2>1, <2>2, <2>4, PingParts DEF Report
<1>13. ASSUME NEW t \in Timers, LastReport(t) PROVE PingTypeOK'
  <2>1. pc' \in [Actors -> Pcs]
    BY <1>13, PcStep, PcValues DEF LastReport
  <2> QED
    BY <1>1, <1>13, <2>1, PingParts DEF LastReport
<1>14. ASSUME NEW l \in Loops, NEW k \in Threads, LoopTop(l, k) PROVE PingTypeOK'
  <2>1. loop' \in [Loops -> [Threads -> Places]]
    BY <1>1, <1>14 DEF LoopTop, Places
  <2>2. target' \in [Loops -> [Threads -> BOOLEAN]]
    <3>1. target' = [target EXCEPT ![l][k] = (l \in running)]
      BY <1>14 DEF LoopTop
    <3>2. (l \in running) \in BOOLEAN
      OBVIOUS
    <3> QED
      BY <1>1, <3>1, <3>2, PairStep, Zenon
  <2> QED
    BY <1>1, <1>14, <2>1, <2>2, PingParts DEF LoopTop
<1>15. ASSUME NEW l \in Loops, NEW k \in Threads, LoopMeasured(l, k) PROVE PingTypeOK'
  <2>1. loop' \in [Loops -> [Threads -> Places]]
    <3>1. PICK p \in {"top", "ended"} : loop' = [loop EXCEPT ![l][k] = p]
      BY <1>15 DEF LoopMeasured
    <3>2. p \in Places
      BY DEF Places
    <3> QED
      BY <1>1, <3>1, <3>2, PairStep
  <2>2. target' \in [Loops -> [Threads -> BOOLEAN]]
    BY <1>1, <1>15, PairStep DEF LoopMeasured
  <2>3. value' \in [Loops -> BOOLEAN]
    <3>1. target[l][k] \in BOOLEAN
      BY <1>1
    <3>2. value' = value \/ value' = [value EXCEPT ![l] = target[l][k]]
      BY <1>15 DEF LoopMeasured
    <3>3. value \in [Loops -> BOOLEAN]
      BY <1>1
    <3>4. [value EXCEPT ![l] = target[l][k]] \in [Loops -> BOOLEAN]
      BY <3>1, <3>3, PlaceStep, Zenon
    <3> QED
      BY <3>2, <3>3, <3>4, Zenon
  <2>4. fresh' \subseteq Loops
    BY <1>1, <1>15 DEF LoopMeasured
  <2> QED
    BY <1>1, <1>15, <2>1, <2>2, <2>3, <2>4, PingParts DEF LoopMeasured
<1>16. ASSUME PingRestart,
              commands' = commands \/ (commands < MaxCommands /\ commands' = commands + 1)
       PROVE  PingTypeOK'
  <2>1. /\ running' \subseteq Loops /\ armed' \in BOOLEAN /\ calm' \in BOOLEAN
        /\ current' \in Timers \cup {None} /\ commands' \in 0..MaxCommands
        /\ fresh' \subseteq Loops
    BY <1>1, <1>2, <1>16 DEF PingRestart, Fresh
  <2>2. /\ handle' \in [Loops -> Threads \cup {None}]
        /\ loop' \in [Loops -> [Threads -> Places]]
        /\ target' \in [Loops -> [Threads -> BOOLEAN]]
        /\ value' \in [Loops -> BOOLEAN]
        /\ pc' \in [Actors -> Pcs]
    BY <1>16 DEF PingRestart, Fresh, Places, Pcs
  <2>3. execNum' \in [Timers -> 0..MaxExec]
    BY <1>2, <1>16 DEF PingRestart, Fresh
  <2> QED
    BY <2>1, <2>2, <2>3, PingParts
<1> QED
  BY <1>3, <1>5, <1>6, <1>7, <1>8, <1>9, <1>10, <1>11, <1>12, <1>13, <1>14, <1>15, <1>16,
     <1>17, <1>18, PingSteps

(***************************************************************************)
(* The events of the connection                                            *)
(***************************************************************************)
Queues == {<<>>, <<"success">>, <<"failure">>, <<"lost">>, <<"success", "lost">>}

LEMMA AppendToOne ==
  ASSUME NEW x, NEW y
  PROVE  Append(<<x>>, y) = <<x, y>>
<1> DEFINE q == Append(<<x>>, y)
<1>1. q \in Seq({x, y}) /\ Len(q) = 2 /\ q[1] = x /\ q[2] = y
  OBVIOUS
<1> HIDE DEF q
<1>2. q = <<x, y>>
  BY <1>1
<1> QED
  BY <1>2 DEF q

LEMMA ListFacts ==
  ASSUME NEW x, NEW y
  PROVE  /\ <<x>> # <<>> /\ <<x, y>> # <<>>
         /\ Append(<<>>, x) = <<x>> /\ Append(<<x>>, y) = <<x, y>>
         /\ Head(<<x>>) = x /\ Head(<<x, y>>) = x
         /\ Tail(<<x>>) = <<>> /\ Tail(<<x, y>>) = <<y>>
<1>1. <<x>> # <<>> /\ <<x, y>> # <<>>
  OBVIOUS
<1>2. Append(<<>>, x) = <<x>>
  OBVIOUS
<1>3. Head(<<x>>) = x /\ Head(<<x, y>>) = x
  OBVIOUS
<1>4. Tail(<<x>>) = <<>>
  OBVIOUS
<1>5. Tail(<<x, y>>) = <<y>>
  OBVIOUS
<1> QED
  BY <1>1, <1>2, <1>3, <1>4, <1>5, AppendToOne

\* The queues that there are, and what the callbacks and the library make of them.
LEMMA QueueFacts ==
  /\ \A q \in Queues : q \in Seq({"success", "failure", "lost"}) /\ Len(q) <= 2
  /\ \A e \in {"success", "failure", "lost"} :
       Append(<<>>, e) = <<e>> /\ <<e>> # <<>> /\ Head(<<e>>) = e /\ Tail(<<e>>) = <<>>
  /\ Append(<<"success">>, "lost") = <<"success", "lost">>
  /\ Head(<<"success", "lost">>) = "success" /\ Tail(<<"success", "lost">>) = <<"lost">>
<1>1. /\ <<>> \in Seq({"success", "failure", "lost"}) /\ Len(<<>>) <= 2
      /\ <<"success">> \in Seq({"success", "failure", "lost"}) /\ Len(<<"success">>) <= 2
  OBVIOUS
<1>2. /\ <<"failure">> \in Seq({"success", "failure", "lost"}) /\ Len(<<"failure">>) <= 2
      /\ <<"lost">> \in Seq({"success", "failure", "lost"}) /\ Len(<<"lost">>) <= 2
  OBVIOUS
<1>3. <<"success", "lost">> \in Seq({"success", "failure", "lost"})
      /\ Len(<<"success", "lost">>) <= 2
  OBVIOUS
<1>4. \A q \in Queues : q \in Seq({"success", "failure", "lost"}) /\ Len(q) <= 2
  BY <1>1, <1>2, <1>3, Zenon DEF Queues
<1> QED
  BY <1>4, ListFacts, Zenon

LEMMA LineStep ==
  ASSUME MqttTypeOK, LineInv, [Next]_vars
  PROVE  MqttTypeOK' /\ LineInv'
<1> DEFINE Typed == /\ net' \in BOOLEAN /\ gaveUp' \in BOOLEAN
                    /\ conn' \in {"none", "null", "off", "connecting", "on"}
                    /\ scheme' \in BOOLEAN /\ asked' \subseteq Topics
                    /\ subs' \subseteq Topics /\ refused' \subseteq Topics
                    /\ outages' \in 0..MaxOutages /\ refusals' \in 0..MaxRefusals
<1>1. /\ net \in BOOLEAN /\ gaveUp \in BOOLEAN
      /\ conn \in {"none", "null", "off", "connecting", "on"}
      /\ scheme \in BOOLEAN /\ asked \subseteq Topics
      /\ subs \subseteq Topics /\ refused \subseteq Topics
      /\ outages \in 0..MaxOutages /\ refusals \in 0..MaxRefusals
      /\ MaxOutages \in Nat /\ MaxRefusals \in Nat
  BY MqttAssumption DEF MqttTypeOK, MqttAssumption
<1>2. /\ conn \in {"none", "null", "connecting"} => events = <<>>
      /\ conn = "off" => events \in {<<>>, <<"failure">>, <<"lost">>, <<"success", "lost">>}
      /\ conn = "on" => events \in {<<>>, <<"success">>}
      /\ conn # "on" \/ events # <<>> => refused = {} /\ asked = {} /\ subs = {}
      /\ asked \cap refused = {}
      /\ conn = "on" /\ events = <<>> => subs = (Topics \ refused) \ asked
  BY DEF LineInv, HearsTopics
<1>3. events \in Queues
  BY <1>1, <1>2, Zenon DEF Queues
<1>4. ASSUME Typed, events' \in Queues,
             conn' \in {"none", "null", "connecting"} => events' = <<>>,
             conn' = "off" => events' \in {<<>>, <<"failure">>, <<"lost">>, <<"success", "lost">>},
             conn' = "on" => events' \in {<<>>, <<"success">>},
             conn' # "on" \/ events' # <<>> => refused' = {} /\ asked' = {} /\ subs' = {},
             asked' \cap refused' = {},
             conn' = "on" /\ events' = <<>> => subs' = (Topics \ refused') \ asked'
      PROVE  MqttTypeOK' /\ LineInv'
  <2>1. events' \in Seq({"success", "failure", "lost"}) /\ Len(events') <= 2
    BY <1>4, QueueFacts, Zenon
  <2> QED
    BY <1>4, <2>1 DEF MqttTypeOK, LineInv, HearsTopics
<1>5. ASSUME Connect PROVE conn' \in {"off", "connecting"} /\ gaveUp' \in BOOLEAN
                           /\ refusals' \in 0..MaxRefusals
  <2>1. gaveUp' = gaveUp \/ gaveUp' = TRUE
    BY <1>5 DEF Connect
  <2>2. refusals' \in 0..MaxRefusals
    BY <1>1, <1>5 DEF Connect
  <2> QED
    BY <1>1, <1>5, <2>1, <2>2 DEF Connect
<1>6. CASE UNCHANGED mqttVars
  BY <1>1, <1>2, <1>3, <1>4, <1>6, Zenon DEF mqttVars
<1>7. CASE StartClient
  <2>1. /\ conn = "none" /\ UNCHANGED <<scheme, net, events, asked, subs, refused, outages>>
        /\ Connect \/ (conn' = "null" /\ UNCHANGED <<gaveUp, refusals>>)
    BY <1>7 DEF StartClient
  <2>2. /\ events' = <<>> /\ refused' = {} /\ asked' = {} /\ subs' = {}
        /\ conn' \in {"null", "off", "connecting"}
        /\ gaveUp' \in BOOLEAN /\ refusals' \in 0..MaxRefusals
    BY <1>1, <1>2, <1>5, <2>1
  <2> QED
    BY <1>1, <1>3, <1>4, <2>1, <2>2, Zenon
<1>8. ASSUME events # <<>>, events' = Tail(events), Head(events) \in {"failure", "lost"}, Connect,
             UNCHANGED <<scheme, net, asked, subs, refused, outages>>
      PROVE  MqttTypeOK' /\ LineInv'
  <2>1. events \in {<<"failure">>, <<"lost">>}
    BY <1>3, <1>8, QueueFacts DEF Queues
  <2>2. events' = <<>>
    BY <1>8, <2>1, QueueFacts
  <2>3. refused' = {} /\ asked' = {} /\ subs' = {} /\ conn' \in {"off", "connecting"}
    BY <1>2, <1>5, <1>8
  <2>4. events' \in Queues
    BY <2>2 DEF Queues
  <2> QED
    BY <1>1, <1>4, <1>5, <1>8, <2>2, <2>3, <2>4, Zenon
<1>9. CASE OnConnectFailure \/ ConnLost
  BY <1>8, <1>9 DEF OnConnectFailure, ConnLost
<1>10. CASE OnConnectSuccess
  <2>1. /\ events # <<>> /\ Head(events) = "success" /\ events' = Tail(events)
        /\ UNCHANGED <<scheme, net, conn, subs, gaveUp, outages>>
    BY <1>10 DEF OnConnectSuccess
  <2>2. events \in {<<"success">>, <<"success", "lost">>}
    BY <1>3, <2>1, QueueFacts DEF Queues
  <2>3. refused = {} /\ asked = {} /\ subs = {} /\ conn \in {"on", "off"}
    BY <1>1, <1>2, <2>1
  <2>4. CASE conn = "on"
    <3>1. events' = <<>>
      BY <1>2, <2>1, <2>4, QueueFacts
    <3>2. /\ asked' = Topics \ refused' /\ refused' \subseteq Topics
          /\ refusals' \in 0..MaxRefusals
      BY <1>1, <1>10, <2>3, <2>4 DEF OnConnectSuccess
    <3>3. events' \in Queues
      BY <3>1 DEF Queues
    <3>4. subs' = (Topics \ refused') \ asked' /\ asked' \cap refused' = {}
      BY <2>1, <2>3, <3>2
    <3> QED
      BY <1>1, <1>4, <2>1, <2>4, <3>1, <3>2, <3>3, <3>4
  <2>5. CASE conn = "off"
    <3>1. events = <<"success", "lost">>
      <4>1. <<"success">> \notin {<<>>, <<"failure">>, <<"lost">>, <<"success", "lost">>}
        OBVIOUS
      <4> QED
        BY <1>2, <2>2, <2>5, <4>1
    <3>2. events' = <<"lost">>
      BY <2>1, <3>1, QueueFacts
    <3>3. UNCHANGED <<asked, refused, refusals>>
      BY <1>10, <2>5 DEF OnConnectSuccess
    <3>4. events' \in Queues
      BY <3>2 DEF Queues
    <3> QED
      BY <1>1, <1>4, <2>1, <2>3, <2>5, <3>2, <3>3, <3>4
  <2> QED
    BY <2>3, <2>4, <2>5
<1>11. CASE Accepted \/ Refused
  <2>1. /\ conn = "connecting" /\ events = <<>> /\ refused = {} /\ asked = {} /\ subs = {}
        /\ UNCHANGED <<scheme, net, asked, subs, refused, gaveUp, outages, refusals>>
    BY <1>2, <1>11 DEF Accepted, Refused
  <2>2. \/ conn' = "on" /\ events' = <<"success">>
        \/ conn' = "off" /\ events' = <<"failure">>
    BY <1>11, <2>1, QueueFacts DEF Accepted, Refused
  <2>3. events' \in Queues /\ events' # <<>>
    BY <2>2, QueueFacts DEF Queues
  <2> QED
    BY <1>1, <1>4, <2>1, <2>2, <2>3
<1>12. CASE Outage \/ BackUp
  <2>1. /\ UNCHANGED <<scheme, conn, events, asked, subs, refused, gaveUp, refusals>>
        /\ net' \in BOOLEAN
    BY <1>12 DEF Outage, BackUp
  <2>2. outages' \in 0..MaxOutages
    BY <1>1, <1>12 DEF Outage, BackUp
  <2> QED
    BY <1>1, <1>2, <1>3, <1>4, <2>1, <2>2, Zenon
<1>13. CASE Lose
  <2>1. /\ conn = "on" /\ conn' = "off" /\ events' = Append(events, "lost")
        /\ asked' = {} /\ subs' = {} /\ refused' = {}
        /\ UNCHANGED <<scheme, net, gaveUp, outages, refusals>>
    BY <1>13 DEF Lose
  <2>2. events' \in {<<"lost">>, <<"success", "lost">>}
    BY <1>2, <2>1, QueueFacts
  <2>3. events' \in Queues
    BY <2>2 DEF Queues
  <2> QED
    BY <1>1, <1>4, <2>1, <2>2, <2>3
<1>14. CASE MqttRestart
  <2>1. /\ conn' = "none" /\ events' = <<>> /\ asked' = {} /\ subs' = {} /\ refused' = {}
        /\ gaveUp' = FALSE /\ UNCHANGED <<scheme, net, outages, refusals>>
    BY <1>14 DEF MqttRestart
  <2>2. events' \in Queues
    BY <2>1 DEF Queues
  <2> QED
    BY <1>1, <1>4, <2>1, <2>2
<1>15. ASSUME NEW t \in Topics, Suback(t) PROVE MqttTypeOK' /\ LineInv'
  <2>1. /\ conn = "on" /\ t \in asked /\ asked' = asked \ {t}
        /\ UNCHANGED <<scheme, net, conn, events, gaveUp, outages>>
    BY <1>15 DEF Suback
  <2>2. events = <<>> /\ subs = (Topics \ refused) \ asked
    BY <1>2, <2>1
  <2>3. CASE subs' = subs \cup {t} /\ UNCHANGED <<refused, refusals>>
    <3>1. subs' = (Topics \ refused') \ asked' /\ asked' \cap refused' = {}
      <4>1. t \notin refused
        BY <1>2, <2>1
      <4> QED
        BY <1>2, <2>1, <2>2, <2>3, <4>1
    <3> QED
      BY <1>1, <1>3, <1>4, <2>1, <2>2, <2>3, <3>1
  <2>4. CASE refusals < MaxRefusals /\ refusals' = refusals + 1 /\ refused' = refused \cup {t}
             /\ subs' = subs
    <3>1. subs' = (Topics \ refused') \ asked' /\ asked' \cap refused' = {}
      BY <1>2, <2>1, <2>2, <2>4
    <3> QED
      BY <1>1, <1>3, <1>4, <2>1, <2>2, <2>4, <3>1
  <2> QED
    BY <1>15, <2>3, <2>4 DEF Suback
<1> QED
  BY <1>6, <1>7, <1>9, <1>10, <1>11, <1>12, <1>13, <1>14, <1>15, LineSteps DEF Callback, Network

-----------------------------------------------------------------------------
(***************************************************************************)
(* The actors of the ping task                                             *)
(***************************************************************************)
LEMMA CountsStep ==
  ASSUME PingTypeOK, Roles, Counts, [Next]_vars
  PROVE  Roles' /\ Counts'
<1>1. /\ pc \in [Actors -> Pcs] /\ execNum \in [Timers -> 0..MaxExec]
      /\ MaxExec \in Nat \ {0} /\ None \notin Timers /\ Handler \notin Timers
      /\ current \in Timers \cup {None}
  BY PingParts, PingAssumption DEF PingAssumption
<1>2. ASSUME pc' = pc, current' = current, execNum' = execNum PROVE Roles' /\ Counts'
  BY <1>2 DEF Roles, Counts, Stopping
<1>3. ASSUME NEW p \in Pcs, pc' = [pc EXCEPT ![Handler] = p], p \notin {"sleep", "report", "last"},
             execNum' = execNum, current' \in {current, None}
      PROVE  Roles' /\ Counts'
  <2>1. pc'[Handler] = p /\ \A t \in Timers : pc'[t] = pc[t]
    BY <1>3, PcStep, PcValues
  <2> QED
    BY <1>1, <1>3, <2>1 DEF Roles, Counts, Stopping
<1>4. ASSUME NEW t \in Timers, NEW p \in Pcs, pc' = [pc EXCEPT ![t] = p],
             p \notin {"started", "threads", "arm"}, current' \in {current, None},
             \A u \in Timers : u # t => execNum'[u] = execNum[u],
             p \in {"sleep", "report"} => execNum'[t] # 0,
             p \in {"flags", "flag", "time", "loss"} => current' # t
      PROVE  Roles' /\ Counts'
  <2>1. pc'[Handler] = pc[Handler] /\ pc'[t] = p /\ \A u \in Timers : u # t => pc'[u] = pc[u]
    BY <1>4, PcStep, PcValues
  <2> QED
    BY <1>1, <1>4, <2>1 DEF Roles, Counts, Stopping
<1>5. CASE UNCHANGED pingVars
  BY <1>2, <1>5 DEF pingVars
<1>6. CASE StartTask
  BY <1>3, <1>6, PcValues DEF StartTask
<1>7. CASE StopTask
  BY <1>3, <1>7, PcValues DEF StopTask
<1>18. CASE StartTime
  BY <1>3, <1>18, PcValues DEF StartTime
<1>8. CASE StartThreads
  BY <1>3, <1>8, ThreadsStarted, PcValues
<1>9. CASE StartTimer
  <2>1. CASE armed /\ pc' = [pc EXCEPT ![Handler] = "idle"]
             /\ UNCHANGED <<armed, current, execNum>>
    BY <1>3, <2>1, PcValues
  <2>2. ASSUME NEW t \in Timers, NEW n \in 1..MaxExec, pc[t] = "idle",
               current' = t, execNum' = [execNum EXCEPT ![t] = n],
               pc' = [pc EXCEPT ![t] = "sleep", ![Handler] = "idle"]
        PROVE  Roles' /\ Counts'
    <3>1. /\ pc'[Handler] = "idle" /\ pc'[t] = "sleep"
          /\ \A u \in Timers : u # t => pc'[u] = pc[u]
      BY <1>1, <2>2, PcValues DEF Actors
    <3>2. execNum'[t] # 0 /\ \A u \in Timers : u # t => execNum'[u] = execNum[u]
      BY <1>1, <2>2
    <3> QED
      BY <1>1, <2>2, <3>1, <3>2 DEF Roles, Counts, Stopping
  <2> QED
    BY <1>9, <2>1, <2>2 DEF StartTimer
<1>10. ASSUME NEW a \in Actors, NEW p \in Pcs, Stopping(a), pc' = [pc EXCEPT ![a] = p],
              p \in {"flag", "time", "loss"} \/ p = AfterStop(a), UNCHANGED <<current, execNum>>
       PROVE  Roles' /\ Counts'
  <2>1. CASE a = Handler
    BY <1>3, <1>10, <2>1, AfterStopIs
  <2>2. CASE a \in Timers
    <3>1. current # a
      BY <1>10, <2>2 DEF Counts
    <3>2. AfterStop(a) = "idle"
      BY <3>1 DEF AfterStop, AfterTick
    <3> QED
      BY <1>4, <1>10, <2>2, <3>1, <3>2
  <2> QED
    BY <2>1, <2>2 DEF Actors
<1>11. ASSUME NEW a \in Actors, StopFlags(a) PROVE Roles' /\ Counts'
  <2>1. AfterFlags(a, handle) \in {"time", "loss"} \/ AfterFlags(a, handle) = AfterStop(a)
    BY AfterFlagsIs
  <2>2. AfterFlags(a, handle) \in Pcs
    BY <2>1, AfterStopIs, PcValues
  <2>3. Stopping(a) /\ pc' = [pc EXCEPT ![a] = AfterFlags(a, handle)]
        /\ UNCHANGED <<current, execNum>>
    BY <1>11 DEF StopFlags, Stopping
  <2> QED
    BY <1>10, <2>1, <2>2, <2>3
<1>19. ASSUME NEW a \in Actors, StopLoss(a) PROVE Roles' /\ Counts'
  <2>1. Stopping(a) /\ pc' = [pc EXCEPT ![a] = "flag"] /\ UNCHANGED <<current, execNum>>
    BY <1>19 DEF StopLoss, Stopping
  <2> QED
    BY <1>10, <2>1, PcValues
<1>12. ASSUME NEW a \in Actors, NEW l \in Loops, Joined(a, l) PROVE Roles' /\ Counts'
  <2>1. PICK p : pc' = [pc EXCEPT ![a] = p] /\ (p = "loss" \/ p = AfterStop(a))
    BY <1>12, JoinedIs
  <2>2. p \in Pcs
    BY <2>1, AfterStopIs, PcValues
  <2>3. Stopping(a) /\ UNCHANGED <<current, execNum>>
    BY <1>12, JoinedIs DEF Stopping, Loops
  <2> QED
    BY <1>10, <2>1, <2>2, <2>3
<1>13. ASSUME NEW t \in Timers, Wake(t) PROVE Roles' /\ Counts'
  <2>1. /\ pc[t] = "sleep" /\ current' = current
        /\ pc' = [pc EXCEPT ![t] = IF current = t THEN "report" ELSE "idle"]
        /\ execNum' = IF current = t THEN execNum ELSE [execNum EXCEPT ![t] = 0]
    BY <1>13 DEF Wake
  <2>2. \A u \in Timers : u # t => execNum'[u] = execNum[u]
    BY <1>1, <2>1
  <2>3. CASE current = t
    BY <1>4, <2>1, <2>2, <2>3, PcValues DEF Counts
  <2>4. CASE current # t
    BY <1>4, <2>1, <2>2, <2>4, PcValues
  <2> QED
    BY <2>3, <2>4
<1>14. ASSUME NEW t \in Timers, Report(t) PROVE Roles' /\ Counts'
  <2> DEFINE left == execNum[t] - 1
             next == IF left = 0 THEN "last" ELSE AfterTick(t)
  <2>1. /\ pc' = [pc EXCEPT ![t] = next] /\ current' = current
        /\ execNum' = [execNum EXCEPT ![t] = IF next = "sleep" THEN left ELSE 0]
    BY <1>14 DEF Report
  <2>2. next \in {"last", "sleep", "idle"} /\ (next = "sleep" => left # 0)
    BY DEF AfterTick
  <2> HIDE DEF left, next
  <2>3. /\ \A u \in Timers : u # t => execNum'[u] = execNum[u]
        /\ next = "sleep" => execNum'[t] = left
    BY <1>1, <2>1
  <2> QED
    BY <1>4, <2>1, <2>2, <2>3, PcValues
<1>15. ASSUME NEW t \in Timers, LastReport(t) PROVE Roles' /\ Counts'
  BY <1>1, <1>4, <1>15, PcValues DEF LastReport
<1>16. ASSUME NEW l \in Loops, NEW k \in Threads, LoopTop(l, k) \/ LoopMeasured(l, k)
       PROVE  Roles' /\ Counts'
  BY <1>2, <1>16 DEF LoopTop, LoopMeasured
<1>17. CASE PingRestart
  <2>1. \A a \in Actors : pc'[a] = "idle"
    BY <1>17 DEF PingRestart, Fresh
  <2> QED
    BY <2>1, PcValues DEF Roles, Counts, Stopping
<1> QED
  BY <1>5, <1>6, <1>7, <1>8, <1>9, <1>11, <1>12, <1>13, <1>14, <1>15, <1>16, <1>17,
     <1>18, <1>19, PingSteps

-----------------------------------------------------------------------------
(***************************************************************************)
(* The threads                                                             *)
(***************************************************************************)
LEMMA JoinerStep ==
  ASSUME PingTypeOK, Held, Joiner, [Next]_vars
  PROVE  Held' /\ Joiner'
<1>1. /\ pc \in [Actors -> Pcs] /\ None \notin Threads
      /\ handle \in [Loops -> Threads \cup {None}]
      /\ loop \in [Loops -> [Threads -> Places]]
  BY PingParts, PingAssumption DEF PingAssumption
<1>2. ASSUME UNCHANGED <<loop, handle>> PROVE Held'
  BY <1>2 DEF Held
<1>3. ASSUME NEW a \in Actors, NEW p \in Pcs, pc' = [pc EXCEPT ![a] = p],
             handle' = handle, ~ JoinClash(a, p), p \in Loops => handle[p] # None
      PROVE  Joiner'
  <2>1. pc'[a] = p /\ \A b \in Actors : b # a => pc'[b] = pc[b]
    BY <1>3, PcStep
  <2> QED
    BY <1>3, <2>1 DEF Joiner, JoinClash
<1>4. ASSUME NEW a \in Actors, NEW p \in Pcs \ Loops, pc' = [pc EXCEPT ![a] = p],
             UNCHANGED <<loop, handle>>
      PROVE  Held' /\ Joiner'
  BY <1>2, <1>3, <1>4 DEF JoinClash
<1>5. CASE UNCHANGED pingVars
  BY <1>2, <1>5 DEF pingVars, Joiner
<1>6. CASE StartTask \/ StopTask
  BY <1>4, <1>6, PcValues DEF StartTask, StopTask, Loops
<1>14. CASE StartTime
  BY <1>4, <1>14, PcValues DEF StartTime, Loops
<1>15. ASSUME NEW a \in Actors, StopLoss(a) PROVE Held' /\ Joiner'
  BY <1>4, <1>15, PcValues DEF StopLoss, Loops
<1>7. CASE StartThreads
  <2>1. PICK f : /\ \A l \in Loops : handle[l] = None => f[l] \in Threads
                 /\ handle' = [l \in Loops |-> IF handle[l] = None THEN f[l] ELSE handle[l]]
                 /\ loop' = [l \in Loops |-> [k \in Threads |->
                               IF handle[l] = None /\ k = f[l] THEN "top" ELSE loop[l][k]]]
    BY <1>7, ThreadsStarted
  <2>2. Held'
    <3> SUFFICES ASSUME NEW l \in Loops, NEW k \in Threads, loop'[l][k] # "none"
                 PROVE  handle'[l] = k
      BY DEF Held
    <3>1. CASE handle[l] = None /\ k = f[l]
      BY <2>1, <3>1
    <3>2. CASE ~ (handle[l] = None /\ k = f[l])
      <4>1. loop[l][k] # "none"
        BY <2>1, <3>2
      <4>2. handle[l] = k /\ handle[l] # None
        BY <1>1, <4>1 DEF Held
      <4> QED
        BY <2>1, <4>2
    <3> QED
      BY <3>1, <3>2
  <2>3. Joiner'
    <3>1. \A l \in Loops : handle[l] # None => handle'[l] # None
      BY <2>1
    <3>2. pc' = [pc EXCEPT ![Handler] = "arm"]
      BY <1>7, ThreadsStarted
    <3>3. pc'[Handler] = "arm" /\ \A b \in Actors : b # Handler => pc'[b] = pc[b]
      BY <3>2, PcStep, PcValues
    <3> QED
      BY <3>1, <3>3 DEF Joiner, Loops
  <2> QED
    BY <2>2, <2>3
<1>8. CASE StartTimer
  <2>1. UNCHANGED <<loop, handle>>
    BY <1>8 DEF StartTimer
  <2>2. CASE pc' = [pc EXCEPT ![Handler] = "idle"]
    BY <1>4, <2>1, <2>2, PcValues DEF Loops
  <2>3. ASSUME NEW t \in Timers, pc' = [pc EXCEPT ![t] = "sleep", ![Handler] = "idle"]
        PROVE  Held' /\ Joiner'
    <3>1. \A b \in Actors : pc'[b] = pc[b] \/ pc'[b] \in {"sleep", "idle"}
      BY <1>1, <2>3, PcValues
    <3> QED
      BY <1>2, <2>1, <3>1 DEF Joiner, Loops
  <2> QED
    BY <1>8, <2>2, <2>3 DEF StartTimer
<1>9. ASSUME NEW a \in Actors, StopFlags(a) PROVE Held' /\ Joiner'
  <2> DEFINE p == AfterFlags(a, handle)
  <2>1. p \in Pcs /\ (p \in Loops => handle[p] # None)
    BY AfterFlagsIs, AfterStopIs, PcValues DEF Loops
  <2>2. /\ pc' = [pc EXCEPT ![a] = p] /\ ~ JoinClash(a, p) /\ UNCHANGED <<loop, handle>>
    BY <1>9 DEF StopFlags
  <2> QED
    BY <1>2, <1>3, <2>1, <2>2
<1>10. ASSUME NEW a \in Actors, NEW l \in Loops, Joined(a, l) PROVE Held' /\ Joiner'
  <2>1. PICK p : /\ pc' = [pc EXCEPT ![a] = p]
                 /\ ~ JoinClash(a, p)
                 /\ \/ p = "loss" /\ l = "time" /\ handle["loss"] # None
                    \/ p = AfterStop(a)
    BY <1>10, JoinedIs
  <2>2. p \in Pcs
    BY <2>1, AfterStopIs, PcValues
  <2>3. /\ pc[a] = l
        /\ handle' = [handle EXCEPT ![l] = None]
        /\ loop' = [loop EXCEPT ![l][handle[l]] = "none"]
    BY <1>10, JoinedIs
  <2>4. handle[l] \in Threads /\ \A b \in Actors \ {a} : pc[b] # l
    BY <1>1, <2>3 DEF Joiner
  <2>5. \A m \in Loops : handle'[m] = IF m = l THEN None ELSE handle[m]
    BY <1>1, <2>3
  <2>6. \A m \in Loops, k \in Threads :
          loop'[m][k] = IF m = l /\ k = handle[l] THEN "none" ELSE loop[m][k]
    <3>1. "none" \in Places
      BY DEF Places
    <3> QED
      BY <1>1, <2>3, <2>4, <3>1, PairStep
  <2>7. Held'
    BY <2>5, <2>6 DEF Held
  <2>8. pc'[a] = p /\ \A b \in Actors : b # a => pc'[b] = pc[b]
    BY <2>1, <2>2, PcStep
  <2>9. Joiner'
    <3> SUFFICES ASSUME NEW m \in Loops, NEW b \in Actors, pc'[b] = m
                 PROVE  handle'[m] # None /\ \A c \in Actors \ {b} : pc'[c] # m
      BY DEF Joiner
    <3>1. CASE b = a
      <4>1. m = "loss" /\ l = "time" /\ handle["loss"] # None
        BY <2>1, <2>8, <3>1, AfterStopIs DEF Loops
      <4> QED
        BY <2>1, <2>5, <2>8, <3>1, <4>1 DEF JoinClash
    <3>2. CASE b # a
      <4>1. pc[b] = m /\ m # l /\ handle[m] # None /\ \A c \in Actors \ {b} : pc[c] # m
        BY <2>4, <2>8, <3>2 DEF Joiner
      <4>2. p # m
        BY <2>1, <3>2, <4>1 DEF JoinClash
      <4> QED
        BY <2>5, <2>8, <4>1, <4>2
    <3> QED
      BY <3>1, <3>2
  <2> QED
    BY <2>7, <2>9
<1>11. ASSUME NEW t \in Timers, Wake(t) \/ Report(t) \/ LastReport(t) PROVE Held' /\ Joiner'
  <2>1. PICK p \in Pcs \ Loops : pc' = [pc EXCEPT ![t] = p]
    BY <1>11, PcValues DEF Wake, Report, LastReport, AfterTick, Loops
  <2>2. UNCHANGED <<loop, handle>>
    BY <1>11 DEF Wake, Report, LastReport
  <2> QED
    BY <1>4, <2>1, <2>2, PcValues
<1>12. ASSUME NEW l \in Loops, NEW k \in Threads, LoopTop(l, k) \/ LoopMeasured(l, k)
       PROVE  Held' /\ Joiner'
  <2>1. PICK p \in Places \ {"none"} : loop' = [loop EXCEPT ![l][k] = p]
    BY <1>12 DEF LoopTop, LoopMeasured, Places
  <2>2. loop[l][k] # "none" /\ UNCHANGED <<pc, handle>>
    BY <1>12 DEF LoopTop, LoopMeasured
  <2>3. \A m \in Loops, j \in Threads :
          loop'[m][j] = IF m = l /\ j = k THEN p ELSE loop[m][j]
    BY <1>1, <2>1, PairStep
  <2> QED
    BY <2>2, <2>3 DEF Held, Joiner
<1>13. CASE PingRestart
  <2>1. \A a \in Actors : pc'[a] = "idle"
    BY <1>13 DEF PingRestart, Fresh
  <2>2. \A l \in Loops, k \in Threads : loop'[l][k] = "none"
    BY <1>13 DEF PingRestart, Fresh
  <2> QED
    BY <2>1, <2>2 DEF Held, Joiner, Loops
<1> QED
  BY <1>5, <1>6, <1>7, <1>8, <1>9, <1>10, <1>11, <1>12, <1>13,
     <1>14, <1>15, PingSteps

-----------------------------------------------------------------------------
(***************************************************************************)
(* Commands that do not meet a tick                                        *)
(***************************************************************************)
\* One actor moves, and it is the only one that is or becomes busy.
LEMMA OneMoves ==
  ASSUME PingTypeOK, NEW a \in Actors, NEW p \in Pcs, pc' = [pc EXCEPT ![a] = p],
         \A b \in Actors \ {a} : pc[b] \in {"idle", "sleep"}
  PROVE  /\ pc'[a] = p
         /\ \A b \in Actors \ {a} : pc'[b] \in {"idle", "sleep"}
         /\ \A b, c \in Actors : (Busy(b) /\ Busy(c))' => b = c
BY PcStep DEF Busy

LEMMA CalmStep ==
  ASSUME PingTypeOK, Roles, Counts, Held, Joiner, CalmInv, [Next]_vars, calm'
  PROVE  OneAtATime' /\ StopIsComplete' /\ OwnAddress'
<1>1. /\ pc \in [Actors -> Pcs] /\ None \notin Threads /\ None \notin Timers
      /\ handle \in [Loops -> Threads \cup {None}]
      /\ loop \in [Loops -> [Threads -> Places]]
      /\ target \in [Loops -> [Threads -> BOOLEAN]]
      /\ value \in [Loops -> BOOLEAN]
      /\ running \subseteq Loops
  BY PingParts, PingAssumption DEF PingAssumption
<1>2. OneAtATime /\ StopIsComplete /\ OwnAddress
  <2>1. calm
    <3>1. calm' = calm \/ Command
      BY PingSteps, ThreadsStarted, JoinedIs
         DEF pingVars, StartTask, StartTime, StopTask, StartTimer, StopLoss, StopFlags, Wake, Report,
             LastReport, LoopTop, LoopMeasured, PingRestart
    <3> QED
      BY <3>1 DEF Command
  <2> QED
    BY <2>1 DEF CalmInv
<1>3. ASSUME UNCHANGED <<loop, target, value, fresh>> PROVE OwnAddress'
  BY <1>2, <1>3 DEF OwnAddress
<1>4. ASSUME UNCHANGED <<pc, current, running, handle>> PROVE OneAtATime' /\ StopIsComplete'
  BY <1>2, <1>4 DEF OneAtATime, StopIsComplete, Busy, Stopping
<1>5. ASSUME NEW a \in Actors, Busy(a)
      PROVE  \A b \in Actors \ {a} : pc[b] \in {"idle", "sleep"}
  BY <1>2, <1>5 DEF OneAtATime, Busy
<1>6. CASE UNCHANGED pingVars
  BY <1>3, <1>4, <1>6 DEF pingVars
<1>7. CASE StartTask
  <2>1. \A a \in Actors : pc[a] \in {"idle", "sleep"}
    BY <1>7 DEF StartTask, Command, Actors
  <2>2. \A l \in Loops : handle[l] = None
    BY <1>2, <1>7, <2>1 DEF StartTask, StopIsComplete, Busy
  <2>3. current = None
    BY <1>2, <1>7 DEF StartTask, OneAtATime
  <2>4. /\ running' = {"loss"} /\ UNCHANGED <<current, loop, handle>> /\ fresh' = {}
        /\ pc' = [pc EXCEPT ![Handler] = "started"]
    BY <1>7 DEF StartTask
  <2>5. /\ pc'[Handler] = "started"
        /\ \A b \in Actors \ {Handler} : pc'[b] \in {"idle", "sleep"}
        /\ \A b, c \in Actors : (Busy(b) /\ Busy(c))' => b = c
    BY <2>1, <2>4, OneMoves, PcValues
  <2>6. OneAtATime' /\ StopIsComplete'
    BY <2>3, <2>4, <2>5, PcValues DEF OneAtATime, StopIsComplete, Busy, Stopping
  <2>7. \A l \in Loops, k \in Threads : loop'[l][k] = "none"
    BY <1>1, <2>2, <2>4 DEF Held
  <2>8. OwnAddress'
    BY <2>4, <2>7 DEF OwnAddress
  <2> QED
    BY <2>6, <2>8
<1>8. CASE StopTask
  <2>1. \A a \in Actors : pc[a] \in {"idle", "sleep"}
    BY <1>8 DEF StopTask, Command, Actors
  <2>2. /\ running # {} /\ running' = running /\ current' = None
        /\ UNCHANGED <<loop, target, value, fresh, handle>>
        /\ pc' = [pc EXCEPT ![Handler] = "flags"]
    BY <1>8 DEF StopTask
  <2>3. /\ pc'[Handler] = "flags"
        /\ \A b \in Actors \ {Handler} : pc'[b] \in {"idle", "sleep"}
        /\ \A b, c \in Actors : (Busy(b) /\ Busy(c))' => b = c
    BY <2>1, <2>2, OneMoves, PcValues
  <2> QED
    BY <1>3, <2>2, <2>3, PcValues DEF OneAtATime, StopIsComplete, Busy, Stopping
<1>19. CASE StartTime
  <2>1. /\ pc[Handler] = "started" /\ running' = running \cup {"time"}
        /\ pc' = [pc EXCEPT ![Handler] = "threads"]
        /\ UNCHANGED <<handle, loop, target, value, current, fresh>>
    BY <1>19 DEF StartTime
  <2>2. running' # {} /\ current = None
    BY <1>2, <2>1 DEF OneAtATime
  <2>3. /\ pc'[Handler] = "threads"
        /\ \A b \in Actors \ {Handler} : pc'[b] \in {"idle", "sleep"}
        /\ \A b, c \in Actors : (Busy(b) /\ Busy(c))' => b = c
    BY <1>5, <2>1, OneMoves, PcValues DEF Busy
  <2> QED
    BY <1>3, <2>1, <2>2, <2>3, PcValues DEF OneAtATime, StopIsComplete, Busy, Stopping
<1>20. ASSUME NEW a \in Actors, StopLoss(a)
       PROVE  OneAtATime' /\ StopIsComplete' /\ OwnAddress'
  <2>1. /\ pc[a] = "flags" /\ running' = running \ {"loss"} /\ pc' = [pc EXCEPT ![a] = "flag"]
        /\ UNCHANGED <<handle, loop, target, value, current, fresh>>
    BY <1>20 DEF StopLoss
  <2>2. current = None /\ running' \subseteq {"time"}
    BY <1>1, <1>2, <2>1 DEF OneAtATime, Stopping, Loops
  <2>3. /\ pc'[a] = "flag"
        /\ \A b \in Actors \ {a} : pc'[b] \in {"idle", "sleep"}
        /\ \A b, c \in Actors : (Busy(b) /\ Busy(c))' => b = c
    BY <1>5, <2>1, OneMoves, PcValues DEF Busy
  <2> QED
    BY <1>3, <2>1, <2>2, <2>3, PcValues DEF OneAtATime, StopIsComplete, Busy, Stopping
<1>9. CASE StartThreads
  <2>1. /\ pc[Handler] = "threads"
        /\ pc' = [pc EXCEPT ![Handler] = "arm"]
        /\ UNCHANGED <<running, target, value, current, fresh>>
    BY <1>9, ThreadsStarted
  <2>2. running # {} /\ current = None
    BY <1>2, <2>1 DEF OneAtATime
  <2>3. /\ pc'[Handler] = "arm"
        /\ \A b \in Actors \ {Handler} : pc'[b] \in {"idle", "sleep"}
        /\ \A b, c \in Actors : (Busy(b) /\ Busy(c))' => b = c
    BY <1>5, <2>1, OneMoves, PcValues DEF Busy
  <2>4. OneAtATime' /\ StopIsComplete'
    BY <2>1, <2>2, <2>3, PcValues DEF OneAtATime, StopIsComplete, Busy, Stopping
  <2>5. PICK f : loop' = [l \in Loops |-> [k \in Threads |->
                            IF handle[l] = None /\ k = f[l] THEN "top" ELSE loop[l][k]]]
    BY <1>9, ThreadsStarted
  <2>6. \A l \in Loops, k \in Threads : loop'[l][k] = "ping" => loop[l][k] = "ping"
    BY <2>5
  <2>7. OwnAddress'
    BY <1>2, <2>1, <2>6 DEF OwnAddress
  <2> QED
    BY <2>4, <2>7
<1>10. CASE StartTimer
  <2>1. /\ pc[Handler] = "arm"
        /\ UNCHANGED <<running, handle, loop, target, value, fresh>>
    BY <1>10 DEF StartTimer
  <2>2. running # {}
    BY <1>2, <2>1 DEF OneAtATime
  <2>3. \A b \in Actors \ {Handler} : pc[b] \in {"idle", "sleep"}
    BY <1>5, <2>1, PcValues DEF Busy
  <2>4. /\ \A b \in Actors : pc'[b] \in {"idle", "sleep"}
        /\ pc'[Handler] = "idle"
    <3>1. CASE pc' = [pc EXCEPT ![Handler] = "idle"]
      BY <1>1, <2>3, <3>1, PcValues
    <3>2. ASSUME NEW t \in Timers, pc' = [pc EXCEPT ![t] = "sleep", ![Handler] = "idle"]
          PROVE  (\A b \in Actors : pc'[b] \in {"idle", "sleep"}) /\ pc'[Handler] = "idle"
      BY <1>1, <2>3, <3>2, PcValues
    <3> QED
      BY <1>10, <3>1, <3>2 DEF StartTimer
  <2> QED
    BY <1>3, <2>1, <2>2, <2>4, PcValues DEF OneAtATime, StopIsComplete, Busy, Stopping
<1>11. ASSUME NEW a \in Actors, StopFlags(a)
       PROVE  OneAtATime' /\ StopIsComplete' /\ OwnAddress'
  <2> DEFINE p == AfterFlags(a, handle)
  <2>1. /\ pc[a] = "flag" /\ running' = {} /\ pc' = [pc EXCEPT ![a] = p]
        /\ UNCHANGED <<handle, loop, target, value, current, fresh>>
    BY <1>2, <1>11 DEF StopFlags, StopIsComplete
  <2>2. /\ p = "time" \/ (p = "loss" /\ handle["time"] = None)
           \/ (p \in {"idle", "sleep"} /\ \A l \in Loops : handle[l] = None)
        /\ a = Handler => p # "sleep"
    BY AfterFlagsIs, AfterStopIs DEF Loops
  <2>3. p \in Pcs
    BY <2>2, PcValues
  <2>4. current = None
    BY <1>2, <2>1 DEF OneAtATime, Stopping
  <2>5. /\ pc'[a] = p
        /\ \A b \in Actors \ {a} : pc'[b] \in {"idle", "sleep"}
        /\ \A b, c \in Actors : (Busy(b) /\ Busy(c))' => b = c
    BY <1>5, <2>1, <2>3, OneMoves DEF Busy
  <2> HIDE DEF p
  <2>6. OneAtATime'
    BY <2>1, <2>2, <2>4, <2>5, PcValues DEF OneAtATime, Busy, Stopping
  <2>7. StopIsComplete'
    BY <2>1, <2>2, <2>5 DEF StopIsComplete, Busy
  <2> QED
    BY <1>3, <2>1, <2>6, <2>7
<1>12. ASSUME NEW a \in Actors, NEW l \in Loops, Joined(a, l)
       PROVE  OneAtATime' /\ StopIsComplete' /\ OwnAddress'
  <2>1. PICK p : /\ pc' = [pc EXCEPT ![a] = p]
                 /\ \/ p = "loss" /\ l = "time"
                    \/ p = AfterStop(a) /\ (l = "time" => handle["loss"] = None)
    BY <1>12, JoinedIs
  <2>2. p \in {"loss", "idle", "sleep"} /\ p \in Pcs
    BY <2>1, AfterStopIs, PcValues
  <2>3. /\ pc[a] = l
        /\ handle' = [handle EXCEPT ![l] = None]
        /\ loop' = [loop EXCEPT ![l][handle[l]] = "none"]
        /\ UNCHANGED <<running, target, value, current, fresh>>
    BY <1>12, JoinedIs
  <2>4. /\ current = None /\ running = {}
        /\ l = "loss" => handle["time"] = None
    BY <1>2, <2>3 DEF OneAtATime, StopIsComplete, Stopping, Loops
  <2>5. /\ pc'[a] = p
        /\ \A b \in Actors \ {a} : pc'[b] \in {"idle", "sleep"}
        /\ \A b, c \in Actors : (Busy(b) /\ Busy(c))' => b = c
    BY <1>5, <2>1, <2>2, <2>3, OneMoves DEF Busy, Loops
  <2>6. OneAtATime'
    BY <2>2, <2>3, <2>4, <2>5, PcValues DEF OneAtATime, Busy, Stopping
  <2>7. \A m \in Loops : handle'[m] = IF m = l THEN None ELSE handle[m]
    BY <1>1, <2>3
  <2>8. /\ p = "loss" => handle'["time"] = None
        /\ p # "loss" => \A m \in Loops : handle'[m] = None
    BY <2>1, <2>4, <2>7, AfterStopIs DEF Loops
  <2>9. StopIsComplete'
    BY <2>2, <2>3, <2>4, <2>5, <2>8 DEF StopIsComplete, Busy
  <2>10. \A m \in Loops, k \in Threads : loop'[m][k] = "ping" => loop[m][k] = "ping"
    BY <1>1, <2>3
  <2>11. OwnAddress'
    BY <1>2, <2>3, <2>10 DEF OwnAddress
  <2> QED
    BY <2>6, <2>9, <2>11
<1>13. ASSUME NEW t \in Timers, Wake(t)
       PROVE  OneAtATime' /\ StopIsComplete' /\ OwnAddress'
  <2>1. /\ pc[t] = "sleep"
        /\ pc' = [pc EXCEPT ![t] = IF current = t THEN "report" ELSE "idle"]
        /\ UNCHANGED <<running, handle, loop, target, value, current, fresh>>
    BY <1>13 DEF Wake
  <2>2. CASE current = t
    <3>1. \A b \in Actors \ {t} : pc[b] \in {"idle", "sleep"}
      BY <1>1, <1>2, <2>2, PcValues DEF OneAtATime, Stopping, Actors, Pcs, Roles
    <3>2. /\ pc'[t] = "report"
          /\ \A b \in Actors \ {t} : pc'[b] \in {"idle", "sleep"}
          /\ \A b, c \in Actors : (Busy(b) /\ Busy(c))' => b = c
      BY <2>1, <2>2, <3>1, OneMoves, PcValues
    <3>3. running # {} /\ pc[Handler] = pc'[Handler]
      BY <1>1, <1>2, <2>1, <2>2, PcValues, PcStep DEF OneAtATime
    <3> QED
      BY <1>2, <1>3, <2>1, <2>2, <3>2, <3>3, PcValues DEF OneAtATime, StopIsComplete, Busy, Stopping
  <2>3. CASE current # t
    <3>1. pc'[t] = "idle" /\ \A b \in Actors \ {t} : pc'[b] = pc[b]
      BY <2>1, <2>3, PcStep, PcValues
    <3>2. \A b \in Actors : (Busy(b)' <=> Busy(b)) /\ (Stopping(b)' <=> Stopping(b))
      BY <2>1, <3>1 DEF Busy, Stopping
    <3>3. OneAtATime'
      BY <1>2, <2>1, <3>1, <3>2, PcValues DEF OneAtATime
    <3>4. StopIsComplete'
      BY <1>2, <2>1, <3>1, <3>2, PcValues DEF StopIsComplete
    <3> QED
      BY <1>3, <2>1, <3>3, <3>4
  <2> QED
    BY <2>2, <2>3
<1>14. ASSUME NEW t \in Timers, Report(t)
       PROVE  OneAtATime' /\ StopIsComplete' /\ OwnAddress'
  <2>1. /\ pc[t] = "report" /\ current = t /\ running # {}
    BY <1>1, <1>2, <1>14 DEF Report, OneAtATime
  <2>2. PICK p \in {"last", "sleep"} : pc' = [pc EXCEPT ![t] = p]
    BY <1>14, <2>1 DEF Report, AfterTick
  <2>3. UNCHANGED <<running, handle, loop, target, value, current, fresh>>
    BY <1>14 DEF Report
  <2>4. /\ pc'[t] = p
        /\ \A b \in Actors \ {t} : pc'[b] \in {"idle", "sleep"}
        /\ \A b, c \in Actors : (Busy(b) /\ Busy(c))' => b = c
    BY <1>5, <2>1, <2>2, OneMoves, PcValues DEF Busy
  <2>5. pc'[Handler] = "idle"
    BY <1>1, <1>2, <2>1, <2>2, PcStep, PcValues DEF OneAtATime
  <2> QED
    BY <1>3, <2>1, <2>3, <2>4, <2>5, PcValues DEF OneAtATime, StopIsComplete, Busy, Stopping
<1>15. ASSUME NEW t \in Timers, LastReport(t)
       PROVE  OneAtATime' /\ StopIsComplete' /\ OwnAddress'
  <2>1. /\ pc[t] = "last" /\ current = t /\ running # {} /\ current' = None
        /\ pc' = [pc EXCEPT ![t] = "flags"]
        /\ UNCHANGED <<running, handle, loop, target, value, fresh>>
    BY <1>1, <1>2, <1>15 DEF LastReport, OneAtATime
  <2>2. /\ pc'[t] = "flags"
        /\ \A b \in Actors \ {t} : pc'[b] \in {"idle", "sleep"}
        /\ \A b, c \in Actors : (Busy(b) /\ Busy(c))' => b = c
    BY <1>5, <2>1, OneMoves, PcValues DEF Busy
  <2> QED
    BY <1>3, <2>1, <2>2, PcValues DEF OneAtATime, StopIsComplete, Busy, Stopping
<1>16. ASSUME NEW l \in Loops, NEW k \in Threads, LoopTop(l, k)
       PROVE  OneAtATime' /\ StopIsComplete' /\ OwnAddress'
  <2>1. /\ loop' = [loop EXCEPT ![l][k] = IF l \in running THEN "ping" ELSE "ended"]
        /\ target' = [target EXCEPT ![l][k] = (l \in running)]
        /\ UNCHANGED <<running, handle, value, current, pc, fresh>>
    BY <1>16 DEF LoopTop
  <2>2. \A m \in Loops, j \in Threads :
          /\ m = l /\ j = k =>
               (loop'[m][j] = "ping" => l \in running) /\ target'[m][j] = (l \in running)
          /\ ~ (m = l /\ j = k) => loop'[m][j] = loop[m][j] /\ target'[m][j] = target[m][j]
    BY <1>1, <2>1
  <2>3. \A m \in Loops, j \in Threads : loop'[m][j] = "ping" => target'[m][j]
    <3> SUFFICES ASSUME NEW m \in Loops, NEW j \in Threads, loop'[m][j] = "ping"
                 PROVE  target'[m][j]
      OBVIOUS
    <3>1. CASE m = l /\ j = k
      <4>1. l \in running /\ target'[m][j] = (l \in running)
        BY <2>2, <3>1
      <4> QED
        BY <4>1
    <3>2. CASE ~ (m = l /\ j = k)
      <4>1. loop[m][j] = "ping" /\ target'[m][j] = target[m][j]
        BY <2>2, <3>2
      <4>2. target[m][j]
        BY <1>2, <4>1 DEF OwnAddress
      <4> QED
        BY <4>1, <4>2
    <3> QED
      BY <3>1, <3>2
  <2> QED
    BY <1>2, <1>4, <2>1, <2>3 DEF OwnAddress
<1>17. ASSUME NEW l \in Loops, NEW k \in Threads, LoopMeasured(l, k)
       PROVE  OneAtATime' /\ StopIsComplete' /\ OwnAddress'
  <2>1. PICK p \in {"top", "ended"} : loop' = [loop EXCEPT ![l][k] = p]
    BY <1>17 DEF LoopMeasured
  <2>2. /\ loop[l][k] = "ping"
        /\ target' = [target EXCEPT ![l][k] = FALSE]
        /\ \/ value' = [value EXCEPT ![l] = target[l][k]] /\ fresh' = fresh \cup {l}
           \/ UNCHANGED <<value, fresh>>
        /\ UNCHANGED <<running, handle, current, pc>>
    BY <1>17 DEF LoopMeasured
  <2>3. \A m \in Loops, j \in Threads :
          /\ m = l /\ j = k => loop'[m][j] = p
          /\ ~ (m = l /\ j = k) => loop'[m][j] = loop[m][j] /\ target'[m][j] = target[m][j]
    BY <1>1, <2>1, <2>2
  <2>4. \A m \in Loops, j \in Threads : loop'[m][j] = "ping" => target'[m][j]
    <3>1. p # "ping"
      OBVIOUS
    <3> QED
      BY <1>2, <2>3, <3>1, Zenon DEF OwnAddress
  <2>5. target[l][k]
    BY <1>2, <2>2 DEF OwnAddress
  <2>6. \A m \in fresh' : value'[m]
    <3>1. CASE value' = [value EXCEPT ![l] = target[l][k]] /\ fresh' = fresh \cup {l}
      <4>1. value'[l] = target[l][k] /\ \A m \in Loops : m # l => value'[m] = value[m]
        BY <1>1, <3>1
      <4>2. fresh \subseteq Loops
        BY PingParts
      <4> QED
        BY <1>2, <2>5, <3>1, <4>1, <4>2 DEF OwnAddress
    <3>2. CASE UNCHANGED <<value, fresh>>
      BY <1>2, <3>2 DEF OwnAddress
    <3> QED
      BY <2>2, <3>1, <3>2
  <2> QED
    BY <1>4, <2>2, <2>4, <2>6 DEF OwnAddress
<1>18. CASE PingRestart
  <2>1. /\ \A a \in Actors : pc'[a] = "idle"
        /\ current' = None /\ fresh' = {}
        /\ \A l \in Loops : handle'[l] = None
    BY <1>18 DEF PingRestart, Fresh
  <2>2. \A l \in Loops, k \in Threads : loop'[l][k] = "none"
    BY <1>18 DEF PingRestart, Fresh
  <2> QED
    BY <2>1, <2>2, PcValues DEF OneAtATime, StopIsComplete, OwnAddress, Busy, Stopping
<1> QED
  BY <1>6, <1>7, <1>8, <1>9, <1>10, <1>11, <1>12, <1>13, <1>14, <1>15, <1>16, <1>17, <1>18,
     <1>19, <1>20, PingSteps

-----------------------------------------------------------------------------
(***************************************************************************)
(* Theorems                                                                *)
(***************************************************************************)
OnlineInv == TypeOK /\ PingInv /\ LineInv

LEMMA OnlineInvInit == Init => OnlineInv
<1> SUFFICES ASSUME Init PROVE OnlineInv
  OBVIOUS
<1>1. PingTypeOK
  <2>1. /\ running = {} /\ armed = FALSE /\ current = None /\ fresh = {}
        /\ calm = TRUE /\ commands = 0
    BY DEF Init, PingInit, Fresh
  <2>2. /\ handle = [l \in Loops |-> None]
        /\ loop = [l \in Loops |-> [k \in Threads |-> "none"]]
        /\ target = [l \in Loops |-> [k \in Threads |-> FALSE]]
        /\ value = [l \in Loops |-> FALSE]
        /\ execNum = [t \in Timers |-> 0]
        /\ pc = [a \in Actors |-> "idle"]
    BY DEF Init, PingInit, Fresh
  <2>3. /\ handle \in [Loops -> Threads \cup {None}]
        /\ loop \in [Loops -> [Threads -> Places]]
        /\ target \in [Loops -> [Threads -> BOOLEAN]]
        /\ value \in [Loops -> BOOLEAN]
        /\ pc \in [Actors -> Pcs]
    BY <2>2 DEF Places, Pcs
  <2>4. execNum \in [Timers -> 0..MaxExec] /\ commands \in 0..MaxCommands
    BY <2>1, <2>2, PingAssumption DEF PingAssumption
  <2> QED
    BY <2>1, <2>3, <2>4, PingParts
<1>2. MqttTypeOK /\ LineInv
  <2>1. /\ scheme \in BOOLEAN /\ net = TRUE /\ conn = "none" /\ events = <<>>
        /\ asked = {} /\ subs = {} /\ refused = {}
        /\ gaveUp = FALSE /\ outages = 0 /\ refusals = 0
    BY DEF Init, MqttInit
  <2>2. events \in Queues
    BY <2>1 DEF Queues
  <2>3. events \in Seq({"success", "failure", "lost"}) /\ Len(events) <= 2
    BY <2>2, QueueFacts, Zenon
  <2>4. outages \in 0..MaxOutages /\ refusals \in 0..MaxRefusals
    BY <2>1, MqttAssumption DEF MqttAssumption
  <2> QED
    BY <2>1, <2>3, <2>4 DEF MqttTypeOK, LineInv, HearsTopics
<1>3. PingInv
  <2>1. /\ current = None /\ fresh = {}
        /\ \A l \in Loops : handle[l] = None
        /\ \A l \in Loops, k \in Threads : loop[l][k] = "none"
        /\ \A a \in Actors : pc[a] = "idle"
    BY DEF Init, PingInit, Fresh
  <2> QED
    BY <2>1, PcValues DEF PingInv, Roles, Counts, Held, Joiner, CalmInv, OneAtATime,
       StopIsComplete, OwnAddress, Busy, Stopping, Loops
<1> QED
  BY <1>1, <1>2, <1>3 DEF OnlineInv, TypeOK, Init

LEMMA OnlineInvStep ==
  ASSUME OnlineInv, [Next]_vars
  PROVE  OnlineInv'
<1>1. PingTypeOK /\ Roles /\ Counts /\ Held /\ Joiner /\ CalmInv /\ MqttTypeOK /\ LineInv
  BY DEF OnlineInv, TypeOK, PingInv
<1>2. PingTypeOK'
  BY <1>1, PingTypeStep
<1>3. Roles' /\ Counts'
  BY <1>1, CountsStep
<1>4. Held' /\ Joiner'
  BY <1>1, JoinerStep
<1>5. CalmInv'
  <2>1. ASSUME calm' PROVE OneAtATime' /\ StopIsComplete' /\ OwnAddress'
    BY <1>1, <2>1, CalmStep
  <2> QED
    BY <2>1 DEF CalmInv
<1>6. MqttTypeOK' /\ LineInv'
  BY <1>1, LineStep
<1>7. retained' \in BOOLEAN
  <2>1. retained \in BOOLEAN
    BY DEF OnlineInv, TypeOK
  <2> QED
    BY <2>1 DEF Next, vars, Start, Deliver, Abort, ConnectionCallback, Environment, Ping, Die, Crash
<1> QED
  BY <1>2, <1>3, <1>4, <1>5, <1>6, <1>7 DEF OnlineInv, TypeOK, PingInv

(***************************************************************************)
(* Every variable of the ping task and of the connection keeps its type:   *)
(* no task counts below zero, and never are more than two events due.      *)
(***************************************************************************)
THEOREM TypeCorrect == Spec => []TypeOK
<1>1. OnlineInv => TypeOK
  BY DEF OnlineInv
<1> QED
  BY <1>1, OnlineInvInit, OnlineInvStep, PTL DEF Spec

(***************************************************************************)
(* There is at most one thread in each of PING's loops, although start     *)
(* makes threads and stop joins them from different threads and without a  *)
(* lock.                                                                   *)
(***************************************************************************)
THEOREM LoopsAreSingle == Spec => []OneLoopEach
<1>1. OnlineInv => OneLoopEach
  <2> SUFFICES ASSUME OnlineInv, NEW l \in Loops
               PROVE  Cardinality({k \in Threads : loop[l][k] \in {"top", "ping"}}) <= 1
    BY DEF OneLoopEach
  <2> DEFINE S == {k \in Threads : loop[l][k] \in {"top", "ping"}}
  <2>1. S \subseteq {handle[l]}
    BY DEF OnlineInv, PingInv, Held
  <2>2. S = {} \/ S = {handle[l]}
    BY <2>1
  <2> HIDE DEF S
  <2>3. Cardinality(S) <= 1
    <3>1. Cardinality(S) \in {0, 1}
      BY <2>2, FS_EmptySet, FS_Singleton, Zenon
    <3> QED
      BY <3>1
  <2> QED
    BY <2>3 DEF S
<1> QED
  BY <1>1, OnlineInvInit, OnlineInvStep, PTL DEF Spec

(***************************************************************************)
(* When commands do not meet a tick of the timer, what a report carries    *)
(* for a loop that has found a result since the task was started was       *)
(* measured for the task's address, and not for that of an earlier task.   *)
(***************************************************************************)
THEOREM ReportsAreFresh == Spec => FreshReport
<1> DEFINE A == \A t \in Timers : Report(t) /\ calm => \A l \in fresh : value[l]
<1>1. OnlineInv => A
  BY DEF OnlineInv, PingInv, CalmInv, OwnAddress
<1>2. OnlineInv /\ [Next]_vars => [A]_vars
  BY <1>1
<1>3. Spec => [][A]_vars
  BY <1>2, OnlineInvInit, OnlineInvStep, PTL DEF Spec
<1> QED
  BY <1>3 DEF FreshReport

(***************************************************************************)
(* A connected client whose callback has run is subscribed, or has asked   *)
(* to be, to every topic but those that the library or the broker refused  *)
(* since then, however connections and callbacks overtook each other.      *)
(***************************************************************************)
THEOREM TopicsAreHeard == Spec => []HearsTopics
<1>1. OnlineInv => HearsTopics
  BY DEF OnlineInv, LineInv
<1> QED
  BY <1>1, OnlineInvInit, OnlineInvStep, PTL DEF Spec

=============================================================================
