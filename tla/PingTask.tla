------------------------------ MODULE PingTask ------------------------------
(***************************************************************************)
(* The ping task that the platform starts and stops: the PING singleton of *)
(* src/ping.cpp with its two loop threads, and the task that              *)
(* vwiseProccessTaskMgrHandle (src/probe_manager.cpp) runs on m_timerPing. *)
(*                                                                         *)
(* Actors are the thread that delivers commands (Handler) and the timer    *)
(* threads, one for each start of m_timerPing that has not exited; each    *)
(* may be inside PING::stop, which takes no lock.  Two joins of one thread *)
(* end the process, which is supervised and comes up again.                *)
(***************************************************************************)
EXTENDS Naturals, FiniteSets

CONSTANTS
  Timers,      \* bound: threads of m_timerPing at a time
  Handler,     \* the thread that delivers the platform's commands
  None,
  MaxExec,     \* bound: exec_num of a task
  MaxCommands  \* bound: commands carried out

Loops == {"time", "loss"}
\* A thread that is replaced may in principle still run: two of each kind.
Threads == {1, 2}

ASSUME PingAssumption ==
  /\ Handler \notin Timers
  /\ None \notin Timers \cup Threads
  /\ MaxExec \in Nat \ {0}
  /\ MaxCommands \in Nat

VARIABLES
  running,   \* the loops whose flag is set: m_pingLossRunning, m_pingTimeRunning
  handle,    \* the thread that m_pTimeThd or m_pLossThd holds
  loop,      \* where each thread that was created is
  target,    \* does the ping a thread runs go to m_ip as it is now?
  value,     \* were m_pingTime and m_loss measured for m_ip as it is now?
  armed,     \* ~m_timerPing._expired
  current,   \* the timer thread of m_timerPing._generation
  execNum,   \* the count that each timer thread captured
  pc,        \* where each actor is
  fresh,     \* the loops that found a result since the task was started
  calm,      \* no command came in the middle of a tick
  commands   \* number of starts and stops carried out

pingVars == <<running, handle, loop, target, value, armed, current,
              execNum, pc, fresh, calm, commands>>

Actors == Timers \cup {Handler}

PingTypeOK ==
  /\ running \subseteq Loops
  /\ handle \in [Loops -> Threads \cup {None}]
  /\ loop \in [Loops -> [Threads -> {"none", "top", "ping", "ended"}]]
  /\ target \in [Loops -> [Threads -> BOOLEAN]]
  /\ value \in [Loops -> BOOLEAN]
  /\ armed \in BOOLEAN
  /\ current \in Timers \cup {None}
  /\ execNum \in [Timers -> 0..MaxExec]
  /\ pc \in [Actors -> {"idle", "started", "threads", "arm", "sleep", "report",
                        "last", "flags", "flag", "time", "loss"}]
  /\ fresh \subseteq Loops
  /\ calm \in BOOLEAN
  /\ commands \in 0..MaxCommands

----------------------------------------------------------------------------
\* The process as it comes up: m_loss and m_pingTime are 0, of no address.
Fresh ==
  [running |-> {},
   handle |-> [l \in Loops |-> None],
   loop |-> [l \in Loops |-> [k \in Threads |-> "none"]],
   target |-> [l \in Loops |-> [k \in Threads |-> FALSE]],
   value |-> [l \in Loops |-> FALSE],
   armed |-> FALSE, current |-> None,
   execNum |-> [t \in Timers |-> 0],
   pc |-> [a \in Actors |-> "idle"],
   fresh |-> {}]

PingInit ==
  /\ running = Fresh.running /\ handle = Fresh.handle
  /\ loop = Fresh.loop /\ target = Fresh.target /\ value = Fresh.value
  /\ armed = Fresh.armed /\ current = Fresh.current /\ execNum = Fresh.execNum
  /\ pc = Fresh.pc /\ fresh = Fresh.fresh
  /\ calm = TRUE
  /\ commands = 0

PingRestart ==
  /\ running' = Fresh.running /\ handle' = Fresh.handle
  /\ loop' = Fresh.loop /\ target' = Fresh.target /\ value' = Fresh.value
  /\ armed' = Fresh.armed /\ current' = Fresh.current /\ execNum' = Fresh.execNum
  /\ pc' = Fresh.pc /\ fresh' = Fresh.fresh
  /\ UNCHANGED calm

----------------------------------------------------------------------------
(***************************************************************************)
(* PING's loops                                                            *)
(***************************************************************************)
LoopTop(l, k) ==
  /\ loop[l][k] = "top"
  /\ loop' = [loop EXCEPT ![l][k] = IF l \in running THEN "ping" ELSE "ended"]
  /\ target' = [target EXCEPT ![l][k] = l \in running]
  /\ UNCHANGED <<running, handle, value, armed, current, execNum, pc,
                 fresh, calm, commands>>

\* The command has run.  What its output says is the new value; of an output
\* that says nothing getPingTime makes -1, and getPingLossPacket leaves the
\* loss of before, which may be that of an earlier task's address.  When the
\* output file cannot be opened the loop returns and leaves flag and handle.
LoopMeasured(l, k) ==
  /\ loop[l][k] = "ping"
  /\ \/ /\ loop' = [loop EXCEPT ![l][k] = "top"]
        /\ value' = [value EXCEPT ![l] = target[l][k]]
        /\ fresh' = fresh \cup {l}
     \/ /\ l = "loss"
        /\ loop' = [loop EXCEPT ![l][k] = "top"]
        /\ UNCHANGED <<value, fresh>>
     \/ /\ loop' = [loop EXCEPT ![l][k] = "ended"]
        /\ UNCHANGED <<value, fresh>>
  /\ target' = [target EXCEPT ![l][k] = FALSE]
  /\ UNCHANGED <<running, handle, armed, current, execNum, pc,
                 calm, commands>>

----------------------------------------------------------------------------
(***************************************************************************)
(* PING::stop, inside of actor a                                           *)
(***************************************************************************)
\* A timer thread whose generation has passed leaves Timer::start's loop.
AfterTick(t) == IF current = t THEN "sleep" ELSE "idle"
AfterStop(a) == IF a = Handler THEN "idle" ELSE AfterTick(a)

\* The join that comes after the flags, and the one after a join of l.
AfterFlags(a, h) ==
  CASE h["time"] # None -> "time"
    [] h["time"] = None /\ h["loss"] # None -> "loss"
    [] OTHER -> AfterStop(a)
AfterJoin(a, l, h) ==
  IF l = "time" /\ h["loss"] # None THEN "loss" ELSE AfterStop(a)

\* A thread may be joined once: the second join throws, and nothing catches.
JoinClash(a, p) == p \in Loops /\ \E b \in Actors \ {a} : pc[b] = p

\* m_pingLossRunning first, m_pingTimeRunning next: start may come between.
StopLoss(a) ==
  /\ pc[a] = "flags"
  /\ running' = running \ {"loss"}
  /\ pc' = [pc EXCEPT ![a] = "flag"]
  /\ UNCHANGED <<handle, loop, target, value, armed, current, execNum,
                 fresh, calm, commands>>

BugStopFlags(a) ==
  LET next == AfterFlags(a, handle) IN
  /\ pc[a] = "flag"
  /\ ~JoinClash(a, next)
  /\ pc' = [pc EXCEPT ![a] = next]
  /\ UNCHANGED <<running, handle, loop, target, value, armed, current,
                 execNum, fresh, calm, commands>>

StopFlags(a) ==
  LET next == AfterFlags(a, handle) IN
  /\ pc[a] = "flag"
  /\ ~JoinClash(a, next)
  /\ running' = running \ {"time"}
  /\ pc' = [pc EXCEPT ![a] = next]
  /\ UNCHANGED <<handle, loop, target, value, armed, current, execNum,
                 fresh, calm, commands>>

\* The loop has ended: join returns and the handle is reset.
BugJoined(a, l) ==
  /\ pc[a] = l
  /\ handle' = [handle EXCEPT ![l] = None]
  /\ pc' = [pc EXCEPT ![a] = AfterJoin(a, l, handle')]
  /\ ~JoinClash(a, pc'[a])
  /\ UNCHANGED <<running, loop, target, value, armed, current, execNum,
                 fresh, calm, commands>>

Joined(a, l) ==
  LET h == [handle EXCEPT ![l] = None]
      next == AfterJoin(a, l, h)
  IN
  /\ pc[a] = l
  /\ loop[l][handle[l]] = "ended"
  /\ ~JoinClash(a, next)
  /\ loop' = [loop EXCEPT ![l][handle[l]] = "none"]
  /\ handle' = h
  /\ pc' = [pc EXCEPT ![a] = next]
  /\ UNCHANGED <<running, target, value, armed, current, execNum,
                 fresh, calm, commands>>

\* The actor is about to join what another one is joining.
SecondJoin(a) ==
  \/ pc[a] = "flag" /\ JoinClash(a, AfterFlags(a, handle))
  \/ /\ pc[a] = "time"
     /\ loop["time"][handle["time"]] = "ended"
     /\ JoinClash(a, AfterJoin(a, "time", handle))

----------------------------------------------------------------------------
(***************************************************************************)
(* The task on m_timerPing                                                 *)
(***************************************************************************)
Wake(t) ==
  /\ pc[t] = "sleep"
  /\ pc' = [pc EXCEPT ![t] = IF current = t THEN "report" ELSE "idle"]
  /\ execNum' = IF current = t THEN execNum ELSE [execNum EXCEPT ![t] = 0]
  /\ UNCHANGED <<running, handle, loop, target, value, armed, current,
                 fresh, calm, commands>>

\* pingSendMsg, and the count of executions.
Report(t) ==
  LET left == execNum[t] - 1
      next == IF left = 0 THEN "last" ELSE AfterTick(t)
  IN
  /\ pc[t] = "report"
  /\ execNum' = [execNum EXCEPT ![t] = IF next = "sleep" THEN left ELSE 0]
  /\ pc' = [pc EXCEPT ![t] = next]
  /\ UNCHANGED <<running, handle, loop, target, value, armed, current,
                 fresh, calm, commands>>

\* m_timerPing.stop() of the last execution; PING::stop follows.
BugLastReport(t) ==
  /\ pc[t] = "last"
  /\ armed' = FALSE
  /\ current' = None
  /\ pc' = [pc EXCEPT ![t] = "idle"]
  /\ UNCHANGED <<running, handle, loop, target, value, execNum, fresh,
                 calm, commands>>

LastReport(t) ==
  /\ pc[t] = "last"
  /\ armed' = FALSE
  /\ current' = None
  /\ pc' = [pc EXCEPT ![t] = "flags"]
  /\ UNCHANGED <<running, handle, loop, target, value, execNum, fresh,
                 calm, commands>>

----------------------------------------------------------------------------
(***************************************************************************)
(* Commands of the platform (vwiseProccessTaskMgrHandle)                   *)
(***************************************************************************)
Command ==
  /\ pc[Handler] = "idle"
  /\ commands < MaxCommands
  /\ commands' = commands + 1
  /\ calm' = (calm /\ \A t \in Timers : pc[t] \in {"idle", "sleep"})

\* PING::start up to the first flag, for another address.  What was measured,
\* and what is being measured, is of the address before.
StartTask ==
  /\ Command
  /\ running = {}
  /\ running' = {"loss"}
  /\ target' = [l \in Loops |-> [k \in Threads |-> FALSE]]
  /\ value' = [l \in Loops |-> FALSE]
  /\ fresh' = {}
  /\ pc' = [pc EXCEPT ![Handler] = "started"]
  /\ UNCHANGED <<handle, loop, armed, current, execNum>>

\* The other flag.
StartTime ==
  /\ pc[Handler] = "started"
  /\ running' = running \cup {"time"}
  /\ pc' = [pc EXCEPT ![Handler] = "threads"]
  /\ UNCHANGED <<handle, loop, target, value, armed, current, execNum,
                 fresh, calm, commands>>

\* A start with no address or for another kind of task, a start while a task
\* runs, and a stop while none does change nothing, and so does a text that is
\* no JSON.  Of a JSON text that is no object, AgentOnline!Abort.
IgnoreCommand ==
  /\ pc[Handler] = "idle"
  /\ UNCHANGED pingVars

\* The rest of PING::start: a thread for each handle that is null.
StartThreads ==
  LET new == {l \in Loops : handle[l] = None}
      free(l) == CHOOSE k \in Threads : loop[l][k] = "none"
  IN
  /\ pc[Handler] = "threads"
  /\ \A l \in new : \E k \in Threads : loop[l][k] = "none"
  /\ handle' = [l \in Loops |-> IF l \in new THEN free(l) ELSE handle[l]]
  /\ loop' = [l \in Loops |-> [k \in Threads |->
                IF l \in new /\ k = free(l) THEN "top" ELSE loop[l][k]]]
  /\ pc' = [pc EXCEPT ![Handler] = "arm"]
  /\ UNCHANGED <<running, target, value, armed, current, execNum,
                 fresh, calm, commands>>

\* m_timerPing.start, which does nothing while the timer is started.
StartTimer ==
  /\ pc[Handler] = "arm"
  /\ \/ /\ armed
        /\ pc' = [pc EXCEPT ![Handler] = "idle"]
        /\ UNCHANGED <<armed, current, execNum>>
     \/ \E t \in Timers, n \in 1..MaxExec :
          /\ ~armed
          /\ pc[t] = "idle"
          /\ armed' = TRUE
          /\ current' = t
          /\ execNum' = [execNum EXCEPT ![t] = n]
          /\ pc' = [pc EXCEPT ![t] = "sleep", ![Handler] = "idle"]
  /\ UNCHANGED <<running, handle, loop, target, value, fresh,
                 calm, commands>>

\* m_timerPing.stop() of a stop command; PING::stop follows.
StopTask ==
  /\ Command
  /\ running # {}
  /\ armed' = FALSE
  /\ current' = None
  /\ pc' = [pc EXCEPT ![Handler] = "flags"]
  /\ UNCHANGED <<running, handle, loop, target, value, execNum, fresh>>

----------------------------------------------------------------------------
Receive == IgnoreCommand \/ StartTask \/ StopTask

HandlerStep ==
  \/ StartTime
  \/ StartThreads
  \/ StartTimer
  \/ StopLoss(Handler)
  \/ StopFlags(Handler)
  \/ \E l \in Loops : Joined(Handler, l)

TimerStep(t) ==
  \/ Wake(t)
  \/ Report(t)
  \/ LastReport(t)
  \/ StopLoss(t)
  \/ StopFlags(t)
  \/ \E l \in Loops : Joined(t, l)

LoopStep(l, k) == LoopTop(l, k) \/ LoopMeasured(l, k)

DoubleJoin == \E a \in Actors : SecondJoin(a)

PingStep ==
  \/ HandlerStep
  \/ \E t \in Timers : TimerStep(t)
  \/ \E l \in Loops, k \in Threads : LoopStep(l, k)
=============================================================================
