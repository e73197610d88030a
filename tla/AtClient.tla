------------------------------ MODULE AtClient ------------------------------
(***************************************************************************)
(* The AT channel to the cellular module (boards/rpi/rpi_at_client.cpp and *)
(* the UrcDispatcher of rpi_urc.cpp).  Threads that call command() share   *)
(* one slot; a reader thread sorts the lines of the serial port into       *)
(* answers and unsolicited lines (URCs); a worker thread runs the URC      *)
(* handlers, which may call command() themselves; the main thread connects *)
(* and disconnects.                                                        *)
(*                                                                         *)
(* A command is a query, whose answer has the prefix of a registered URC   *)
(* (AT+CEREG? and its like), or plain.  One prefix stands for the family.  *)
(* The module answers a command with one data line and a final result.     *)
(***************************************************************************)
EXTENDS Naturals, Sequences

CONSTANTS
  Callers,     \* threads that call command()
  Main,        \* the thread that connects and disconnects
  Worker,      \* UrcDispatcher's worker
  LogCap,      \* kUrcLogCap
  Queries,     \* the values of "is a query" that commands have
  MaxCalls,    \* bound: calls of command()
  MaxUrcs,     \* bound: unsolicited lines
  MaxSessions, \* bound: calls of connect()
  Timeouts,    \* may a command time out?
  WriteErrors, \* may writing to the port fail?
  Prompt       \* does a caller that disconnect woke return before its last step?

ASSUME AtAssumption ==
  /\ Main \in Callers
  /\ Worker \in Callers
  /\ Main # Worker
  /\ LogCap \in Nat \ {0}
  /\ Queries \subseteq BOOLEAN
  /\ MaxCalls \in Nat
  /\ MaxUrcs \in Nat
  /\ MaxSessions \in Nat
  /\ Timeouts \in BOOLEAN
  /\ WriteErrors \in BOOLEAN
  /\ Prompt \in BOOLEAN

VARIABLES
  ctl,       \* where the main thread is in connect() or disconnect()
  port,      \* is port_ open?
  reading,   \* reading_
  reader,    \* the reader thread, with the line it holds
  running,   \* UrcDispatcher::running_
  worker,    \* the worker thread
  queue,     \* UrcDispatcher::queue_
  log,       \* urc_log_
  caller,    \* each thread in command(), with the number of its call
  pending,   \* pending_
  lastCmd,   \* last_cmd_
  inFlight,  \* cmd_in_flight_
  shutting,  \* shutting_down_
  wire,      \* lines on their way from the module
  todo,      \* commands the module has not answered
  calls,     \* number of calls so far
  urcs,      \* number of unsolicited lines so far
  sessions   \* number of connects so far

slot == <<pending, lastCmd, inFlight, shutting>>
threads == <<reader, worker, caller>>
module == <<wire, todo, urcs>>
bounds == <<calls, sessions>>
vars == <<ctl, port, reading, running, queue, log, slot, threads, module, bounds>>

Ids == 1..MaxCalls
Lines == [kind : {"data", "reg", "final"}, of : 0..MaxCalls]
NoLine == [kind |-> "none", of |-> 0]

Idle == [pc |-> "idle", id |-> 0, query |-> FALSE]
NoPending == [id |-> 0, query |-> FALSE, done |-> FALSE, by |-> 0, lines |-> {}, clean |-> TRUE]

TypeOK ==
  /\ ctl \in {"closed", "opened", "started", "handshake", "up",
              "shut", "wake", "joinReader", "stopUrc", "joinWorker", "reset", "close"}
  /\ port \in BOOLEAN /\ reading \in BOOLEAN /\ running \in BOOLEAN
  /\ reader \in [pc : {"off", "read", "log", "dispatch", "buffer", "exited"},
                 line : Lines \cup {NoLine}]
  /\ worker \in {"off", "wait", "handle", "exited"}
  /\ queue \in Seq(Lines)
  /\ log \in Seq(Lines) /\ Len(log) <= LogCap
  /\ caller \in [Callers -> [pc : {"idle", "serial", "write", "wait"}, id : 0..MaxCalls, query : BOOLEAN]]
  /\ pending \in {NoPending} \cup
       [id : Ids, query : BOOLEAN, done : BOOLEAN, by : 0..MaxCalls,
        lines : SUBSET Lines, clean : BOOLEAN]
  /\ lastCmd \in {"none", "plain", "query"}
  /\ inFlight \in BOOLEAN /\ shutting \in BOOLEAN
  /\ wire \in Seq(Lines)
  /\ todo \in Seq([id : Ids, query : BOOLEAN, said : BOOLEAN])
  /\ calls \in 0..MaxCalls
  /\ urcs \in 0..MaxUrcs
  /\ sessions \in 0..MaxSessions

Init ==
  /\ ctl = "closed"
  /\ port = FALSE /\ reading = FALSE /\ running = FALSE
  /\ reader = [pc |-> "off", line |-> NoLine]
  /\ worker = "off"
  /\ queue = <<>>
  /\ log = <<>>
  /\ caller = [c \in Callers |-> Idle]
  /\ pending = NoPending
  /\ lastCmd = "none"
  /\ inFlight = FALSE /\ shutting = FALSE
  /\ wire = <<>> /\ todo = <<>>
  /\ calls = 0 /\ urcs = 0 /\ sessions = 0

-----------------------------------------------------------------------------
(* command() *)

Enter(c, query) ==
  /\ caller[c].pc = "idle"
  /\ port
  /\ calls < MaxCalls
  /\ calls' = calls + 1
  /\ caller' = [caller EXCEPT ![c] = [pc |-> "serial", id |-> calls', query |-> query]]
  /\ UNCHANGED <<port, reading, running, queue, log, slot, reader, worker, module,
                 sessions>>

\* The worker calls inside a handler, the other threads at any time, main for
\* the handshake (SendAte0).  A call on a closed port returns at once.
Call(c) ==
  /\ c # Main
  /\ c = Worker => worker = "handle"
  /\ \E query \in Queries : Enter(c, query)
  /\ UNCHANGED ctl

\* Nothing of the answer to an earlier command is still to come, the line
\* included that the reader has counted to it and not buffered yet.
NothingLeft ==
  /\ todo = <<>>
  /\ \A i \in DOMAIN wire : wire[i].of = 0
  /\ reader.line.of = 0 /\ reader.pc # "buffer"

\* The slot is free: a new PendingCmd (clean: a history for the properties).
TakeSlot(c) ==
  /\ caller[c].pc = "serial"
  /\ ~ inFlight
  /\ ~ shutting
  /\ pending' = [NoPending EXCEPT !.id = caller[c].id, !.query = caller[c].query,
                                  !.clean = NothingLeft]
  /\ lastCmd' = IF caller[c].query THEN "query" ELSE "plain"
  /\ inFlight' = TRUE
  /\ caller' = [caller EXCEPT ![c].pc = "write"]
  /\ UNCHANGED <<ctl, port, reading, running, queue, log, shutting, reader, worker, module,
                 bounds>>

\* Woken by a disconnect while waiting for the slot.
GiveUpSlot(c) ==
  /\ caller[c].pc = "serial"
  /\ shutting
  /\ caller' = [caller EXCEPT ![c] = Idle]
  /\ UNCHANGED <<ctl, port, reading, running, queue, log, slot, reader, worker, module,
                 bounds>>

\* Mutant: the slot is free again once the command is written.
BugWrite(c) ==
  /\ caller[c].pc = "write"
  /\ port
  /\ todo' = Append(todo, [id |-> caller[c].id, query |-> caller[c].query, said |-> FALSE])
  /\ inFlight' = FALSE
  /\ caller' = [caller EXCEPT ![c].pc = "wait"]
  /\ UNCHANGED <<ctl, port, reading, running, queue, log, pending, lastCmd, shutting,
                 reader, worker, wire, urcs, bounds>>

\* The module gets the command.
Write(c) ==
  /\ caller[c].pc = "write"
  /\ port
  /\ todo' = Append(todo, [id |-> caller[c].id, query |-> caller[c].query, said |-> FALSE])
  /\ caller' = [caller EXCEPT ![c].pc = "wait"]
  /\ UNCHANGED <<ctl, port, reading, running, queue, log, slot, reader, worker, wire, urcs,
                 bounds>>

\* The end of command(): pending_ is reset and the slot released.
Release(c) ==
  /\ pending' = NoPending
  /\ inFlight' = FALSE
  /\ caller' = [caller EXCEPT ![c] = Idle]
  /\ UNCHANGED <<ctl, port, reading, running, queue, log, lastCmd, shutting, reader, worker,
                 module, bounds>>

WriteFails(c) ==
  /\ caller[c].pc = "write"
  /\ WriteErrors \/ ~ port
  /\ Release(c)

\* wait_for ends because the answer is complete, or at a disconnect.
Return(c) ==
  /\ caller[c].pc = "wait"
  /\ pending # NoPending
  /\ pending.done \/ shutting
  /\ Release(c)

\* Mutant: the slot is only released after an answer.
BugTimeOut(c) ==
  /\ Timeouts
  /\ caller[c].pc = "wait"
  /\ pending # NoPending
  /\ ~ pending.done
  /\ pending' = NoPending
  /\ caller' = [caller EXCEPT ![c] = Idle]
  /\ UNCHANGED <<ctl, port, reading, running, queue, log, lastCmd, inFlight, shutting,
                 reader, worker, module, bounds>>

\* ... or because the time is up.
TimeOut(c) ==
  /\ Timeouts
  /\ caller[c].pc = "wait"
  /\ pending # NoPending
  /\ ~ pending.done
  /\ Release(c)

\* pending_->cv and pending_->done with a null pending_: the process is gone,
\* and what was typed to the module stays.
Segfault(c) ==
  /\ caller[c].pc = "wait"
  /\ pending = NoPending
  /\ ctl' = "closed"
  /\ port' = FALSE /\ reading' = FALSE /\ running' = FALSE
  /\ reader' = [pc |-> "off", line |-> NoLine]
  /\ worker' = "off"
  /\ queue' = <<>> /\ log' = <<>> /\ wire' = <<>>
  /\ caller' = [d \in Callers |-> Idle]
  /\ lastCmd' = "none"
  /\ inFlight' = FALSE /\ shutting' = FALSE
  /\ UNCHANGED <<pending, todo, urcs, bounds>>

-----------------------------------------------------------------------------
(* reader_loop *)

\* A line is handled although reading_ is false when its chunk was read before.
Next1 == Head(wire)

Read == reader.pc = "read" /\ wire # <<>> /\ wire' = Tail(wire)

readerOnly == <<ctl, port, reading, running, lastCmd, inFlight, shutting, worker, caller,
                todo, urcs, bounds>>

\* 1) A final result completes the pending command.
ReadFinal ==
  /\ Read
  /\ Next1.kind = "final"
  /\ pending' = IF pending = NoPending THEN pending
                ELSE [pending EXCEPT !.done = TRUE, !.by = Next1.of]
  /\ UNCHANGED <<readerOnly, reader, queue, log>>

\* Mutant: a query that is in flight makes no difference.
BugCollides == FALSE

\* isCollidingResponseLine
Collides == pending # NoPending /\ ~ pending.done /\ lastCmd = "query"

\* 2) A line with the prefix of a URC is one, unless such a query is in flight.
ReadReg ==
  /\ Read
  /\ Next1.kind = "reg"
  /\ reader' = [pc |-> IF Collides THEN "buffer" ELSE "log", line |-> Next1]
  /\ UNCHANGED <<readerOnly, pending, queue, log>>

LogUrc ==
  /\ reader.pc = "log"
  /\ log' = Append(IF Len(log) >= LogCap THEN Tail(log) ELSE log, reader.line)
  /\ reader' = [reader EXCEPT !.pc = "dispatch"]
  /\ UNCHANGED <<readerOnly, pending, queue, wire>>

\* UrcDispatcher::dispatch, which drops the line when the worker has stopped.
Dispatch ==
  /\ reader.pc = "dispatch"
  /\ queue' = IF running THEN Append(queue, reader.line) ELSE queue
  /\ reader' = [pc |-> "read", line |-> NoLine]
  /\ UNCHANGED <<readerOnly, pending, log, wire>>

\* 4) Any other line belongs to the pending command, if there is one.
Keep(line) ==
  pending' = IF pending = NoPending THEN pending
             ELSE [pending EXCEPT !.lines = @ \cup {line}]

ReadData ==
  /\ Read
  /\ Next1.kind = "data"
  /\ Keep(Next1)
  /\ UNCHANGED <<readerOnly, reader, queue, log>>

Buffer ==
  /\ reader.pc = "buffer"
  /\ Keep(reader.line)
  /\ reader' = [pc |-> "read", line |-> NoLine]
  /\ UNCHANGED <<readerOnly, queue, log, wire>>

ReaderExit ==
  /\ reader.pc = "read"
  /\ ~ reading
  /\ reader' = [reader EXCEPT !.pc = "exited"]
  /\ UNCHANGED <<readerOnly, pending, queue, log, wire>>

ReaderStep ==
  ReadFinal \/ ReadReg \/ LogUrc \/ Dispatch \/ ReadData \/ Buffer \/ ReaderExit

-----------------------------------------------------------------------------
(* UrcDispatcher::worker_loop, and drain_urc_log *)

workerOnly == <<ctl, port, reading, running, slot, reader, caller, module, bounds, log>>

TakeUrc ==
  /\ worker = "wait"
  /\ queue # <<>>
  /\ queue' = Tail(queue)
  /\ worker' = "handle"
  /\ UNCHANGED workerOnly

\* The handlers of the line have returned.
HandledUrc ==
  /\ worker = "handle"
  /\ caller[Worker].pc = "idle"
  /\ worker' = "wait"
  /\ UNCHANGED <<workerOnly, queue>>

\* Mutant: the worker waits for lines only.
BugWorkerExit ==
  /\ worker = "wait"
  /\ ~ running
  /\ queue # <<>>
  /\ worker' = "exited"
  /\ UNCHANGED <<workerOnly, queue>>

WorkerExit ==
  /\ worker = "wait"
  /\ ~ running
  /\ queue = <<>>
  /\ worker' = "exited"
  /\ UNCHANGED <<workerOnly, queue>>

\* The collection cycle takes the log.
DrainUrcLog ==
  /\ log # <<>>
  /\ log' = <<>>
  /\ UNCHANGED <<ctl, port, reading, running, slot, threads, module, bounds, queue>>

-----------------------------------------------------------------------------
(* connect() and disconnect(), on the main thread *)

mainOnly == <<caller, todo, urcs, calls, queue, log>>

OpenPort ==
  /\ ctl = "closed"
  /\ sessions < MaxSessions
  /\ sessions' = sessions + 1
  /\ port' = TRUE
  /\ ctl' = "opened"
  /\ UNCHANGED <<mainOnly, reading, running, slot, reader, worker, wire>>

\* urc_.start() and the reader.
StartThreads ==
  /\ ctl = "opened"
  /\ running' = TRUE
  /\ worker' = "wait"
  /\ reading' = TRUE
  /\ reader' = [pc |-> "read", line |-> NoLine]
  /\ ctl' = "started"
  /\ UNCHANGED <<mainOnly, port, sessions, slot, wire>>

SendAte0 ==
  /\ ctl = "started"
  /\ Enter(Main, FALSE)
  /\ ctl' = "handshake"

\* The result of ATE0 is not looked at.
Connected ==
  /\ ctl = "handshake"
  /\ caller[Main].pc = "idle"
  /\ ctl' = "up"
  /\ UNCHANGED <<mainOnly, port, reading, running, sessions, slot, reader, worker, wire>>

Disconnect ==
  /\ ctl = "up"
  /\ reading' = FALSE
  /\ ctl' = "wake"
  /\ UNCHANGED <<mainOnly, port, running, sessions, slot, reader, worker, wire>>

\* 1) Every blocked caller is woken.
Wake ==
  /\ ctl = "wake"
  /\ shutting' = TRUE
  /\ pending' = IF pending = NoPending THEN pending
                ELSE [pending EXCEPT !.done = TRUE, !.by = 0]
  /\ inFlight' = FALSE
  /\ ctl' = "joinReader"
  /\ UNCHANGED <<mainOnly, port, reading, running, sessions, lastCmd, reader, worker, wire>>

\* Mutant: the reader is not waited for.
BugJoinReader ==
  /\ ctl = "joinReader"
  /\ ctl' = "stopUrc"
  /\ UNCHANGED <<mainOnly, port, reading, running, sessions, slot, reader, worker, wire>>

\* 2)
JoinReader ==
  /\ ctl = "joinReader"
  /\ reader.pc = "exited"
  /\ reader' = [pc |-> "off", line |-> NoLine]
  /\ ctl' = "stopUrc"
  /\ UNCHANGED <<mainOnly, port, reading, running, sessions, slot, worker, wire>>

\* 3)
StopUrc ==
  /\ ctl = "stopUrc"
  /\ running' = FALSE
  /\ ctl' = "joinWorker"
  /\ UNCHANGED <<mainOnly, port, reading, sessions, slot, reader, worker, wire>>

JoinWorker ==
  /\ ctl = "joinWorker"
  /\ worker = "exited"
  /\ worker' = "off"
  /\ ctl' = "reset"
  /\ UNCHANGED <<mainOnly, port, reading, running, sessions, slot, reader, wire>>

\* 4) Nothing makes sure that the callers woken in 1) have returned.
Reset ==
  /\ ctl = "reset"
  /\ Prompt => \A c \in Callers : caller[c].pc = "idle"
  /\ pending' = NoPending
  /\ lastCmd' = "none"
  /\ shutting' = FALSE
  /\ ctl' = "close"
  /\ UNCHANGED <<mainOnly, port, reading, running, sessions, inFlight, reader, worker, wire>>

ClosePort ==
  /\ ctl = "close"
  /\ port' = FALSE
  /\ wire' = <<>>
  /\ pending' = IF pending = NoPending THEN pending ELSE [pending EXCEPT !.clean = FALSE]
  /\ ctl' = "closed"
  /\ UNCHANGED <<mainOnly, reading, running, sessions, lastCmd, inFlight, shutting, reader,
                 worker>>

-----------------------------------------------------------------------------
(* The module and the serial line *)

modemOnly == <<ctl, port, reading, running, queue, log, slot, threads, bounds>>

Send(line) == wire' = IF port THEN Append(wire, line) ELSE wire

SayData ==
  /\ todo # <<>>
  /\ ~ Head(todo).said
  /\ Send([kind |-> IF Head(todo).query THEN "reg" ELSE "data", of |-> Head(todo).id])
  /\ todo' = [todo EXCEPT ![1].said = TRUE]
  /\ UNCHANGED <<modemOnly, urcs>>

SayFinal ==
  /\ todo # <<>>
  /\ Head(todo).said
  /\ Send([kind |-> "final", of |-> Head(todo).id])
  /\ todo' = Tail(todo)
  /\ UNCHANGED <<modemOnly, urcs>>

\* Without time limits the module answers everything.
SayNothing ==
  /\ Timeouts
  /\ todo # <<>>
  /\ todo' = Tail(todo)
  /\ UNCHANGED <<modemOnly, urcs, wire>>

SayUrc ==
  /\ port
  /\ urcs < MaxUrcs
  /\ urcs' = urcs + 1
  /\ Send([kind |-> "reg", of |-> 0])
  /\ UNCHANGED <<modemOnly, todo>>

-----------------------------------------------------------------------------

CallStep(c) ==
  \/ TakeSlot(c) \/ GiveUpSlot(c) \/ Write(c) \/ WriteFails(c)
  \/ Return(c) \/ TimeOut(c) \/ Segfault(c)

WorkerStep == TakeUrc \/ HandledUrc \/ WorkerExit

Opening == StartThreads \/ SendAte0 \/ Connected

Closing == Wake \/ JoinReader \/ StopUrc \/ JoinWorker \/ Reset \/ ClosePort

ModuleStep == SayData \/ SayFinal \/ SayNothing

Next ==
  \/ \E c \in Callers : Call(c) \/ CallStep(c)
  \/ ReaderStep \/ WorkerStep \/ DrainUrcLog
  \/ OpenPort \/ Opening \/ Disconnect \/ Closing
  \/ ModuleStep \/ SayUrc

Spec == Init /\ [][Next]_vars

-----------------------------------------------------------------------------
(* Properties *)

Holds(c) == caller[c].pc \in {"write", "wait"}

\* At most one command is in flight, pending_ is that command's, and the slot
\* is taken for as long as it lasts ("绝不会覆盖前者的 PendingCmd").  A disconnect
\* releases the slot before the command that it wakes returns.
SlotExclusive ==
  \A c \in Callers : Holds(c) =>
    /\ \A d \in Callers : Holds(d) => c = d
    /\ pending.id = caller[c].id
    /\ inFlight \/ shutting

\* A command that found nothing left of an earlier answer when it took the
\* slot is completed by its own final result, with its own data line; no line
\* of another command is in its answer, and an unsolicited line only where its
\* prefix was asked for.  (A time-out leaves the rest of an answer behind; a
\* command that a disconnect has woken may get an answer that is not whole.)
RightAnswer ==
  pending.clean =>
    /\ reading /\ pending.by # 0 =>
         /\ pending.by = pending.id
         /\ [kind |-> IF pending.query THEN "reg" ELSE "data", of |-> pending.id] \in pending.lines
    /\ \A line \in pending.lines :
         line.of = pending.id \/ (line.of = 0 /\ pending.query)

\* The answer of such a command is never taken for an unsolicited line.
AnswerNotSwallowed ==
  reading /\ pending.clean /\ reader.pc \in {"log", "dispatch"} =>
    reader.line.of = 0 \/ reader.line.of # pending.id

\* The dispatcher runs for as long as the reader may have lines for it: no
\* unsolicited line is dropped by dispatch().
NoUrcDropped == reader.pc \in {"read", "log", "dispatch"} => running

-----------------------------------------------------------------------------
(* What docs of the code say of situations the runs above leave out *)

\* URC框架说明.md section 4.1: an unsolicited line never gets into an answer.
UrcNotInAnswer == \A line \in pending.lines : line.of # 0

\* section 4.4: a caller that waits does not crash in disconnect().
WaiterHasPending == \A c \in Callers : caller[c].pc = "wait" => pending # NoPending

-----------------------------------------------------------------------------
(* Liveness *)

\* Threads go on, the wait for an answer is limited; the module owes nothing.
AtFairness ==
  /\ \A c \in Callers : WF_vars(CallStep(c))
  /\ WF_vars(ReaderStep)
  /\ WF_vars(WorkerStep)
  /\ WF_vars(Opening)
  /\ WF_vars(Closing)

FairSpec == Spec /\ AtFairness

\* Every command returns, those of handlers that queue behind another thread's
\* command too.
CallReturns == \A c \in Callers : caller[c].pc # "idle" ~> caller[c].pc = "idle"

\* disconnect() returns, whatever callers and handlers are doing.
DisconnectEnds == ctl = "wake" ~> ctl = "closed"

=============================================================================
