---------------------------- MODULE AgentOnline ----------------------------
(***************************************************************************)
(* The agent on the platform's line: the connection (MqttConnection) and   *)
(* the ping task (PingTask).  One thread of the MQTT library calls         *)
(* receiveMsgHandler, which runs the whole command, and the connection's   *)
(* callbacks: while a stop command waits for the loops to end, a lost      *)
(* connection waits too.                                                   *)
(***************************************************************************)
EXTENDS PingTask, MqttConnection

CONSTANT CommandTopic \* /sys/commands

ASSUME OnlineAssumption == CommandTopic \in Topics

VARIABLE retained \* the broker keeps a command that ends the process

vars == <<pingVars, mqttVars, retained>>

TypeOK == PingTypeOK /\ MqttTypeOK /\ retained \in BOOLEAN

Init == PingInit /\ MqttInit /\ retained = FALSE

----------------------------------------------------------------------------
\* The library's thread has a message on a topic that contains a key of
\* handleMap, and no callback to call first.
Listening == conn = "on" /\ events = <<>> /\ CommandTopic \in subs

\* receiveMsgHandler
Deliver ==
  /\ Listening
  /\ Receive
  /\ UNCHANGED <<mqttVars, retained>>

\* The command is a JSON text, no object and not null: j["task_id"] throws,
\* and nothing catches on the library's thread.  A message that the broker
\* retains comes again with every subscription.
Abort ==
  /\ Listening
  /\ pc[Handler] = "idle"
  /\ PingRestart
  /\ MqttRestart
  /\ \/ retained /\ UNCHANGED <<commands, retained>>
     \/ /\ commands < MaxCommands
        /\ commands' = commands + 1
        /\ retained' \in {retained, TRUE}

\* The callbacks of the connection, when the thread is not in a command.
ConnectionCallback ==
  /\ pc[Handler] = "idle"
  /\ Callback
  /\ UNCHANGED <<pingVars, retained>>

\* probeMgrStart, by the main thread.
Start == StartClient /\ UNCHANGED <<pingVars, retained>>

Environment == Network /\ UNCHANGED <<pingVars, retained>>

Ping == PingStep /\ UNCHANGED <<mqttVars, retained>>

\* std::terminate, and the supervisor's restart.
Die == DoubleJoin /\ PingRestart /\ MqttRestart /\ UNCHANGED <<commands, retained>>

\* MQTTAsync_connect, called by MQTTAPP::start, reads through the null handle.
Crash ==
  /\ conn = "null"
  /\ PingRestart
  /\ MqttRestart
  /\ UNCHANGED <<commands, retained>>

Next ==
  \/ Start
  \/ Deliver
  \/ Abort
  \/ ConnectionCallback
  \/ Environment
  \/ Ping
  \/ Die
  \/ Crash

Spec == Init /\ [][Next]_vars

(***************************************************************************)
(* Every thread runs on: a ping command ends within seconds, a timer       *)
(* thread's sleep ends, the library reports the result of an attempt and   *)
(* notices a dead connection.  Nothing is assumed of the platform and of   *)
(* the network.                                                            *)
(***************************************************************************)
Fairness ==
  /\ WF_vars(Start)
  /\ WF_vars(ConnectionCallback)
  /\ WF_vars((Accepted \/ Refused \/ Lose) /\ UNCHANGED <<pingVars, retained>>)
  /\ WF_vars(HandlerStep /\ UNCHANGED <<mqttVars, retained>>)
  /\ \A t \in Timers : WF_vars(TimerStep(t) /\ UNCHANGED <<mqttVars, retained>>)
  /\ \A l \in Loops, k \in Threads :
       WF_vars(LoopStep(l, k) /\ UNCHANGED <<mqttVars, retained>>)
  /\ WF_vars(Die \/ Crash)

FairSpec == Spec /\ Fairness

----------------------------------------------------------------------------
(***************************************************************************)
(* Properties                                                              *)
(***************************************************************************)
\* There is at most one thread in each of PING's loops, although start makes
\* threads and stop gives them up from different threads and without a lock.
OneLoopEach ==
  \A l \in Loops :
    Cardinality({k \in Threads : loop[l][k] \in {"top", "ping"}}) <= 1

\* When commands do not meet a tick of the timer, a report carries for each
\* loop that has found a result since the task was started one that was
\* measured for the task's address, never one for the address of a task
\* before.  (A loop that found nothing yet reports what it has: the loss of
\* the task before, if its pings say nothing.)
FreshReport ==
  [][\A t \in Timers : Report(t) /\ calm => \A l \in fresh : value[l]]_vars

\* A connected client whose callback has run is subscribed, or has asked to be,
\* to every topic but those that the library or the broker refused since then.
HearsTopics ==
  conn = "on" /\ events = <<>> => subs = (Topics \ refused) \ asked

\* The loops do not ping for ever: whatever overlaps, the task's last tick, a
\* stop command or the end of the process stops them.
PingsEnd == running # {} ~> running = {}

\* A command handler that stops a task gets out of PING::stop, although a new
\* task could start the loops again under a join.
HandlerReturns == pc[Handler] # "idle" ~> pc[Handler] = "idle"

\* If the broker stays reachable the agent is connected for good, unless the
\* library refused to start an attempt (then nothing starts another one), the
\* address has a scheme that the library does not know, or the broker retains a
\* command that is JSON and no object: both end every start of the process.
OnlineAgain ==
  <>[]net => <>[](conn = "on" \/ gaveUp \/ ~scheme \/ retained)
=============================================================================
