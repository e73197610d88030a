--------------------------- MODULE MqttConnection ---------------------------
(***************************************************************************)
(* The connection to the platform (src/mqtt_async_app.cpp): the agent does *)
(* not use the library's automatic reconnection but makes each attempt     *)
(* from the callback of the previous one.  The library, whose own lines    *)
(* are in src/third_party/mqtt, calls the callbacks one at a time, in the  *)
(* order of the events.                                                    *)
(***************************************************************************)
EXTENDS Naturals, Sequences

CONSTANTS
  Topics,     \* broker.topics
  MaxOutages, \* bound: times the broker becomes unreachable
  MaxRefusals \* bound: calls and subscriptions that are not accepted

ASSUME MqttAssumption ==
  /\ MaxOutages \in Nat
  /\ MaxRefusals \in Nat

VARIABLES
  scheme,   \* does the library know the scheme of broker.address?
  net,      \* is the broker reachable?
  conn,     \* the client: "none" before start, "null", "off", "connecting", "on"
  events,   \* callbacks that are due, in order
  asked,    \* subscriptions that the broker has not answered
  subs,     \* subscriptions of the session (cleansession = 1)
  refused,  \* topics that the library or the broker would not subscribe
  gaveUp,   \* a connection attempt could not be started
  outages,
  refusals

mqttVars == <<scheme, net, conn, events, asked, subs, refused, gaveUp, outages,
              refusals>>

MqttTypeOK ==
  /\ scheme \in BOOLEAN
  /\ net \in BOOLEAN
  /\ conn \in {"none", "null", "off", "connecting", "on"}
  /\ events \in Seq({"success", "failure", "lost"}) /\ Len(events) <= 2
  /\ asked \subseteq Topics
  /\ subs \subseteq Topics
  /\ refused \subseteq Topics
  /\ gaveUp \in BOOLEAN
  /\ outages \in 0..MaxOutages
  /\ refusals \in 0..MaxRefusals

\* The address is whatever the configuration file says.
MqttInit ==
  /\ scheme \in BOOLEAN
  /\ net = TRUE
  /\ conn = "none"
  /\ events = <<>>
  /\ asked = {}
  /\ subs = {}
  /\ refused = {}
  /\ gaveUp = FALSE
  /\ outages = 0
  /\ refusals = 0

----------------------------------------------------------------------------
\* MQTTAsync_connect.  That it is not accepted is only logged.
Connect ==
  \/ /\ conn' = "connecting"
     /\ UNCHANGED <<gaveUp, refusals>>
  \/ /\ refusals < MaxRefusals
     /\ refusals' = refusals + 1
     /\ conn' = "off"
     /\ gaveUp' = TRUE

\* MQTTAPP::start.  That MQTTAsync_create fails is logged and no more, and
\* start goes on with a null handle.
StartClient ==
  /\ conn = "none"
  /\ \/ scheme /\ Connect
     \/ /\ ~scheme
        /\ conn' = "null"
        /\ UNCHANGED <<gaveUp, refusals>>
  /\ UNCHANGED <<scheme, net, events, asked, subs, refused, outages>>

\* A callback that leaves the client without a new attempt.
BugOnConnectFailure ==
  /\ events # <<>> /\ Head(events) = "failure"
  /\ events' = Tail(events)
  /\ UNCHANGED <<scheme, net, conn, asked, subs, refused, gaveUp, outages,
                 refusals>>

\* After two seconds, which the callback sleeps.
OnConnectFailure ==
  /\ events # <<>> /\ Head(events) = "failure"
  /\ events' = Tail(events)
  /\ Connect
  /\ UNCHANGED <<scheme, net, asked, subs, refused, outages>>

ConnLost ==
  /\ events # <<>> /\ Head(events) = "lost"
  /\ events' = Tail(events)
  /\ Connect
  /\ UNCHANGED <<scheme, net, asked, subs, refused, outages>>

\* A subscription for each topic, once: what the library does not accept is
\* not tried again.
BugOnConnectSuccess ==
  /\ events # <<>> /\ Head(events) = "success"
  /\ events' = Tail(events)
  /\ asked' = IF outages = 0 THEN Topics ELSE asked
  /\ UNCHANGED <<scheme, net, conn, subs, refused, gaveUp, outages, refusals>>

OnConnectSuccess ==
  /\ events # <<>> /\ Head(events) = "success"
  /\ events' = Tail(events)
  /\ \/ /\ conn = "on"
        /\ asked' = Topics
        /\ UNCHANGED <<refused, refusals>>
     \/ /\ refusals < MaxRefusals
        /\ refusals' = refusals + 1
        /\ \E t \in Topics : refused' = {t} /\ asked' = Topics \ {t}
        /\ conn = "on"
     \/ /\ conn # "on"
        /\ UNCHANGED <<asked, refused, refusals>>
  /\ UNCHANGED <<scheme, net, conn, subs, gaveUp, outages>>

----------------------------------------------------------------------------
(***************************************************************************)
(* The library and the network                                             *)
(***************************************************************************)
Accepted ==
  /\ conn = "connecting" /\ net
  /\ conn' = "on"
  /\ events' = Append(events, "success")
  /\ UNCHANGED <<scheme, net, asked, subs, refused, gaveUp, outages, refusals>>

Refused ==
  /\ conn = "connecting" /\ ~net
  /\ conn' = "off"
  /\ events' = Append(events, "failure")
  /\ UNCHANGED <<scheme, net, asked, subs, refused, gaveUp, outages, refusals>>

\* The broker's SUBACK.  onSubscribeFailure writes no log line even, and the
\* topic is not asked for again in this session.
Suback(t) ==
  /\ conn = "on" /\ net
  /\ t \in asked
  /\ asked' = asked \ {t}
  /\ \/ /\ subs' = subs \cup {t}
        /\ UNCHANGED <<refused, refusals>>
     \/ /\ refusals < MaxRefusals
        /\ refusals' = refusals + 1
        /\ refused' = refused \cup {t}
        /\ UNCHANGED subs
  /\ UNCHANGED <<scheme, net, conn, events, gaveUp, outages>>

Outage ==
  /\ net /\ outages < MaxOutages
  /\ net' = FALSE
  /\ outages' = outages + 1
  /\ UNCHANGED <<scheme, conn, events, asked, subs, refused, gaveUp, refusals>>

BackUp ==
  /\ ~net
  /\ net' = TRUE
  /\ UNCHANGED <<scheme, conn, events, asked, subs, refused, gaveUp, outages,
                 refusals>>

\* The session ends, with its subscriptions and those that were asked for.
Lose ==
  /\ conn = "on" /\ ~net
  /\ conn' = "off"
  /\ events' = Append(events, "lost")
  /\ asked' = {}
  /\ subs' = {}
  /\ refused' = {}
  /\ UNCHANGED <<scheme, net, gaveUp, outages, refusals>>

\* The process comes up again.
MqttRestart ==
  /\ conn' = "none"
  /\ events' = <<>>
  /\ asked' = {}
  /\ subs' = {}
  /\ refused' = {}
  /\ gaveUp' = FALSE
  /\ UNCHANGED <<scheme, net, outages, refusals>>

Callback == OnConnectSuccess \/ OnConnectFailure \/ ConnLost
Network ==
  \/ Accepted
  \/ Refused
  \/ \E t \in Topics : Suback(t)
  \/ Outage
  \/ BackUp
  \/ Lose
=============================================================================
