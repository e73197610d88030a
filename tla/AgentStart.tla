---------------------------- MODULE AgentStart ----------------------------
(***************************************************************************)
(* How the agent comes up: main (src/main.cpp), the configuration          *)
(* (common/global.cpp), the login (src/authenticate.cpp) and               *)
(* ProbeManager::probeMgrStart, with the position (GpsPoller) and the      *)
(* satellite terminal (SatelliteTerminal).  The supervisor starts a        *)
(* process that died again.                                                *)
(*                                                                         *)
(* The client's thread runs from mqtt.start on: commands and, once a       *)
(* command has started the timer, collection cycles may come before        *)
(* probeMgrStart is through.                                               *)
(***************************************************************************)
EXTENDS GpsPoller, SatelliteTerminal

CONSTANTS
  Ic, Device,  \* the types of the answers that main asks for
  MaxQueue,    \* bound: records in the offline cache
  MaxKills     \* bound: ends of the process from outside

ASSUME StartAssumption ==
  /\ {Ic, Device} \subseteq Types
  /\ MaxQueue \in Nat /\ MaxKills \in Nat

VARIABLES
  config,    \* config.json and rw.conf, see Configs
  retained,  \* does the broker retain a command that is JSON and no object?
  auth,      \* AuthEnable
  keys,      \* the private keys on the disk: for signing, for the secret
  cacheOn,   \* OfflineCache.Enable
  server,    \* what the authentication server answers now
  pc,        \* where main is
  module,    \* RPIModuleInterface::m_initialized
  online,    \* is the MQTT client connected?
  timer,     \* is m_timerZD started?
  early,     \* was it started by a command, before probeMgrStart did?
  queue,     \* records in m_offlineCache, of this process
  kills

mainVars == <<config, retained, auth, keys, cacheOn, server, pc, module, online,
              timer, early, queue, kills>>
settings == <<config, retained, auth, keys, cacheOn>>
vars == <<mainVars, atUp, gpsVars, satVars>>

\* "broken": config.json is missing or cannot be parsed; "short": rw.conf
\* has a topic of less than 14 characters; "scheme": its broker address has a
\* scheme that the library was not built for, as ssl://; "missing": there is
\* no rw.conf.
Configs == {"good", "missing", "scheme", "short", "broken"}

\* "odd": success without data; "sealed": with an encryptSecret.
Answers == {"down", "refusing", "odd", "good", "sealed"}

Steps == {"config", "ota", "serial", "satellite", "ic", "device", "wait ic",
          "wait device", "gps", "auth", "pause", "topics", "mqtt", "cache",
          "module", "timer", "run", "down"}

TypeOK ==
  /\ config \in Configs
  /\ retained \in BOOLEAN /\ auth \in BOOLEAN /\ cacheOn \in BOOLEAN
  /\ keys \subseteq {"sign", "secret"}
  /\ server \in Answers
  /\ pc \in Steps
  /\ module \in BOOLEAN /\ online \in BOOLEAN /\ timer \in BOOLEAN /\ early \in BOOLEAN
  /\ queue \in 0..MaxQueue
  /\ kills \in 0..MaxKills
  /\ GpsTypeOK /\ SatTypeOK

Init ==
  /\ config \in Configs
  /\ retained \in (IF config = "good" THEN BOOLEAN ELSE {FALSE})
  /\ auth \in BOOLEAN /\ cacheOn \in BOOLEAN
  /\ keys \in SUBSET {"sign", "secret"}
  /\ server = "down"
  /\ pc = "config"
  /\ module = FALSE /\ online = FALSE /\ timer = FALSE /\ early = FALSE
  /\ queue = 0
  /\ kills = 0
  /\ atUp = FALSE
  /\ GpsInit /\ SatInit

----------------------------------------------------------------------------
(***************************************************************************)
(* The end of the process, and the next one                                *)
(***************************************************************************)
Die ==
  /\ pc' = "down"
  /\ module' = FALSE /\ online' = FALSE /\ timer' = FALSE /\ early' = FALSE
  /\ queue' = 0
  /\ atUp' = FALSE
  /\ GpsFresh /\ SatClose
  /\ UNCHANGED <<settings, server, gnss, faults>>

Kill ==
  /\ pc # "down"
  /\ kills < MaxKills /\ kills' = kills + 1
  /\ Die

Restart ==
  /\ pc = "down"
  /\ pc' = "config"
  /\ UNCHANGED <<settings, server, module, online, timer, early, queue, kills, atUp,
                 gpsVars, satVars>>

----------------------------------------------------------------------------
(***************************************************************************)
(* main                                                                    *)
(***************************************************************************)
\* GlobalData's constructor throws when config.json gives no object.
ReadConfig ==
  /\ pc = "config"
  /\ IF config = "broken"
     THEN Die /\ UNCHANGED kills
     ELSE /\ pc' = "ota"
          /\ UNCHANGED <<settings, server, module, online, timer, early, queue, kills,
                         atUp, gpsVars, satVars>>

\* OtaManager: init and checkPendingOta.
CheckOta ==
  /\ pc = "ota"
  /\ pc' = "serial"
  /\ UNCHANGED <<settings, server, module, online, timer, early, queue, kills, atUp,
                 gpsVars, satVars>>

\* RPIModuleInterface::init connects the AT client in the first call only.
InitModule ==
  /\ module' = TRUE
  /\ atUp' \in IF module THEN {atUp} ELSE BOOLEAN

OpenModule ==
  /\ pc = "serial"
  /\ InitModule
  /\ pc' = "satellite"
  /\ UNCHANGED <<settings, server, online, timer, early, queue, kills, gpsVars, satVars>>

OpenSatellite ==
  /\ pc = "satellite"
  /\ SatelliteOpen
  /\ pc' = IF satOpen' THEN "ic" ELSE "gps"
  /\ UNCHANGED <<settings, server, module, online, timer, early, queue, kills, atUp,
                 gpsVars>>

\* The step behind a query.
Behind == [ic |-> "device", device |-> "gps"]

Ask(step, q, wait) ==
  /\ pc = step
  /\ Query(q)
  /\ pc' = IF waiting' = NoType THEN Behind[step] ELSE wait

Hear(step, wait, A) ==
  /\ pc = wait
  /\ A
  /\ pc' = IF waiting' = NoType THEN Behind[step] ELSE wait

QuerySatellite ==
  /\ Ask("ic", Ic, "wait ic") \/ Ask("device", Device, "wait device")
  /\ UNCHANGED <<settings, server, module, online, timer, early, queue, kills, atUp,
                 gpsVars>>

ReadSatellite ==
  /\ Hear("ic", "wait ic", Receive) \/ Hear("device", "wait device", Receive)
  /\ UNCHANGED <<settings, server, module, online, timer, early, queue, kills, atUp,
                 gpsVars>>

QuerySatelliteEnds ==
  /\ Hear("ic", "wait ic", GiveUp) \/ Hear("device", "wait device", GiveUp)
  /\ UNCHANGED <<settings, server, module, online, timer, early, queue, kills, atUp,
                 gpsVars>>

\* Nothing uses the terminal's port or main's ic_info and dev_info any more.
StartGps ==
  /\ pc = "gps"
  /\ GpsStart
  /\ SatClose
  /\ pc' = IF auth THEN "auth" ELSE "topics"
  /\ UNCHANGED <<settings, server, module, online, timer, early, queue, kills, atUp>>

----------------------------------------------------------------------------
(***************************************************************************)
(* The login                                                               *)
(***************************************************************************)
\* HTCLPost: the request is bounded in time.  Without the key the signature
\* is empty, and the server refuses it.
Reply ==
  IF server # "down" /\ "sign" \notin keys THEN "refusing" ELSE server

\* An answer that is not accepted is asked for again after a second; one
\* that is successful and has no data ends in an exception.
Authenticate ==
  /\ pc = "auth"
  /\ IF Reply = "odd"
     THEN Die /\ UNCHANGED kills
     ELSE /\ pc' = IF Reply = "good" \/ (Reply = "sealed" /\ "secret" \in keys)
                   THEN "topics" ELSE "pause"
          /\ UNCHANGED <<settings, server, module, online, timer, early, queue, kills,
                         atUp, gpsVars, satVars>>

Retry ==
  /\ pc = "pause"
  /\ pc' = "auth"
  /\ UNCHANGED <<settings, server, module, online, timer, early, queue, kills, atUp,
                 gpsVars, satVars>>

----------------------------------------------------------------------------
(***************************************************************************)
(* probeMgrStart                                                           *)
(***************************************************************************)
\* readJsonFile: the IMEI is inserted in each topic at position 14.
ReadTopics ==
  /\ pc = "topics"
  /\ IF config = "short"
     THEN Die /\ UNCHANGED kills
     ELSE /\ pc' = "mqtt"
          /\ UNCHANGED <<settings, server, module, online, timer, early, queue, kills,
                         atUp, gpsVars, satVars>>

\* The collection timer is started with the client.
BugStartMqtt ==
  /\ pc = "mqtt"
  /\ timer' = TRUE
  /\ pc' = "cache"
  /\ UNCHANGED <<settings, server, module, online, early, queue, kills, atUp, gpsVars,
                 satVars>>

\* MQTTAPP::start goes on when MQTTAsync_create has failed, and
\* MQTTAsync_connect writes through the null handle.
StartMqtt ==
  /\ pc = "mqtt"
  /\ IF config = "scheme"
     THEN Die /\ UNCHANGED kills
     ELSE /\ pc' = "cache"
          /\ UNCHANGED <<settings, server, module, online, timer, early, queue, kills,
                         atUp, gpsVars, satVars>>

\* OfflineCache::init reads the file, after it has cleared the queue.
InitCache ==
  /\ pc = "cache"
  /\ queue' = IF cacheOn THEN 0 ELSE queue
  /\ pc' = "module"
  /\ UNCHANGED <<settings, server, module, online, timer, early, kills, atUp, gpsVars,
                 satVars>>

InitModuleAgain ==
  /\ pc = "module"
  /\ InitModule
  /\ pc' = "timer"
  /\ UNCHANGED <<settings, server, online, timer, early, queue, kills, gpsVars, satVars>>

StartTimer ==
  /\ pc = "timer"
  /\ timer' = TRUE
  /\ pc' = "run"
  /\ UNCHANGED <<settings, server, module, online, early, queue, kills, atUp, gpsVars,
                 satVars>>

----------------------------------------------------------------------------
(***************************************************************************)
(* The other threads, from mqtt.start on                                   *)
(***************************************************************************)
ClientRuns == pc \in {"cache", "module", "timer", "run"}

\* The connection is made or lost; without rw.conf there is no broker.
Line ==
  /\ ClientRuns /\ config = "good"
  /\ online' = ~online
  /\ UNCHANGED <<settings, server, pc, module, timer, early, queue, kills, atUp, gpsVars,
                 satVars>>

\* collection_config with another interval: restartCollectionTimer.
Command ==
  /\ ClientRuns /\ online
  /\ timer' = TRUE
  /\ early' = (early \/ ~timer)
  /\ UNCHANGED <<settings, server, pc, module, online, queue, kills, atUp, gpsVars,
                 satVars>>

\* The command is a JSON text and no object: j["task_id"] throws.
Abort ==
  /\ ClientRuns /\ online /\ retained
  /\ Die
  /\ UNCHANGED kills

\* publishData and flushOfflineCache of a cycle; m_cacheEnabled is true
\* until the configuration has been read.
Cycle ==
  /\ timer /\ (cacheOn \/ pc = "cache")
  /\ \/ /\ ~online /\ queue < MaxQueue
        /\ queue' = queue + 1
     \/ /\ online
        /\ queue' = 0
  /\ UNCHANGED <<settings, server, pc, module, online, timer, early, kills, atUp, gpsVars,
                 satVars>>

PollGps ==
  /\ Poll
  /\ UNCHANGED <<mainVars, atUp, satVars>>

----------------------------------------------------------------------------
(***************************************************************************)
(* The server, the module and the terminal                                 *)
(***************************************************************************)
Serve ==
  /\ pc \in {"auth", "pause"}
  /\ server' \in Answers
  /\ UNCHANGED <<settings, pc, module, online, timer, early, queue, kills, atUp, gpsVars,
                 satVars>>

Module == ModuleRestart /\ UNCHANGED <<mainVars, atUp, satVars>>

Terminal == Say /\ UNCHANGED <<mainVars, atUp, gpsVars>>

----------------------------------------------------------------------------
Main ==
  \/ ReadConfig \/ CheckOta \/ OpenModule \/ OpenSatellite \/ QuerySatellite
  \/ ReadSatellite \/ StartGps \/ Authenticate \/ Retry
  \/ ReadTopics \/ StartMqtt \/ InitCache \/ InitModuleAgain \/ StartTimer

Next ==
  \/ Main \/ QuerySatelliteEnds \/ Kill \/ Restart
  \/ Line \/ Command \/ Abort \/ Cycle \/ PollGps
  \/ Serve \/ Module \/ Terminal

Spec == Init /\ [][Next]_vars

\* main and the polling thread run, time ends a wait for the terminal, and
\* the supervisor starts the agent again.
Fairness ==
  /\ WF_vars(Main)
  /\ WF_vars(QuerySatelliteEnds)
  /\ WF_vars(Restart)
  /\ WF_vars(PollGps)

FairSpec == Spec /\ Fairness

----------------------------------------------------------------------------
(***************************************************************************)
(* Properties                                                              *)
(***************************************************************************)
\* A record that was put into the offline cache before it was loaded is
\* forgotten by the loading; that happens only when a command of the platform
\* started the cycles before probeMgrStart did.
ForgetsOnlyEarly == [][InitCache /\ queue' < queue => early]_vars

\* Nothing on the way up waits for ever: with a configuration that can be
\* read and used the agent gets to its collection cycles if in the end the
\* server accepts it, whatever the terminal, the module and the line do.  The
\* exceptions end every start: a broken or short configuration, an address
\* with an unknown scheme, and a retained command that is no JSON object.
StartsEventually ==
  /\ config \in {"good", "missing"} /\ ~retained
  /\ auth => "sign" \in keys /\ <>[](server = "good")
  => <>(pc = "run")

\* Until there was a fix, a receiver that lost its command or restarted is
\* switched on again, as long as the AT client is connected.
GnssComesOn == <>[](atUp /\ gps # "off" /\ ~everFixed) => <>[]gnss

\* A position does not outlive the receiver: what is reported then is 0, 0.
PositionExpires == <>[](gps # "off" /\ ~gnss) => <>[](~position)
=============================================================================
