-------------------------- MODULE AgentStartProofs --------------------------
(***************************************************************************)
(* Theorems about AgentStart, for every configuration, terminal, server    *)
(* and number of faults, records and ends of the process.                  *)
(***************************************************************************)
EXTENDS AgentStart, TLAPS

\* Until probeMgrStart has started it the timer is one that a command started,
\* and without the timer there is no record in the cache.
TimerInv ==
  /\ timer /\ pc # "run" => early
  /\ queue > 0 => timer

(***************************************************************************)
(* The types of the terminal's statements                                  *)
(***************************************************************************)
LEMMA ReadKeepsType ==
  ASSUME inbox \in Seq(Statements), NEW n \in 0..Len(inbox), NEW s \in AfterRead(n)
  PROVE  s \in Seq(Statements) /\ Len(s) <= Len(inbox)
<1> DEFINE rest == SubSeq(inbox, n + 1, Len(inbox))
<1>1. Len(inbox) \in Nat
  OBVIOUS
<1>2. rest \in Seq(Statements) /\ Len(rest) <= Len(inbox)
  BY <1>1
<1> HIDE DEF rest
<1>3. CutHead(rest) \in Seq(Statements) /\ Len(CutHead(rest)) = Len(rest)
  <2>1. CASE rest = <<>>
    BY <1>2, <2>1 DEF CutHead
  <2>2. CASE rest # <<>>
    <3> DEFINE h == [Head(rest) EXCEPT !.form = "cut"]
    <3>1. Head(rest) \in Statements /\ Tail(rest) \in Seq(Statements)
          /\ Len(Tail(rest)) = Len(rest) - 1
      BY <1>2, <2>2
    <3>2. h \in Statements
      BY <3>1 DEF Statements
    <3> HIDE DEF h
    <3>3. <<h>> \in Seq(Statements) /\ Len(<<h>>) = 1
      BY <3>2
    <3>4. <<h>> \o Tail(rest) \in Seq(Statements)
          /\ Len(<<h>> \o Tail(rest)) = 1 + Len(Tail(rest))
      BY <3>1, <3>3
    <3>5. CutHead(rest) = <<h>> \o Tail(rest)
      BY <2>2 DEF CutHead, h
    <3>6. Len(rest) \in Nat
      BY <1>2
    <3> QED
      BY <3>1, <3>4, <3>5, <3>6
  <2> QED
    BY <2>1, <2>2
<1> QED
  BY <1>2, <1>3 DEF AfterRead, rest

(***************************************************************************)
(* Steps, as the terminal, the position and main see them                  *)
(***************************************************************************)
LEMMA SatSteps ==
  ASSUME [Next]_vars
  PROVE  \/ UNCHANGED satVars
         \/ SatelliteOpen
         \/ Say
         \/ \E q \in Types : Query(q)
         \/ Receive
         \/ GiveUp
         \/ SatClose
<1>1. CASE UNCHANGED vars \/ ReadConfig \/ CheckOta \/ OpenModule \/ Authenticate \/ Retry
  BY <1>1 DEF vars, ReadConfig, CheckOta, OpenModule, Authenticate, Retry, Die
<1>2. CASE ReadTopics \/ StartMqtt \/ InitCache \/ InitModuleAgain \/ StartTimer \/ StartGps
  BY <1>2 DEF ReadTopics, StartMqtt, InitCache, InitModuleAgain, StartTimer, StartGps, Die
<1>3. CASE OpenSatellite \/ QuerySatellite \/ ReadSatellite \/ QuerySatelliteEnds
  BY <1>3, StartAssumption
     DEF OpenSatellite, QuerySatellite, ReadSatellite, QuerySatelliteEnds, Ask, Hear,
         StartAssumption
<1>4. CASE \/ Kill \/ Abort \/ Restart \/ Line \/ Command \/ Cycle
          \/ PollGps \/ Serve \/ Module \/ Terminal
  BY <1>4 DEF Kill, Abort, Die, Restart, Line, Command, Cycle, PollGps, Serve, Module, Terminal
<1> QED
  BY <1>1, <1>2, <1>3, <1>4 DEF Next, Main

LEMMA GpsSteps ==
  ASSUME [Next]_vars, atUp \in BOOLEAN
  PROVE  /\ atUp' \in BOOLEAN
         /\ \/ UNCHANGED gpsVars
            \/ GpsStart
            \/ Poll
            \/ ModuleRestart
            \/ GpsFresh /\ UNCHANGED <<gnss, faults>>
<1>1. CASE UNCHANGED vars \/ ReadConfig \/ CheckOta \/ Authenticate \/ Retry
  BY <1>1 DEF vars, ReadConfig, CheckOta, Authenticate, Retry, Die
<1>2. CASE OpenModule \/ InitModuleAgain
  <2>1. atUp' = atUp \/ atUp' \in BOOLEAN
    BY <1>2 DEF OpenModule, InitModuleAgain, InitModule
  <2> QED
    BY <1>2, <2>1 DEF OpenModule, InitModuleAgain
<1>3. CASE ReadTopics \/ StartMqtt \/ InitCache \/ StartTimer \/ StartGps
  BY <1>3 DEF ReadTopics, StartMqtt, InitCache, StartTimer, StartGps, Die
<1>4. CASE OpenSatellite \/ QuerySatellite \/ ReadSatellite \/ QuerySatelliteEnds
  BY <1>4 DEF OpenSatellite, QuerySatellite, ReadSatellite, QuerySatelliteEnds
<1>5. CASE \/ Kill \/ Abort \/ Restart \/ Line \/ Command \/ Cycle
          \/ PollGps \/ Serve \/ Module \/ Terminal
  BY <1>5 DEF Kill, Abort, Die, Restart, Line, Command, Cycle, PollGps, Serve, Module, Terminal
<1> QED
  BY <1>1, <1>2, <1>3, <1>4, <1>5 DEF Next, Main

LEMMA SatTypeStep ==
  ASSUME SatTypeOK, [Next]_vars
  PROVE  SatTypeOK'
<1>1. /\ satOpen \in BOOLEAN /\ inbox \in Seq(Statements) /\ Len(inbox) <= MaxInbox
      /\ waiting \in Types \cup {NoType}
      /\ Len(inbox) \in Nat /\ MaxInbox \in Nat
  BY SatelliteAssumption DEF SatTypeOK, SatelliteAssumption
<1>2. CASE UNCHANGED satVars
  BY <1>2 DEF SatTypeOK, satVars
<1>3. CASE SatelliteOpen
  BY <1>1, <1>3 DEF SatelliteOpen, SatTypeOK
<1>4. CASE Say
  <2>1. PICK s \in Statements : inbox' = Append(inbox, s)
    BY <1>4 DEF Say
  <2>2. inbox' \in Seq(Statements) /\ Len(inbox') = Len(inbox) + 1
    BY <1>1, <2>1
  <2>3. Len(inbox') <= MaxInbox
    BY <1>1, <1>4, <2>2 DEF Say
  <2> QED
    BY <1>1, <1>4, <2>2, <2>3 DEF Say, SatTypeOK
<1>5. ASSUME NEW q \in Types, Query(q) PROVE SatTypeOK'
  <2>1. waiting' \in Types \cup {NoType} /\ UNCHANGED <<satOpen, inbox>>
    BY <1>5 DEF Query
  <2> QED
    BY <1>1, <2>1 DEF SatTypeOK
<1>6. CASE Receive
  <2>1. PICK n \in 0..Len(inbox) : inbox' \in AfterRead(n)
    BY <1>6 DEF Receive
  <2>2. inbox' \in Seq(Statements) /\ Len(inbox') <= Len(inbox)
    BY <1>1, <2>1, ReadKeepsType
  <2>3. Len(inbox') <= MaxInbox
    <3>1. Len(inbox') \in Nat
      BY <2>2
    <3> QED
      BY <1>1, <2>2, <3>1
  <2>4. waiting' \in Types \cup {NoType} /\ satOpen' = satOpen
    BY <1>1, <1>6 DEF Receive
  <2> QED
    BY <1>1, <2>2, <2>3, <2>4 DEF SatTypeOK
<1>7. CASE GiveUp
  BY <1>1, <1>7 DEF GiveUp, SatTypeOK
<1>8. CASE SatClose
  <2>1. satOpen' = FALSE /\ inbox' = <<>> /\ waiting' = NoType
    BY <1>8 DEF SatClose, Closed
  <2>2. <<>> \in Seq(Statements) /\ Len(<<>>) = 0
    OBVIOUS
  <2>3. inbox' \in Seq(Statements) /\ Len(inbox') <= MaxInbox
    BY <1>1, <2>1, <2>2
  <2> QED
    BY <1>1, <2>1, <2>3 DEF SatTypeOK
<1> QED
  BY <1>2, <1>3, <1>4, <1>5, <1>6, <1>7, <1>8, SatSteps

LEMMA GpsTypeStep ==
  ASSUME GpsTypeOK, [Next]_vars
  PROVE  GpsTypeOK'
<1>1. /\ atUp \in BOOLEAN /\ gnss \in BOOLEAN /\ gps \in {"off", "enable", "poll"}
      /\ everFixed \in BOOLEAN /\ failCount \in 0..(EnableEvery - 1)
      /\ position \in BOOLEAN /\ faults \in 0..MaxFaults
      /\ EnableEvery \in Nat \ {0} /\ MaxFaults \in Nat
  BY GpsAssumption DEF GpsTypeOK, GpsAssumption
<1>2. atUp' \in BOOLEAN
  BY <1>1, GpsSteps
<1>3. ASSUME EnableGnss \/ UNCHANGED <<gnss, faults>>
      PROVE  gnss' \in BOOLEAN /\ faults' \in 0..MaxFaults
  <2>1. gnss' = (gnss \/ atUp) \/ gnss' = gnss
    BY <1>3 DEF EnableGnss
  <2>2. gnss' \in BOOLEAN
    BY <1>1, <2>1, Zenon
  <2>3. faults' \in 0..MaxFaults
    BY <1>1, <1>3 DEF EnableGnss
  <2> QED
    BY <2>2, <2>3
<1>4. 0 \in 0..(EnableEvery - 1)
  BY <1>1
<1>5. CASE UNCHANGED gpsVars
  BY <1>1, <1>2, <1>5 DEF gpsVars, GpsTypeOK
<1>6. CASE GpsStart
  BY <1>1, <1>2, <1>6 DEF GpsStart, GpsTypeOK
<1>7. CASE FirstEnable
  <2>1. gnss' \in BOOLEAN /\ faults' \in 0..MaxFaults
    BY <1>3, <1>7 DEF FirstEnable
  <2> QED
    BY <1>1, <1>2, <1>7, <2>1 DEF FirstEnable, GpsTypeOK
<1>8. CASE Fix
  BY <1>1, <1>2, <1>4, <1>8 DEF Fix, GpsTypeOK
<1>9. CASE NoFix
  <2>1. gnss' \in BOOLEAN /\ faults' \in 0..MaxFaults
    BY <1>3, <1>9 DEF NoFix
  <2>2. failCount' = (failCount + 1) % EnableEvery
    BY <1>9 DEF NoFix
  <2>3. failCount' \in 0..(EnableEvery - 1)
    BY <1>1, <2>2
  <2> QED
    BY <1>1, <1>2, <1>9, <2>1, <2>3 DEF NoFix, GpsTypeOK
<1>10. CASE ModuleRestart
  <2>1. faults' \in 0..MaxFaults
    BY <1>1, <1>10 DEF ModuleRestart
  <2> QED
    BY <1>1, <1>2, <1>10, <2>1 DEF ModuleRestart, GpsTypeOK
<1>11. CASE GpsFresh /\ UNCHANGED <<gnss, faults>>
  BY <1>1, <1>2, <1>4, <1>11 DEF GpsFresh, GpsTypeOK
<1> QED
  BY <1>1, <1>5, <1>6, <1>7, <1>8, <1>9, <1>10, <1>11, GpsSteps DEF Poll

(***************************************************************************)
(* main, the timer and the cache                                           *)
(***************************************************************************)
MainTypeOK ==
  /\ config \in Configs
  /\ retained \in BOOLEAN /\ auth \in BOOLEAN /\ cacheOn \in BOOLEAN
  /\ keys \subseteq {"sign", "secret"}
  /\ server \in Answers
  /\ pc \in Steps
  /\ module \in BOOLEAN /\ online \in BOOLEAN /\ timer \in BOOLEAN /\ early \in BOOLEAN
  /\ queue \in 0..MaxQueue
  /\ kills \in 0..MaxKills

\* Nothing of main's own changes but where it is.
OnlyPc == UNCHANGED <<settings, server, module, online, timer, early, queue, kills>>

\* What the end of the process leaves of main's variables.
Ends ==
  /\ pc' = "down" /\ module' = FALSE /\ online' = FALSE /\ timer' = FALSE /\ early' = FALSE
  /\ queue' = 0
  /\ UNCHANGED <<settings, server>>
  /\ kills' = kills \/ (kills < MaxKills /\ kills' = kills + 1)

LEMMA MainSteps ==
  ASSUME MainTypeOK, [Next]_vars
  PROVE  \/ UNCHANGED mainVars
         \/ Ends
         \/ OnlyPc /\ pc' \in Steps /\ pc # "run" /\ pc' # "run"
         \/ InitModule /\ pc' \in Steps /\ pc # "run" /\ pc' # "run"
              /\ UNCHANGED <<settings, server, online, timer, early, queue, kills>>
         \/ InitCache
         \/ StartTimer
         \/ Line
         \/ Command
         \/ Cycle
         \/ Serve
<1>1. CASE UNCHANGED vars \/ PollGps \/ Module \/ Terminal
  BY <1>1 DEF vars, mainVars, PollGps, Module, Terminal
<1>2. CASE ReadConfig \/ Authenticate \/ ReadTopics \/ StartMqtt
  BY <1>2 DEF ReadConfig, Authenticate, ReadTopics, StartMqtt, Die, Ends, OnlyPc, Steps
<1>3. CASE Kill \/ Abort
  BY <1>3 DEF Kill, Abort, Die, Ends
<1>4. CASE Restart \/ CheckOta \/ Retry \/ OpenSatellite \/ StartGps
  BY <1>4 DEF Restart, CheckOta, Retry, OpenSatellite, StartGps, OnlyPc, Steps
<1>5. CASE QuerySatellite
  BY <1>5 DEF QuerySatellite, Ask, Behind, OnlyPc, Steps
<1>6. CASE ReadSatellite \/ QuerySatelliteEnds
  BY <1>6 DEF ReadSatellite, QuerySatelliteEnds, Hear, Behind, OnlyPc, Steps
<1>7. CASE OpenModule \/ InitModuleAgain
  BY <1>7 DEF OpenModule, InitModuleAgain, Steps
<1> QED
  BY <1>1, <1>2, <1>3, <1>4, <1>5, <1>6, <1>7 DEF Next, Main

LEMMA MainStep ==
  ASSUME MainTypeOK, TimerInv, [Next]_vars
  PROVE  MainTypeOK' /\ TimerInv'
<1>1. /\ config \in Configs /\ retained \in BOOLEAN /\ auth \in BOOLEAN /\ cacheOn \in BOOLEAN
      /\ keys \subseteq {"sign", "secret"} /\ server \in Answers /\ pc \in Steps
      /\ module \in BOOLEAN /\ online \in BOOLEAN /\ timer \in BOOLEAN /\ early \in BOOLEAN
      /\ queue \in 0..MaxQueue /\ kills \in 0..MaxKills /\ MaxQueue \in Nat /\ MaxKills \in Nat
  BY StartAssumption DEF MainTypeOK, StartAssumption
<1>2. (timer /\ pc # "run" => early) /\ (queue > 0 => timer)
  BY DEF TimerInv
<1>3. 0 \in 0..MaxQueue /\ ~ (0 > 0)
  BY <1>1
<1>4. CASE UNCHANGED mainVars
  BY <1>4 DEF mainVars, MainTypeOK, TimerInv
<1>5. CASE Ends
  <2>1. kills' \in 0..MaxKills
    BY <1>1, <1>5 DEF Ends
  <2> QED
    BY <1>1, <1>3, <1>5, <2>1 DEF Ends, settings, MainTypeOK, TimerInv, Steps
<1>6. CASE OnlyPc /\ pc' \in Steps /\ pc # "run" /\ pc' # "run"
  BY <1>1, <1>2, <1>6 DEF OnlyPc, settings, MainTypeOK, TimerInv
<1>7. CASE InitModule /\ pc' \in Steps /\ pc # "run" /\ pc' # "run"
             /\ UNCHANGED <<settings, server, online, timer, early, queue, kills>>
  BY <1>1, <1>2, <1>7 DEF InitModule, settings, MainTypeOK, TimerInv
<1>8. CASE InitCache
  <2>1. queue' \in {0, queue} /\ queue' \in 0..MaxQueue
    BY <1>1, <1>3, <1>8 DEF InitCache
  <2> QED
    BY <1>1, <1>2, <1>3, <1>8, <2>1 DEF InitCache, settings, MainTypeOK, TimerInv, Steps
<1>9. CASE StartTimer
  BY <1>1, <1>9 DEF StartTimer, settings, MainTypeOK, TimerInv, Steps
<1>10. CASE Line
  <2>1. online' \in BOOLEAN
    BY <1>10 DEF Line
  <2> QED
    BY <1>1, <1>2, <1>10, <2>1 DEF Line, settings, MainTypeOK, TimerInv
<1>11. CASE Command
  <2>1. /\ timer' = TRUE /\ early' = (early \/ ~ timer)
        /\ UNCHANGED <<settings, server, pc, module, online, queue, kills>>
    BY <1>11 DEF Command
  <2>2. early' \in BOOLEAN
    BY <1>1, <2>1, Zenon
  <2>3. pc # "run" => early'
    BY <1>2, <2>1
  <2> QED
    BY <1>1, <2>1, <2>2, <2>3 DEF settings, MainTypeOK, TimerInv
<1>12. CASE Cycle
  <2>1. timer /\ UNCHANGED <<settings, server, pc, module, online, timer, early, kills>>
    BY <1>12 DEF Cycle
  <2>2. queue' \in 0..MaxQueue
    BY <1>1, <1>3, <1>12 DEF Cycle
  <2> QED
    BY <1>1, <1>2, <2>1, <2>2 DEF settings, MainTypeOK, TimerInv
<1>13. CASE Serve
  BY <1>1, <1>2, <1>13 DEF Serve, settings, MainTypeOK, TimerInv
<1> QED
  BY <1>4, <1>5, <1>6, <1>7, <1>8, <1>9, <1>10, <1>11, <1>12, <1>13, MainSteps

-----------------------------------------------------------------------------
(***************************************************************************)
(* Theorems                                                                *)
(***************************************************************************)
StartInv == MainTypeOK /\ GpsTypeOK /\ SatTypeOK /\ TimerInv

LEMMA StartInvInit == Init => StartInv
<1> SUFFICES ASSUME Init PROVE StartInv
  OBVIOUS
<1>1. MainTypeOK /\ TimerInv
  <2>1. 0 \in 0..MaxQueue /\ 0 \in 0..MaxKills /\ ~ (0 > 0)
    BY StartAssumption DEF StartAssumption
  <2>2. /\ config \in Configs /\ retained \in BOOLEAN
        /\ auth \in BOOLEAN /\ cacheOn \in BOOLEAN
        /\ keys \subseteq {"sign", "secret"} /\ server = "down" /\ pc = "config"
        /\ module = FALSE /\ online = FALSE /\ timer = FALSE /\ early = FALSE
        /\ queue = 0 /\ kills = 0
    BY DEF Init
  <2> QED
    BY <2>1, <2>2 DEF MainTypeOK, TimerInv, Answers, Steps
<1>2. GpsTypeOK
  <2>1. 0 \in 0..(EnableEvery - 1) /\ 0 \in 0..MaxFaults
    BY GpsAssumption DEF GpsAssumption
  <2> QED
    BY <2>1 DEF Init, GpsInit, GpsTypeOK
<1>3. SatTypeOK
  <2>1. satOpen = FALSE /\ inbox = <<>> /\ waiting = NoType
    BY DEF Init, SatInit, Closed
  <2>2. inbox \in Seq(Statements) /\ Len(inbox) <= MaxInbox
    <3>1. <<>> \in Seq(Statements) /\ Len(<<>>) = 0
      OBVIOUS
    <3> QED
      BY <2>1, <3>1, SatelliteAssumption DEF SatelliteAssumption
  <2> QED
    BY <2>1, <2>2 DEF SatTypeOK
<1> QED
  BY <1>1, <1>2, <1>3 DEF StartInv

LEMMA StartInvStep ==
  ASSUME StartInv, [Next]_vars
  PROVE  StartInv'
BY MainStep, GpsTypeStep, SatTypeStep DEF StartInv

(***************************************************************************)
(* Every variable of the start, the position and the terminal keeps its    *)
(* type, also over the end of the process and the next one.                *)
(***************************************************************************)
THEOREM TypeCorrect == Spec => []TypeOK
<1>1. StartInv => TypeOK
  BY DEF StartInv, MainTypeOK, TypeOK
<1> QED
  BY <1>1, StartInvInit, StartInvStep, PTL DEF Spec

(***************************************************************************)
(* The loading of the cache forgets records only when a command of the     *)
(* platform started the cycles before probeMgrStart did.                   *)
(***************************************************************************)
THEOREM ForgetsIfEarly == Spec => ForgetsOnlyEarly
<1> DEFINE A == InitCache /\ queue' < queue => early
<1>1. ASSUME StartInv, InitCache, queue' < queue PROVE early
  <2>1. queue' \in {0, queue} /\ pc = "cache"
    BY <1>1 DEF InitCache
  <2>2. queue \in 0..MaxQueue /\ MaxQueue \in Nat
    BY <1>1, StartAssumption DEF StartInv, MainTypeOK, StartAssumption
  <2>3. queue > 0
    BY <1>1, <2>1, <2>2
  <2> QED
    BY <1>1, <2>1, <2>3 DEF StartInv, TimerInv
<1>2. StartInv /\ [Next]_vars => [A]_vars
  BY <1>1
<1>3. Spec => [][A]_vars
  BY <1>2, StartInvInit, StartInvStep, PTL DEF Spec
<1> QED
  BY <1>3 DEF ForgetsOnlyEarly

=============================================================================
