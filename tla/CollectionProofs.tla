-------------------------- MODULE CollectionProofs --------------------------
(***************************************************************************)
(* Proofs about the collection cycle: its type, that its error_code stream *)
(* implements Debounce, that it reports no restart without a cause, and,   *)
(* without overlapping cycles, that the platform knows the state the       *)
(* filter takes for reported.                                              *)
(***************************************************************************)
EXTENDS CollectionRefinement, FiniteSets, FiniteSetTheorems, TLAPS

Codes == States \cup {None, "REBOOT", "G4G5_SWITCH"}
Messages == [sw : BOOLEAN, reboot : BOOLEAN, code : Codes]
Cycles == [pc : Pcs, msg : Messages]

CallPcs == {"idle", "stop", "start", "claim", "launch"}

\* The conjuncts of TypeOK, as vars groups the variables.
OutsideType ==
  /\ module \in {"off", "connecting", "connected", "started"}
  /\ timer \in Threads \cup {NoThread}
  /\ expired \in BOOLEAN /\ stranded \in BOOLEAN
  /\ calls \in [Callers -> CallPcs]
  /\ category \in {"full", "core"}
  /\ commands \in 0..MaxCommands

StaticsType ==
  /\ swSent \in BOOLEAN /\ boot \in BOOLEAN /\ due \in BOOLEAN /\ snapValid \in BOOLEAN
  /\ sim \in {"READY", "LOCKED", "ABSENT", "UNKNOWN"}
  /\ snap \in [reg : Regs \cup {NoReg}, cell : BOOLEAN, rat : Rats \cup {None}]
  /\ filter \in [last : States \cup {None}, candidate : States \cup {None}]
  /\ lastRat \in Rats \cup {None}

HistoryType ==
  /\ fed \in States \cup {None} /\ told \in States \cup {None}
  /\ reboots \in Nat

ModemType ==
  /\ log \in 0..LogCap /\ dropped \in BOOLEAN /\ unreported \in BOOLEAN
  /\ boots \in 0..MaxBoots

\* TypeOK, in those parts, in a state and in the next.
LEMMA TypeParts ==
  /\ TypeOK <=> /\ cycle \in [Threads -> Cycles]
                /\ OutsideType /\ StaticsType /\ HistoryType /\ ModemType
  /\ TypeOK' <=> /\ cycle' \in [Threads -> Cycles]
                 /\ OutsideType' /\ StaticsType' /\ HistoryType' /\ ModemType'
BY DEF TypeOK, OutsideType, StaticsType, HistoryType, ModemType, Cycles, Messages, Codes,
   CallPcs

\* A candidate is a state other than NONE and the one that is held; it is what
\* the filter was given last, and without one that is the held state.
FilterInv ==
  /\ filter.candidate = None => fed = filter.last
  /\ filter.candidate # None => /\ fed = filter.candidate
                                /\ filter.candidate \notin {filter.last, "NONE"}
                                /\ filter.last # None

-----------------------------------------------------------------------------
(* What a cycle derives and what the filter makes of it *)

\* A cycle finds one of the states, with and without a snapshot.
LEMMA DerivesState ==
  Derive \in States /\ \A s : DeriveFallback(s) \in States
BY DEF Derive, DeriveFallback, States

\* The filter takes every state as the promise on it says.
LEMMA FilterStep ==
  ASSUME TypeOK, FilterInv, NEW c \in States
  PROVE  /\ Filtered(c) \in [last : States \cup {None}, candidate : States \cup {None}]
         /\ Filtered(c).last = IF c \in {"NONE", fed} \/ filter.last = None
                                 THEN c ELSE filter.last
         /\ Filtered(c).candidate = None => c = Filtered(c).last
         /\ Filtered(c).candidate # None =>
              /\ Filtered(c).candidate = c
              /\ c \notin {Filtered(c).last, "NONE"}
              /\ Filtered(c).last # None
<1>1. None \notin States
  BY DEF None, States
<1>2. CASE c = filter.last
  BY <1>1, <1>2 DEF Filtered, TypeOK, FilterInv
<1>3. CASE c # filter.last /\ (filter.last = None \/ c = "NONE" \/ c = filter.candidate)
  BY <1>1, <1>3 DEF Filtered, TypeOK, FilterInv
<1>4. CASE c # filter.last /\ ~ (filter.last = None \/ c = "NONE" \/ c = filter.candidate)
  BY <1>1, <1>4 DEF Filtered, TypeOK, FilterInv
<1> QED
  BY <1>2, <1>3, <1>4

-----------------------------------------------------------------------------
(* Type *)

LEMMA GotoType ==
  ASSUME cycle \in [Threads -> Cycles], NEW t \in Threads, NEW p \in Pcs, Goto(t, p)
  PROVE  cycle' \in [Threads -> Cycles]
<1>1. [cycle[t] EXCEPT !.pc = p] \in Cycles
  BY DEF Cycles
<1>2. cycle' = [cycle EXCEPT ![t] = [cycle[t] EXCEPT !.pc = p]]
  BY DEF Goto
<1> QED
  BY <1>1, <1>2

LEMMA CarryType ==
  ASSUME cycle \in [Threads -> Cycles], NEW t \in Threads, NEW p \in Pcs,
         NEW m \in Messages, Carry(t, p, m)
  PROVE  cycle' \in [Threads -> Cycles]
BY DEF Carry, Cycles

LEMMA InitType == Init => TypeOK
<1> SUFFICES ASSUME Init PROVE TypeOK
  OBVIOUS
<1>1. cycle \in [Threads -> Cycles]
  BY DEF Init, NoCycle, Resting, Cycles, Messages, Codes, Pcs, None
<1>2. OutsideType
  <2>1. commands \in 0..MaxCommands
    BY CollectionAssumption DEF CollectionAssumption, Init
  <2>2. calls \in [Callers -> CallPcs]
    BY DEF Init, CallPcs
  <2> QED
    BY <2>1, <2>2 DEF Init, OutsideType
<1>3. HistoryType
  BY DEF Init, HistoryType
<1>4. ModemType
  <2>1. boots \in 0..MaxBoots
    BY CollectionAssumption DEF CollectionAssumption, Init
  <2>2. log \in 0..LogCap
    BY CollectionAssumption DEF CollectionAssumption, Init
  <2> QED
    BY <2>1, <2>2 DEF Init, ModemType
<1>5. StaticsType
  BY DEF Init, StaticsType, NoSnap, NoFilter, None
<1> QED
  BY <1>1, <1>2, <1>3, <1>4, <1>5, TypeParts

\* What the queries answer has its type.
LEMMA AnswerTypes ==
  /\ Answers(Sims, "ABSENT") \subseteq {"READY", "LOCKED", "ABSENT"}
  /\ Answers(Regs, NoReg) \subseteq Regs \cup {NoReg}
  /\ \A s \in Servings \cup ServingsFallback :
       s.cell \in BOOLEAN /\ s.rat \in Rats \cup {None}
<1>1. Answers(Sims, "ABSENT") \subseteq {"READY", "LOCKED", "ABSENT"}
  BY CollectionAssumption DEF CollectionAssumption, Answers
<1>2. Answers(Regs, NoReg) \subseteq Regs \cup {NoReg}
  BY DEF Answers
<1>3. ASSUME NEW s \in Servings \cup ServingsFallback
      PROVE  s.cell \in BOOLEAN /\ s.rat \in Rats \cup {None}
  <2>1. NetRats \subseteq Rats
    BY CollectionAssumption DEF CollectionAssumption
  <2>2. "LTE" \in Rats
    BY DEF Rats
  <2>3. ASSUME NEW q \in Servings PROVE q.cell \in BOOLEAN /\ q.rat \in Rats \cup {None}
    <3>1. PICK b \in BOOLEAN, r \in Rats \cup {None} : q = [cell |-> b, rat |-> r]
      BY <2>1, <2>2 DEF Servings
    <3> QED
      BY <3>1
  <2>4. s \in Servings \/ s = [cell |-> TRUE, rat |-> "LTE"]
    BY DEF ServingsFallback
  <2>5. CASE s = [cell |-> TRUE, rat |-> "LTE"]
    BY <2>2, <2>5
  <2> QED
    BY <2>3, <2>4, <2>5
<1> QED
  BY <1>1, <1>2, <1>3

LEMMA CycleStepType ==
  ASSUME TypeOK, NEW t \in Threads, CycleStep(t)
  PROVE  TypeOK'
<1> USE TypeParts
<1>0. cycle[t] \in Cycles /\ cycle[t].msg \in Messages
  BY DEF Cycles
<1>1. CASE Begin(t)
  <2> DEFINE m == [Resting EXCEPT !.sw = (category = "full" /\ ~ swSent)]
             p == IF due THEN "slow" ELSE "drain"
  <2>1. m \in Messages /\ p \in Pcs
    BY DEF Resting, Messages, Codes, None, Pcs
  <2>2. Carry(t, p, m)
    BY <1>1 DEF Begin
  <2> HIDE DEF m, p
  <2>3. cycle' \in [Threads -> Cycles]
    BY <2>1, <2>2, CarryType
  <2>4. OutsideType' /\ HistoryType' /\ ModemType'
    BY <1>1 DEF Begin, OutsideType, HistoryType, ModemType, outside, timers, modem
  <2>5. swSent' \in BOOLEAN /\ boot' \in BOOLEAN
    BY <1>1, Zenon DEF Begin, StaticsType
  <2>6. StaticsType'
    BY <1>1, <2>5 DEF Begin, StaticsType
  <2> QED
    BY <2>3, <2>4, <2>6
<1>2. CASE SlowStart(t)
  <2>1. cycle' \in [Threads -> Cycles]
    <3>1. Goto(t, "drain") \/ Goto(t, "fill")
      BY <1>2 DEF SlowStart
    <3> QED
      BY <3>1, GotoType DEF Pcs
  <2>2. OutsideType' /\ HistoryType' /\ ModemType'
    BY <1>2 DEF SlowStart, OutsideType, HistoryType, ModemType, outside, timers, modem, history
  <2>3. sim' \in {"READY", "LOCKED", "ABSENT"}
    BY <1>2, AnswerTypes DEF SlowStart
  <2>4. NoSnap \in [reg : Regs \cup {NoReg}, cell : BOOLEAN, rat : Rats \cup {None}]
    BY DEF NoSnap
  <2>5. snap' \in [reg : Regs \cup {NoReg}, cell : BOOLEAN, rat : Rats \cup {None}]
    BY <1>2, <2>4 DEF SlowStart, StaticsType
  <2>6. due' \in BOOLEAN
    BY <1>2, Zenon DEF SlowStart, StaticsType
  <2>7. StaticsType'
    BY <1>2, <2>3, <2>5, <2>6 DEF SlowStart, StaticsType
  <2> QED
    BY <2>1, <2>2, <2>7
<1>3. CASE SlowDone(t)
  <2>1. cycle' \in [Threads -> Cycles]
    BY <1>3, GotoType DEF SlowDone, Pcs
  <2>2. OutsideType' /\ HistoryType' /\ ModemType'
    BY <1>3 DEF SlowDone, OutsideType, HistoryType, ModemType, outside, timers, modem, history
  <2>3. snap' \in [reg : Regs \cup {NoReg}, cell : BOOLEAN, rat : Rats \cup {None}]
    BY <1>3, AnswerTypes DEF SlowDone
  <2>4. StaticsType'
    BY <1>3, <2>3 DEF SlowDone, StaticsType
  <2> QED
    BY <2>1, <2>2, <2>4
<1>4. CASE Drain(t)
  <2> DEFINE m == [cycle[t].msg EXCEPT !.reboot = (boot \/ log > 0)]
             p == IF snapValid THEN "fast" ELSE "judge"
  <2>1. (boot \/ log > 0) \in BOOLEAN
    OBVIOUS
  <2>2. m \in Messages /\ p \in Pcs
    BY <1>0, <2>1 DEF Messages, Pcs
  <2>3. Carry(t, p, m)
    BY <1>4 DEF Drain
  <2> HIDE DEF m, p
  <2>4. cycle' \in [Threads -> Cycles]
    BY <2>2, <2>3, CarryType
  <2>z. 0 \in 0..LogCap
    BY CollectionAssumption DEF CollectionAssumption
  <2>5. OutsideType' /\ HistoryType' /\ ModemType'
    BY <1>4, <2>z DEF Drain, OutsideType, HistoryType, ModemType, outside, timers, history
  <2>6. StaticsType'
    BY <1>4 DEF Drain, StaticsType
  <2> QED
    BY <2>4, <2>5, <2>6
<1>5. CASE Fast(t)
  <2>1. cycle' \in [Threads -> Cycles]
    BY <1>5, GotoType DEF Fast, Pcs
  <2>2. OutsideType' /\ HistoryType' /\ ModemType'
    BY <1>5 DEF Fast, OutsideType, HistoryType, ModemType, outside, timers, modem, history
  <2>3. PICK s \in Servings : snap' = [snap EXCEPT !.cell = s.cell, !.rat = s.rat]
    BY <1>5 DEF Fast
  <2>4. s.cell \in BOOLEAN /\ s.rat \in Rats \cup {None}
    BY AnswerTypes
  <2>5. snap' \in [reg : Regs \cup {NoReg}, cell : BOOLEAN, rat : Rats \cup {None}]
    BY <2>3, <2>4 DEF StaticsType
  <2>6. StaticsType'
    BY <1>5, <2>5 DEF Fast, StaticsType
  <2> QED
    BY <2>1, <2>2, <2>6
<1>6. CASE Judge(t)
  <2>1. PICK rat \in Rats \cup {None}, c \in States : Compose(t, rat, c)
    <3>1. CASE snapValid /\ Compose(t, snap.rat, Derive)
      BY <3>1, DerivesState DEF StaticsType
    <3>2. CASE \E s \in ServingsFallback : Compose(t, s.rat, DeriveFallback(s))
      BY <3>2, DerivesState, AnswerTypes
    <3> QED
      BY <1>6, <3>1, <3>2 DEF Judge
  <2>2. Filtered(c) \in [last : States \cup {None}, candidate : States \cup {None}]
    BY DEF Filtered, StaticsType
  <2>3. lastRat' \in Rats \cup {None}
    BY <2>1 DEF Compose, StaticsType
  <2>4. filter' \in [last : States \cup {None}, candidate : States \cup {None}]
    BY <2>1, <2>2 DEF Compose, StaticsType
  <2>5. StaticsType'
    BY <1>6, <2>3, <2>4 DEF Judge, StaticsType
  <2>6. PICK code \in Codes : Carry(t, "publish", [cycle[t].msg EXCEPT !.code = code])
    BY <2>1 DEF Compose, Codes
  <2>7. cycle' \in [Threads -> Cycles]
    <3>1. [cycle[t].msg EXCEPT !.code = code] \in Messages
      BY <1>0 DEF Messages
    <3> QED
      BY <2>6, <3>1, CarryType DEF Pcs
  <2>8. OutsideType' /\ ModemType'
    BY <1>6 DEF Judge, OutsideType, ModemType, outside, timers, modem
  <2>9. HistoryType'
    BY <1>6, <2>1 DEF Judge, Compose, HistoryType
  <2> QED
    BY <2>5, <2>7, <2>8, <2>9
<1>7. CASE Publish(t)
  <2>1. Resting \in Messages
    BY DEF Resting, Messages, Codes, None
  <2>2. cycle' \in [Threads -> Cycles]
    BY <1>7, <2>1, CarryType DEF Publish, Pcs
  <2>3. OutsideType' /\ StaticsType'
    BY <1>7 DEF Publish, OutsideType, StaticsType, outside, timers, statics
  <2>4. told' \in States \cup {None}
    BY <1>7 DEF Publish, HistoryType
  <2>5. reboots' \in Nat
    BY <1>7 DEF Publish, HistoryType
  <2>6. HistoryType'
    BY <1>7, <2>4, <2>5 DEF Publish, HistoryType
  <2>7. unreported' \in BOOLEAN
    BY <1>7, Zenon DEF Publish, ModemType
  <2>8. ModemType'
    BY <1>7, <2>7 DEF Publish, ModemType
  <2> QED
    BY <2>2, <2>3, <2>6, <2>8
<1>8. CASE Exit(t)
  <2>1. NoCycle \in Cycles
    BY DEF NoCycle, Resting, Cycles, Messages, Codes, Pcs, None
  <2>2. cycle' \in [Threads -> Cycles]
    BY <1>8, <2>1 DEF Exit
  <2> QED
    BY <1>8, <2>2 DEF Exit, OutsideType, StaticsType, HistoryType, ModemType,
                      outside, timers, statics, history, modem
<1> QED
  BY <1>1, <1>2, <1>3, <1>4, <1>5, <1>6, <1>7, <1>8 DEF CycleStep

\* The steps of the other threads.
OutsideStep ==
  \/ InitModule \/ Connect \/ Start \/ SetCategory
  \/ TimePasses \/ ModuleBoots \/ OtherUrc
  \/ RestartTimer \/ EndGeneration \/ \E c \in Callers : CallStep(c)

\* A step of another thread starts at most one thread of the timer.
LEMMA OutsideStepCycle ==
  ASSUME OutsideStep
  PROVE  \/ cycle' = cycle
         \/ \E t \in Threads : At(t, "none") /\ Goto(t, "sleep") /\ timer' = t
BY DEF OutsideStep, InitModule, Connect, Start, SetCategory, RestartTimer, TimePasses,
       ModuleBoots, OtherUrc, EndGeneration, CallStep, CheckExpired, ClearExpired, StartTimer

LEMMA OutsideStepType ==
  ASSUME TypeOK, OutsideStep
  PROVE  TypeOK'
<1> USE TypeParts
<1>1. cycle' \in [Threads -> Cycles]
  BY OutsideStepCycle, GotoType DEF Pcs
<1>2. \A c, p : p \in CallPcs /\ Call(c, p) => calls' \in [Callers -> CallPcs]
  BY DEF Call, OutsideType
<1>3. commands < MaxCommands => commands + 1 \in 0..MaxCommands
  BY CollectionAssumption DEF CollectionAssumption, OutsideType
<1>4. boots < MaxBoots => boots + 1 \in 0..MaxBoots
  BY CollectionAssumption DEF CollectionAssumption, ModemType
<1>5. CASE InitModule \/ Connect \/ SetCategory
  BY <1>1, <1>3, <1>5 DEF InitModule, Connect, SetCategory, elsewhere, timers, statics, modem,
     history, OutsideType, StaticsType, HistoryType, ModemType
<1>k. UNCHANGED elsewhere => StaticsType' /\ HistoryType' /\ ModemType'
  BY DEF elsewhere, statics, modem, history, StaticsType, HistoryType, ModemType
<1>6. CASE Start \/ RestartTimer
  <2>1. calls' \in [Callers -> CallPcs]
    BY <1>2, <1>6 DEF Start, RestartTimer, CallPcs
  <2>2. OutsideType'
    BY <1>3, <1>6, <2>1 DEF Start, RestartTimer, OutsideType
  <2> QED
    BY <1>1, <1>6, <1>k, <2>2 DEF Start, RestartTimer
<1>9. CASE EndGeneration
  <2>1. calls' \in [Callers -> CallPcs]
    BY <1>2, <1>9 DEF EndGeneration, CallPcs
  <2>2. stranded' \in BOOLEAN
    BY <1>9, Zenon DEF EndGeneration
  <2>3. OutsideType'
    BY <1>9, <2>1, <2>2 DEF EndGeneration, OutsideType
  <2> QED
    BY <1>1, <1>9, <1>k, <2>3 DEF EndGeneration
<1>10. ASSUME NEW c \in Callers, CallStep(c) PROVE TypeOK'
  <2>1. calls' \in [Callers -> CallPcs]
    BY <1>2, <1>10 DEF CallStep, CheckExpired, ClearExpired, StartTimer, CallPcs
  <2>2. timer' \in Threads \cup {NoThread}
    BY <1>10 DEF CallStep, CheckExpired, ClearExpired, StartTimer, OutsideType
  <2>3. OutsideType'
    BY <1>10, <2>1, <2>2 DEF CallStep, CheckExpired, ClearExpired, StartTimer, OutsideType
  <2> QED
    BY <1>1, <1>10, <1>k, <2>3 DEF CallStep, CheckExpired, ClearExpired, StartTimer
<1>7. CASE TimePasses
  BY <1>1, <1>7 DEF TimePasses, outside, timers, modem, history, OutsideType, StaticsType,
     HistoryType, ModemType
<1>8. CASE ModuleBoots \/ OtherUrc
  <2>1. log' \in 0..LogCap /\ dropped' \in BOOLEAN
    <3>1. LogCap \in Nat /\ 1 \in 0..LogCap
      BY CollectionAssumption DEF CollectionAssumption
    <3>2. log # LogCap => log + 1 \in 0..LogCap
      BY <3>1 DEF ModemType
    <3>3. log' \in {0, 1, log + 1} /\ (log' = log + 1 => log # LogCap \/ log + 1 = 1)
      BY <1>8, <3>1 DEF ModuleBoots, OtherUrc, ModemType
    <3>4. dropped' \in BOOLEAN
      BY <1>8, Zenon DEF ModuleBoots, OtherUrc
    <3> QED
      BY <3>1, <3>2, <3>3, <3>4
  <2>2. OutsideType' /\ StaticsType' /\ HistoryType'
    BY <1>8 DEF ModuleBoots, OtherUrc, outside, timers, statics, history, OutsideType,
       StaticsType, HistoryType
  <2>3. ModemType'
    BY <1>4, <1>8, <2>1 DEF ModuleBoots, OtherUrc, ModemType
  <2> QED
    BY <1>1, <2>2, <2>3
<1> QED
  BY <1>5, <1>6, <1>7, <1>8, <1>9, <1>10 DEF OutsideStep

LEMMA NextSteps == Next <=> OutsideStep \/ \E t \in Threads : CycleStep(t)
BY DEF Next, OutsideStep

LEMMA StutterType == TypeOK /\ UNCHANGED vars => TypeOK'
BY DEF TypeOK, vars, outside, timers, statics, modem, history

\* Every reachable state of the collection cycle has its type, also while
\* cycles interleave.
THEOREM TypeCorrect == Spec => []TypeOK
<1>1. Init => TypeOK
  BY InitType
<1>2. TypeOK /\ [Next]_vars => TypeOK'
  BY NextSteps, CycleStepType, OutsideStepType, StutterType
<1> QED
  BY <1>1, <1>2, PTL DEF Spec

-----------------------------------------------------------------------------
(* The stream *)

\* Only Compose touches the filter.
LEMMA FilterKept ==
  ASSUME [Next]_vars, ~ \E t \in Threads : Judge(t)
  PROVE  filter' = filter /\ fed' = fed
<1>1. CASE UNCHANGED vars
  BY <1>1 DEF vars, statics, history
<1>2. CASE OutsideStep
  BY <1>2 DEF OutsideStep, InitModule, Connect, Start, SetCategory, RestartTimer, TimePasses,
     ModuleBoots, OtherUrc, EndGeneration, CallStep, CheckExpired, ClearExpired, StartTimer,
     elsewhere, statics, history
<1>3. ASSUME NEW t \in Threads, CycleStep(t) PROVE filter' = filter /\ fed' = fed
  BY <1>3 DEF CycleStep, Begin, SlowStart, SlowDone, Drain, Fast, Publish, Exit, statics, history
<1> QED
  BY <1>1, <1>2, <1>3, NextSteps

\* Judge composes some state.
LEMMA JudgeComposes ==
  ASSUME NEW t \in Threads, Judge(t)
  PROVE  \E rat, c : c \in States /\ Compose(t, rat, c)
BY DerivesState DEF Judge

\* Every step is one of Debounce, or leaves the stream alone, and keeps what
\* ties the candidate to what the filter was given.
LEMMA StreamStep ==
  ASSUME TypeOK, FilterInv, [Next]_vars
  PROVE  /\ FilterInv'
         /\ [\E s \in States : Stream!Find(s)]_(Stream!debounceVars)
<1>1. CASE ~ \E t \in Threads : Judge(t)
  BY <1>1, FilterKept DEF FilterInv, Stream!debounceVars
<1>2. ASSUME NEW t \in Threads, Judge(t)
      PROVE  /\ FilterInv'
             /\ [\E s \in States : Stream!Find(s)]_(Stream!debounceVars)
  <2>1. PICK rat, c : c \in States /\ Compose(t, rat, c)
    BY <1>2, JudgeComposes
  <2>2. CASE cycle[t].msg.reboot
    <3>1. filter' = filter /\ fed' = fed
      BY <2>1, <2>2 DEF Compose
    <3> QED
      BY <3>1 DEF FilterInv, Stream!debounceVars
  <2>3. CASE ~ cycle[t].msg.reboot
    <3>1. filter' = Filtered(c) /\ fed' = c
      BY <2>1, <2>3 DEF Compose
    <3>2. FilterInv'
      BY <2>1, <3>1, FilterStep DEF FilterInv
    <3>3. Stream!Find(c)
      BY <2>1, <3>1, FilterStep DEF Stream!Find
    <3> QED
      BY <2>1, <3>2, <3>3
  <2> QED
    BY <2>2, <2>3
<1> QED
  BY <1>1, <1>2

\* The error_code stream of the cycles keeps the promise on ErrorCodeEdgeFilter,
\* also while cycles interleave step by step.
THEOREM StreamImplementsDebounce == Spec => ImplementsDebounce
<1>1. Init => FilterInv /\ Stream!DebounceInit
  BY DEF Init, FilterInv, NoFilter, Stream!DebounceInit
<1>2. TypeOK /\ FilterInv /\ [Next]_vars =>
        FilterInv' /\ [\E s \in States : Stream!Find(s)]_(Stream!debounceVars)
  BY StreamStep
<1> QED
  BY <1>1, <1>2, TypeCorrect, PTL DEF Spec, ImplementsDebounce, Stream!DebounceSpec

-----------------------------------------------------------------------------
(* One cycle at a time *)

\* At most one thread works on a cycle.
OneCycle ==
  \A t, u \in Threads : cycle[t].pc \in Working /\ cycle[u].pc \in Working => t = u

\* Between Compose and Publish the message carries what the platform is to
\* know, or nothing that it does not know; otherwise it knows the held state.
SyncInv ==
  /\ \A t \in Threads : At(t, "publish") =>
       IF cycle[t].msg.code \in States THEN filter.last = cycle[t].msg.code
                                       ELSE told = filter.last
  /\ (\A t \in Threads : ~ At(t, "publish")) => told = filter.last

\* What sw_version has announced is pending, taken, or in the message.
RebootInv ==
  \A t \in Threads : cycle[t].msg.sw =>
    /\ cycle[t].pc \in {"slow", "fill", "drain"} => boot
    /\ cycle[t].pc \in {"fast", "judge"} => cycle[t].msg.reboot
    /\ At(t, "publish") => cycle[t].msg.code = "REBOOT"

LEMMA OthersKept ==
  ASSUME TypeOK, NEW t \in Threads, CycleStep(t)
  PROVE  \A u \in Threads \ {t} : cycle'[u] = cycle[u]
<1>1. cycle \in [Threads -> Cycles]
  BY TypeParts
<1>2. \A p, m : Carry(t, p, m) => \A u \in Threads \ {t} : cycle'[u] = cycle[u]
  BY <1>1 DEF Carry
<1>3. \A p : Goto(t, p) => \A u \in Threads \ {t} : cycle'[u] = cycle[u]
  BY <1>1 DEF Goto
<1>4. Judge(t) => \E p, m : Carry(t, p, m)
  BY DEF Judge, Compose
<1>5. Begin(t) \/ Drain(t) \/ Publish(t) => \E p, m : Carry(t, p, m)
  BY DEF Begin, Drain, Publish
<1>6. SlowStart(t) \/ SlowDone(t) \/ Fast(t) => \E p : Goto(t, p)
  BY DEF SlowStart, SlowDone, Fast
<1>7. Exit(t) => \A u \in Threads \ {t} : cycle'[u] = cycle[u]
  BY <1>1 DEF Exit
<1> QED
  BY <1>2, <1>3, <1>4, <1>5, <1>6, <1>7 DEF CycleStep

\* A thread gets to work only when no other does.
LEMMA Alone ==
  ASSUME TypeOK, OneCycle, ~ Overlaps, NEW t \in Threads, CycleStep(t)
  PROVE  /\ Exit(t) \/ \A u \in Threads \ {t} : cycle[u].pc \notin Working
         /\ Exit(t) => cycle'[t] = NoCycle
<1>1. cycle \in [Threads -> Cycles]
  BY TypeParts
<1>2. Begin(t) => \A u \in Threads \ {t} : cycle[u].pc \notin Working
  BY DEF Begin
<1>3. SlowStart(t) \/ SlowDone(t) \/ Drain(t) \/ Fast(t) \/ Judge(t) \/ Publish(t) =>
        cycle[t].pc \in Working
  BY DEF SlowStart, SlowDone, Drain, Fast, Judge, Publish, At, Working, Pcs
<1>4. Exit(t) => cycle'[t] = NoCycle
  BY <1>1 DEF Exit
<1> QED
  BY <1>2, <1>3, <1>4 DEF CycleStep, OneCycle

LEMMA OneCycleStep ==
  ASSUME TypeOK, OneCycle, ~ Overlaps, [Next]_vars
  PROVE  OneCycle'
<1>1. cycle \in [Threads -> Cycles]
  BY TypeParts
<1>2. CASE UNCHANGED vars
  BY <1>2 DEF vars, OneCycle
<1>3. CASE OutsideStep
  <2>1. CASE cycle' = cycle
    BY <2>1 DEF OneCycle
  <2>2. ASSUME NEW t \in Threads, At(t, "none"), Goto(t, "sleep") PROVE OneCycle'
    <3>1. cycle'[t].pc = "sleep" /\ \A u \in Threads \ {t} : cycle'[u] = cycle[u]
      BY <1>1, <2>2 DEF Goto, Cycles
    <3> QED
      BY <3>1 DEF OneCycle, Working
  <2> QED
    BY <1>3, <2>1, <2>2, OutsideStepCycle
<1>4. ASSUME NEW t \in Threads, CycleStep(t) PROVE OneCycle'
  <2>1. \A u \in Threads \ {t} : cycle'[u] = cycle[u]
    BY <1>4, OthersKept
  <2>2. CASE \A u \in Threads \ {t} : cycle[u].pc \notin Working
    BY <2>1, <2>2 DEF OneCycle
  <2>3. CASE cycle'[t] = NoCycle
    BY <2>1, <2>3 DEF OneCycle, NoCycle, Working
  <2> QED
    BY <1>4, <2>2, <2>3, Alone
<1> QED
  BY <1>2, <1>3, <1>4, NextSteps

LEMMA GotoThere ==
  ASSUME TypeOK, NEW t \in Threads, NEW p, Goto(t, p)
  PROVE  cycle'[t].pc = p /\ cycle'[t].msg = cycle[t].msg
BY TypeParts DEF Goto, Cycles

LEMMA CarriedThere ==
  ASSUME TypeOK, NEW t \in Threads, NEW p, NEW m, Carry(t, p, m)
  PROVE  cycle'[t].pc = p /\ cycle'[t].msg = m
BY TypeParts DEF Carry

\* The other threads stay where they are; but for Exit they are at rest.
LEMMA SyncStep ==
  ASSUME TypeOK, OneCycle, SyncInv, ~ Overlaps, [Next]_vars
  PROVE  SyncInv'
<1>1. CASE UNCHANGED vars
  BY <1>1 DEF vars, statics, history, SyncInv, At
<1>2. CASE OutsideStep
  <2>1. told' = told /\ filter' = filter
    BY <1>2 DEF OutsideStep, InitModule, Connect, Start, SetCategory, RestartTimer, TimePasses,
       ModuleBoots, OtherUrc, EndGeneration, CallStep, CheckExpired, ClearExpired, StartTimer,
       elsewhere, statics, history
  <2>2. CASE cycle' = cycle
    BY <2>1, <2>2 DEF SyncInv, At
  <2>3. ASSUME NEW t \in Threads, At(t, "none"), Goto(t, "sleep") PROVE SyncInv'
    <3>1. cycle'[t].pc = "sleep" /\ cycle[t].pc = "none"
      BY <2>3, GotoThere DEF At
    <3>2. \A u \in Threads \ {t} : cycle'[u] = cycle[u]
      BY <2>3, TypeParts DEF Goto
    <3> QED
      BY <2>1, <3>1, <3>2 DEF SyncInv, At
  <2> QED
    BY <1>2, <2>2, <2>3, OutsideStepCycle
<1>3. ASSUME NEW t \in Threads, CycleStep(t) PROVE SyncInv'
  <2>1. \A u \in Threads \ {t} : cycle'[u] = cycle[u]
    BY <1>3, OthersKept
  <2>2. CASE Exit(t)
    <3>0. cycle'[t] = NoCycle
      BY <1>3, <2>2, Alone
    <3>1. cycle'[t].pc = "none" /\ cycle[t].pc = "sleep"
      BY <2>2, <3>0 DEF Exit, At, NoCycle
    <3>2. told' = told /\ filter' = filter
      BY <2>2 DEF Exit, statics, history
    <3> QED
      BY <2>1, <3>1, <3>2 DEF SyncInv, At
  <2>3. ASSUME ~ Exit(t) PROVE \A u \in Threads \ {t} : ~ At(u, "publish") /\ ~ At(u, "publish")'
    BY <1>3, <2>1, <2>3, Alone DEF At, Working, Pcs
  <2>4. CASE Begin(t) \/ SlowStart(t) \/ SlowDone(t) \/ Drain(t) \/ Fast(t)
    <3>1. told' = told /\ filter' = filter
      BY <2>4 DEF Begin, SlowStart, SlowDone, Drain, Fast, history
    <3>2. ~ At(t, "publish") /\ ~ Exit(t)
      BY <2>4 DEF Begin, SlowStart, SlowDone, Drain, Fast, At, Exit
    <3>3. cycle'[t].pc # "publish"
      <4>1. Begin(t) \/ Drain(t) => \E p, m : p # "publish" /\ Carry(t, p, m)
        BY DEF Begin, Drain
      <4>2. SlowStart(t) \/ SlowDone(t) \/ Fast(t) => \E p : p # "publish" /\ Goto(t, p)
        BY DEF SlowStart, SlowDone, Fast
      <4> QED
        BY <2>4, <4>1, <4>2, GotoThere, CarriedThere
    <3> QED
      BY <2>3, <3>1, <3>2, <3>3 DEF SyncInv, At
  <2>5. CASE Judge(t)
    <3>1. PICK rat, c : c \in States /\ Compose(t, rat, c)
      BY <2>5, JudgeComposes
    <3>2. ~ At(t, "publish") /\ ~ Exit(t)
      BY <2>5 DEF Judge, At, Exit
    <3>3. told = filter.last /\ told' = told
      BY <2>3, <2>5, <3>2 DEF SyncInv, Judge
    <3>4. Filtered(c).last \in {c, filter.last}
      BY TypeParts DEF Filtered, StaticsType
    <3> DEFINE code == IF cycle[t].msg.reboot THEN "REBOOT"
                       ELSE IF Filtered(c).last # filter.last THEN c
                       ELSE IF Switched(rat) THEN "G4G5_SWITCH" ELSE None
    <3>5. Carry(t, "publish", [cycle[t].msg EXCEPT !.code = code])
      BY <3>1 DEF Compose
    <3>6. cycle'[t].pc = "publish" /\ cycle'[t].msg.code = code
      BY <3>5, CarriedThere, TypeParts DEF Cycles, Messages
    <3>7. IF code \in States THEN filter'.last = code ELSE told' = filter'.last
      <4>1. filter' = IF cycle[t].msg.reboot THEN filter ELSE Filtered(c)
        BY <3>1 DEF Compose
      <4>2. {"REBOOT", "G4G5_SWITCH", None} \cap States = {}
        BY DEF States, None
      <4> QED
        BY <3>1, <3>3, <3>4, <4>1, <4>2
    <3> HIDE DEF code
    <3> QED
      BY <2>3, <3>2, <3>6, <3>7 DEF SyncInv, At
  <2>6. CASE Publish(t)
    <3>1. At(t, "publish") /\ ~ Exit(t) /\ filter' = filter
      BY <2>6 DEF Publish, Exit, At, statics
    <3>2. told' = filter'.last
      BY <2>6, <3>1 DEF Publish, SyncInv
    <3>3. cycle'[t].pc # "publish"
      BY <2>6, CarriedThere DEF Publish
    <3> QED
      BY <2>3, <3>1, <3>2, <3>3 DEF SyncInv, At
  <2> QED
    BY <1>3, <2>2, <2>4, <2>5, <2>6 DEF CycleStep
<1> QED
  BY <1>1, <1>2, <1>3, NextSteps

\* Without overlapping cycles the platform knows the state that the filter
\* takes for reported, whatever the module answers and commands arrive.
THEOREM PlatformKnows == ASSUME ~ Overlaps PROVE Spec => []PlatformInSync
<1>1. Init => OneCycle /\ SyncInv
  BY DEF Init, OneCycle, SyncInv, At, NoCycle, Working, NoFilter
<1>2. TypeOK /\ OneCycle /\ SyncInv /\ [Next]_vars => OneCycle' /\ SyncInv'
  BY OneCycleStep, SyncStep
<1>3. SyncInv => PlatformInSync
  BY DEF SyncInv, PlatformInSync
<1> QED
  BY <1>1, <1>2, <1>3, TypeCorrect, PTL DEF Spec

\* Every step keeps the announcement until it is in a message.
LEMMA RebootStep ==
  ASSUME TypeOK, OneCycle, RebootInv, ~ Overlaps, [Next]_vars
  PROVE  RebootInv'
<1>1. CASE UNCHANGED vars
  BY <1>1 DEF vars, statics, RebootInv, At
<1>2. CASE OutsideStep
  <2>1. boot' = boot
    BY <1>2 DEF OutsideStep, InitModule, Connect, Start, SetCategory, RestartTimer, TimePasses,
       ModuleBoots, OtherUrc, EndGeneration, CallStep, CheckExpired, ClearExpired, StartTimer,
       elsewhere, statics
  <2>2. CASE cycle' = cycle
    BY <2>1, <2>2 DEF RebootInv, At
  <2>3. ASSUME NEW t \in Threads, At(t, "none"), Goto(t, "sleep") PROVE RebootInv'
    <3>1. cycle'[t].pc = "sleep"
      BY <2>3, GotoThere
    <3>2. \A u \in Threads \ {t} : cycle'[u] = cycle[u]
      BY <2>3, TypeParts DEF Goto
    <3> QED
      BY <2>1, <3>1, <3>2 DEF RebootInv, At
  <2> QED
    BY <1>2, <2>2, <2>3, OutsideStepCycle
<1>3. ASSUME NEW t \in Threads, CycleStep(t) PROVE RebootInv'
  <2>1. \A u \in Threads \ {t} : cycle'[u] = cycle[u]
    BY <1>3, OthersKept
  <2>2. CASE Exit(t)
    <3>1. cycle'[t] = NoCycle
      BY <1>3, <2>2, Alone
    <3>2. ~ cycle'[t].msg.sw
      BY <3>1 DEF NoCycle, Resting
    <3>3. boot' = boot
      BY <2>2 DEF Exit, statics
    <3> QED
      BY <2>1, <3>2, <3>3 DEF RebootInv, At
  <2>3. ASSUME ~ Exit(t)
        PROVE  \A u \in Threads \ {t} :
                 cycle'[u].pc \notin {"slow", "fill", "drain", "fast", "judge", "publish"}
    BY <1>3, <2>1, <2>3, Alone DEF Working, Pcs
  <2>m. cycle[t].msg \in Messages /\ Resting \in Messages
    BY TypeParts DEF Cycles, Resting, Messages, Codes, None
  <2>4. CASE Begin(t)
    <3> DEFINE sw == category = "full" /\ ~ swSent
               p == IF due THEN "slow" ELSE "drain"
    <3>1. cycle'[t].pc = p /\ cycle'[t].msg = [Resting EXCEPT !.sw = sw]
      BY <2>4, CarriedThere DEF Begin
    <3>2. sw => boot'
      BY <2>4 DEF Begin
    <3>3. cycle'[t].msg.sw => sw
      BY <3>1, Zenon DEF Resting
    <3>4. ~ Exit(t) /\ p \in {"slow", "drain"}
      BY <2>4 DEF Begin, Exit
    <3> HIDE DEF sw, p
    <3> QED
      BY <2>3, <3>1, <3>2, <3>3, <3>4 DEF RebootInv, At
  <2>5. CASE SlowStart(t) \/ SlowDone(t)
    <3>1. PICK p \in {"fill", "drain"} : Goto(t, p)
      BY <2>5 DEF SlowStart, SlowDone
    <3>2. cycle'[t].pc = p /\ cycle'[t].msg = cycle[t].msg
      BY <3>1, GotoThere
    <3>3. cycle[t].pc \in {"slow", "fill"} /\ boot' = boot /\ ~ Exit(t)
      BY <2>5 DEF SlowStart, SlowDone, At, Exit
    <3> QED
      BY <2>3, <3>1, <3>2, <3>3 DEF RebootInv, At
  <2>6. CASE Drain(t)
    <3> DEFINE p == IF snapValid THEN "fast" ELSE "judge"
               r == boot \/ log > 0
    <3>1. cycle'[t].pc = p /\ cycle'[t].msg = [cycle[t].msg EXCEPT !.reboot = r]
      BY <2>6, CarriedThere DEF Drain
    <3>2. cycle'[t].msg.sw = cycle[t].msg.sw /\ cycle'[t].msg.reboot = r
      BY <2>m, <3>1 DEF Messages
    <3>3. cycle[t].msg.sw => boot
      BY <2>6 DEF Drain, At, RebootInv
    <3>4. ~ Exit(t) /\ p \in {"fast", "judge"}
      BY <2>6 DEF Drain, At, Exit
    <3>5. boot => r
      OBVIOUS
    <3> HIDE DEF p, r
    <3> QED
      BY <2>3, <3>1, <3>2, <3>3, <3>4, <3>5 DEF RebootInv, At
  <2>7. CASE Fast(t)
    <3>1. cycle'[t].pc = "judge" /\ cycle'[t].msg = cycle[t].msg
      BY <2>7, GotoThere DEF Fast
    <3>2. cycle[t].pc = "fast" /\ ~ Exit(t)
      BY <2>7 DEF Fast, At, Exit
    <3> QED
      BY <2>3, <3>1, <3>2 DEF RebootInv, At
  <2>8. CASE Judge(t)
    <3>1. PICK rat, c : c \in States /\ Compose(t, rat, c)
      BY <2>8, JudgeComposes
    <3>2. cycle[t].pc = "judge" /\ ~ Exit(t)
      BY <2>8 DEF Judge, At, Exit
    <3>3. PICK code : /\ Carry(t, "publish", [cycle[t].msg EXCEPT !.code = code])
                      /\ cycle[t].msg.reboot => code = "REBOOT"
      BY <3>1 DEF Compose
    <3>4. cycle'[t].pc = "publish" /\ cycle'[t].msg = [cycle[t].msg EXCEPT !.code = code]
      BY <3>3, CarriedThere
    <3>5. cycle'[t].msg.sw = cycle[t].msg.sw /\ cycle'[t].msg.code = code
      BY <2>m, <3>4 DEF Messages
    <3> QED
      BY <2>3, <3>2, <3>3, <3>4, <3>5 DEF RebootInv, At
  <2>9. CASE Publish(t)
    <3>1. cycle'[t].pc = "sleep" /\ ~ Exit(t)
      BY <2>9, CarriedThere DEF Publish, At, Exit
    <3> QED
      BY <2>3, <3>1 DEF RebootInv, At
  <2> QED
    BY <1>3, <2>2, <2>4, <2>5, <2>6, <2>7, <2>8, <2>9 DEF CycleStep
<1> QED
  BY <1>1, <1>2, <1>3, NextSteps

\* Without overlapping cycles the message with sw_version says REBOOT.
THEOREM StartIsReboot == ASSUME ~ Overlaps PROVE Spec => []SwVersionWithReboot
<1>1. Init => OneCycle /\ RebootInv
  BY DEF Init, OneCycle, RebootInv, At, NoCycle, Resting, Working
<1>2. TypeOK /\ OneCycle /\ RebootInv /\ [Next]_vars => OneCycle' /\ RebootInv'
  BY OneCycleStep, RebootStep
<1>3. RebootInv => SwVersionWithReboot
  BY DEF RebootInv, SwVersionWithReboot
<1> QED
  BY <1>1, <1>2, <1>3, TypeCorrect, PTL DEF Spec

-----------------------------------------------------------------------------
(* Causes of a REBOOT *)

\* The cycles that have taken a restart and not yet sent it.
Carrying == {t \in Threads : cycle[t].msg.reboot}
Logged == IF log > 0 THEN 1 ELSE 0
Pending == IF boot THEN 1 ELSE 0
Begun == IF swSent THEN 1 ELSE 0

\* A restart is in the log, pending, taken by one cycle, or reported: every
\* REBOOT that was sent or is on its way has a cause of its own.
CauseInv ==
  /\ IsFiniteSet(Carrying)
  /\ \A t \in Threads :
       /\ cycle[t].msg.reboot => cycle[t].pc \in {"fast", "judge", "publish"}
       /\ cycle[t].msg.code = "REBOOT" => cycle[t].msg.reboot
  /\ reboots + Cardinality(Carrying) + Logged + Pending <= boots + Begun

\* A cycle that keeps what it carries, takes a restart, or gives it away.
LEMMA CarryingStep ==
  ASSUME IsFiniteSet(Carrying), NEW t \in Threads,
         \A u \in Threads \ {t} : cycle'[u] = cycle[u]
  PROVE  /\ IsFiniteSet(Carrying')
         /\ Cardinality(Carrying) \in Nat /\ Cardinality(Carrying') \in Nat
         /\ cycle[t].msg.reboot <=> cycle'[t].msg.reboot =>
              Cardinality(Carrying') = Cardinality(Carrying)
         /\ Cardinality(Carrying') <= Cardinality(Carrying) + 1
         /\ cycle[t].msg.reboot /\ ~ cycle'[t].msg.reboot =>
              Cardinality(Carrying) = Cardinality(Carrying') + 1
         /\ ~ cycle'[t].msg.reboot => Cardinality(Carrying') <= Cardinality(Carrying)
<1> DEFINE A == Carrying
           B == {u \in Threads : cycle'[u].msg.reboot}
<1>1. Carrying' = B
  BY DEF Carrying
<1>2. /\ cycle[t].msg.reboot <=> t \in A
      /\ cycle'[t].msg.reboot <=> t \in B
      /\ \A u : u # t => (u \in A <=> u \in B)
  BY DEF Carrying
<1>3. Cardinality(A) \in Nat
  BY FS_CardinalityType
<1> HIDE DEF A, B
<1>4. IsFiniteSet(A)
  BY DEF A
<1>5. CASE t \in A <=> t \in B
  <2>1. A = B
    BY <1>2, <1>5
  <2> QED
    BY <1>1, <1>2, <1>3, <1>4, <2>1 DEF A
<1>6. CASE t \in A /\ t \notin B
  <2>1. B = A \ {t}
    BY <1>2, <1>6
  <2>2. IsFiniteSet(B) /\ Cardinality(B) = Cardinality(A) - 1
    BY <1>4, <1>6, <2>1, FS_RemoveElement
  <2>3. Cardinality(B) \in Nat
    BY <2>2, FS_CardinalityType
  <2> QED
    BY <1>1, <1>2, <1>3, <1>6, <2>2, <2>3 DEF A
<1>7. CASE t \notin A /\ t \in B
  <2>1. B = A \cup {t}
    BY <1>2, <1>7
  <2>2. IsFiniteSet(B) /\ Cardinality(B) = Cardinality(A) + 1
    BY <1>4, <1>7, <2>1, FS_AddElement
  <2> QED
    BY <1>1, <1>2, <1>3, <1>7, <2>2 DEF A
<1> QED
  BY <1>5, <1>6, <1>7

LEMMA CycleStepCause ==
  ASSUME TypeOK, CauseInv, NEW t \in Threads, CycleStep(t)
  PROVE  CauseInv'
<1> DEFINE n == Cardinality(Carrying)
           k == Cardinality(Carrying')
<1>1. \A u \in Threads \ {t} : cycle'[u] = cycle[u]
  BY OthersKept
<1>2. /\ IsFiniteSet(Carrying') /\ n \in Nat /\ k \in Nat
      /\ cycle[t].msg.reboot <=> cycle'[t].msg.reboot => k = n
      /\ k <= n + 1
      /\ cycle[t].msg.reboot /\ ~ cycle'[t].msg.reboot => n = k + 1
      /\ ~ cycle'[t].msg.reboot => k <= n
  BY <1>1, CarryingStep DEF CauseInv
<1>3. /\ reboots \in Nat /\ boots \in Nat /\ reboots' \in Nat /\ boots' \in Nat
      /\ log \in Nat /\ boot \in BOOLEAN /\ swSent \in BOOLEAN
  BY CycleStepType, CollectionAssumption, TypeParts DEF HistoryType, ModemType, StaticsType
<1>13. n \in Nat /\ k \in Nat
  BY <1>2
<1>14. reboots \in Nat /\ boots \in Nat /\ reboots' \in Nat
  BY <1>3
<1>4. reboots + n + Logged + Pending <= boots + Begun
  BY DEF CauseInv
<1>0. cycle[t].msg \in Messages /\ Resting \in Messages /\ Resting.code # "REBOOT"
      /\ ~ Resting.reboot
  BY TypeParts DEF Cycles, Resting, Messages, Codes, None
<1>5. ASSUME reboots' + k + Logged' + Pending' <= boots' + Begun',
             cycle'[t].msg.reboot => cycle'[t].pc \in {"fast", "judge", "publish"},
             cycle'[t].msg.code = "REBOOT" => cycle'[t].msg.reboot
      PROVE  CauseInv'
  <2>1. \A u \in Threads :
          /\ cycle'[u].msg.reboot => cycle'[u].pc \in {"fast", "judge", "publish"}
          /\ cycle'[u].msg.code = "REBOOT" => cycle'[u].msg.reboot
    BY <1>1, <1>5 DEF CauseInv
  <2> QED
    BY <1>2, <1>5, <2>1 DEF CauseInv, Logged, Pending, Begun
<1>6. /\ cycle[t].msg.reboot => cycle[t].pc \in {"fast", "judge", "publish"}
      /\ cycle[t].msg.code = "REBOOT" => cycle[t].msg.reboot
  BY DEF CauseInv
<1> HIDE DEF n, k
<1>7. CASE Begin(t)
  <2> DEFINE sw == category = "full" /\ ~ swSent
  <2>1. cycle'[t].msg = [Resting EXCEPT !.sw = sw]
    BY <1>7, CarriedThere DEF Begin
  <2>2. ~ cycle'[t].msg.reboot /\ cycle'[t].msg.code # "REBOOT"
    BY <1>0, <2>1 DEF Messages
  <2>3. /\ reboots' = reboots /\ boots' = boots /\ log' = log
        /\ boot' = (boot \/ sw) /\ swSent' = (swSent \/ sw)
    BY <1>7 DEF Begin, modem
  <2>4. reboots' + k + Logged' + Pending' <= boots' + Begun'
    <3>1. CASE sw
      <4>1. ~ swSent /\ swSent' /\ boot'
        BY <2>3, <3>1
      <4>2. Begun' = 1 /\ Begun = 0 /\ Pending' = 1 /\ Pending \in {0, 1}
            /\ Logged \in {0, 1} /\ Logged' = Logged
        BY <2>3, <4>1 DEF Logged, Pending, Begun
      <4> QED
        BY <1>2, <1>3, <1>4, <2>2, <2>3, <4>2
    <3>2. CASE ~ sw
      <4>1. Begun' = Begun /\ Pending' = Pending /\ Logged' = Logged
        BY <1>3, <2>3, <3>2 DEF Logged, Pending, Begun
      <4>2. Begun \in {0, 1} /\ Pending \in {0, 1} /\ Logged \in {0, 1}
        BY DEF Logged, Pending, Begun
      <4> QED
        BY <1>2, <1>3, <1>4, <2>2, <2>3, <4>1, <4>2
    <3> QED
      BY <3>1, <3>2
  <2> QED
    BY <1>5, <2>2, <2>4
<1>8. CASE SlowStart(t) \/ SlowDone(t) \/ Fast(t)
  <2>1. PICK p : /\ Goto(t, p)
                 /\ cycle[t].pc = "fast" => p = "judge"
                 /\ cycle[t].pc \in {"slow", "fill", "fast"}
    BY <1>8 DEF SlowStart, SlowDone, Fast, At
  <2>2. cycle'[t].pc = p /\ cycle'[t].msg = cycle[t].msg
    BY <2>1, GotoThere
  <2>3. UNCHANGED <<reboots, boots, log, boot, swSent>>
    BY <1>8 DEF SlowStart, SlowDone, Fast, modem, history
  <2>4. k = n
    BY <1>2, <2>2
  <2>9. reboots' + k + Logged' + Pending' <= boots' + Begun'
    BY <1>4, <2>3, <2>4 DEF Logged, Pending, Begun
  <2> QED
    BY <1>5, <1>6, <2>1, <2>2, <2>9
<1>9. CASE Drain(t)
  <2> DEFINE r == boot \/ log > 0
             p == IF snapValid THEN "fast" ELSE "judge"
  <2>1. cycle'[t].pc = p /\ cycle'[t].msg = [cycle[t].msg EXCEPT !.reboot = r]
    BY <1>9, CarriedThere DEF Drain
  <2>2. cycle'[t].msg.code = cycle[t].msg.code /\ cycle'[t].msg.reboot = r
    BY <1>0, <2>1 DEF Messages
  <2>3. ~ cycle[t].msg.reboot
    BY <1>6, <1>9 DEF Drain, At
  <2>4. UNCHANGED <<reboots, boots, swSent>> /\ log' = 0 /\ boot' = FALSE
    BY <1>9 DEF Drain, history
  <2>5. Logged' = 0 /\ Pending' = 0 /\ Begun' = Begun
        /\ Begun \in {0, 1} /\ Pending \in {0, 1} /\ Logged \in {0, 1}
    BY <2>4 DEF Logged, Pending, Begun
  <2>6. k <= n + Pending + Logged
    <3>1. CASE r
      <4>1. Pending = 1 \/ Logged = 1
        BY <3>1 DEF Logged, Pending, Begun
      <4> QED
        BY <1>2, <2>5, <4>1
    <3>2. CASE ~ r
      <4>1. k <= n
        BY <1>2, <2>2, <3>2
      <4>2. Pending \in Nat /\ Logged \in Nat
        BY DEF Logged, Pending, Begun
      <4> QED
        BY <1>2, <4>1, <4>2
    <3> QED
      BY <3>1, <3>2
  <2>7. reboots' + k + Logged' + Pending' <= boots' + Begun'
    BY <1>2, <1>3, <1>4, <2>4, <2>5, <2>6
  <2>8. p \in {"fast", "judge"}
    OBVIOUS
  <2> QED
    BY <1>5, <1>6, <2>1, <2>2, <2>3, <2>7, <2>8
<1>10. CASE Judge(t)
  <2>1. PICK rat, c : c \in States /\ Compose(t, rat, c)
    BY <1>10, JudgeComposes
  <2> DEFINE d == IF cycle[t].msg.reboot THEN "REBOOT"
                   ELSE IF Filtered(c).last # filter.last THEN c
                   ELSE IF Switched(rat) THEN "G4G5_SWITCH" ELSE None
  <2>2. Carry(t, "publish", [cycle[t].msg EXCEPT !.code = d])
    BY <2>1 DEF Compose
  <2>3. d = "REBOOT" => cycle[t].msg.reboot
    BY <2>1 DEF States, None
  <2> HIDE DEF d
  <2>4. PICK code : /\ Carry(t, "publish", [cycle[t].msg EXCEPT !.code = code])
                    /\ code = "REBOOT" => cycle[t].msg.reboot
    BY <2>2, <2>3
  <2>5. cycle'[t].pc = "publish" /\ cycle'[t].msg = [cycle[t].msg EXCEPT !.code = code]
    BY <2>4, CarriedThere
  <2>6. cycle'[t].msg.reboot = cycle[t].msg.reboot /\ cycle'[t].msg.code = code
    BY <1>0, <2>5 DEF Messages
  <2>7. reboots' = reboots /\ UNCHANGED <<boots, log, boot, swSent>>
    BY <1>10 DEF Judge, modem
  <2>8. k = n
    BY <1>2, <2>6
  <2>9. reboots' + k + Logged' + Pending' <= boots' + Begun'
    BY <1>4, <2>7, <2>8 DEF Logged, Pending, Begun
  <2> QED
    BY <1>5, <2>4, <2>5, <2>6, <2>9
<1>11. CASE Publish(t)
  <2>1. cycle'[t].msg = Resting
    BY <1>11, CarriedThere DEF Publish
  <2>2. UNCHANGED <<boots, log, boot, swSent>>
    BY <1>11 DEF Publish, statics
  <2>3. reboots' = reboots + (IF cycle[t].msg.code = "REBOOT" THEN 1 ELSE 0)
    BY <1>11 DEF Publish
  <2>4. Begun \in Nat /\ Pending \in Nat /\ Logged \in Nat
    BY DEF Logged, Pending, Begun
  <2>5. Begun' = Begun /\ Pending' = Pending /\ Logged' = Logged /\ boots' = boots
    BY <2>2 DEF Logged, Pending, Begun
  <2>6. CASE cycle[t].msg.code = "REBOOT"
    <3>1. n = k + 1 /\ reboots' = reboots + 1
      BY <1>2, <1>6, <1>0, <2>1, <2>3, <2>6
    <3>2. reboots + (k + 1) + Logged + Pending <= boots + Begun
      BY <1>4, <3>1
    <3>3. (reboots + 1) + k + Logged + Pending <= boots + Begun
      BY <1>13, <1>14, <2>4, <3>2
    <3> QED
      BY <1>5, <1>0, <2>1, <2>5, <3>1, <3>3
  <2>7. CASE cycle[t].msg.code # "REBOOT"
    <3>1. reboots' = reboots /\ k <= n
      BY <1>2, <1>0, <1>14, <2>1, <2>3, <2>7
    <3>2. reboots + k + Logged + Pending <= boots + Begun
      BY <1>4, <1>13, <1>14, <2>4, <3>1
    <3> QED
      BY <1>5, <1>0, <2>1, <2>5, <3>1, <3>2
  <2> QED
    BY <2>6, <2>7
<1>12. CASE Exit(t)
  <2>1. cycle'[t].msg = Resting
    BY <1>12, TypeParts DEF Exit, NoCycle
  <2>2. reboots' = reboots /\ UNCHANGED <<boots, log, boot, swSent>>
    BY <1>12 DEF Exit, statics, modem, history
  <2>3. ~ cycle[t].msg.reboot
    BY <1>6, <1>12 DEF Exit, At
  <2>4. k = n
    BY <1>2, <1>0, <2>1, <2>3
  <2>9. reboots' + k + Logged' + Pending' <= boots' + Begun'
    BY <1>4, <2>2, <2>4 DEF Logged, Pending, Begun
  <2> QED
    BY <1>5, <1>0, <2>1, <2>9
<1> QED
  BY <1>7, <1>8, <1>9, <1>10, <1>11, <1>12 DEF CycleStep

LEMMA CauseStep ==
  ASSUME TypeOK, CauseInv, [Next]_vars
  PROVE  CauseInv'
<1>1. /\ reboots \in Nat /\ boots \in Nat /\ log \in Nat /\ boot \in BOOLEAN
      /\ swSent \in BOOLEAN
  BY CollectionAssumption, TypeParts DEF HistoryType, ModemType, StaticsType
<1>2. IsFiniteSet(Carrying) /\ Cardinality(Carrying) \in Nat
  BY FS_CardinalityType DEF CauseInv
<1>3. CASE UNCHANGED vars
  BY <1>3 DEF vars, statics, modem, history, CauseInv, Carrying, Logged, Pending, Begun
<1>4. CASE OutsideStep
  <2>1. reboots' = reboots /\ boot' = boot /\ swSent' = swSent
    BY <1>4 DEF OutsideStep, InitModule, Connect, Start, SetCategory, RestartTimer, TimePasses,
       ModuleBoots, OtherUrc, EndGeneration, CallStep, CheckExpired, ClearExpired, StartTimer,
       elsewhere, statics, history
  <2>2. \/ boots' = boots /\ (log' = log \/ log > 0)
        \/ boots' = boots + 1 /\ log' = 1
    BY <1>4 DEF OutsideStep, InitModule, Connect, Start, SetCategory, RestartTimer, TimePasses,
       ModuleBoots, OtherUrc, EndGeneration, CallStep, CheckExpired, ClearExpired, StartTimer,
       elsewhere, modem
  <2>3. /\ IsFiniteSet(Carrying') /\ Cardinality(Carrying') = Cardinality(Carrying)
        /\ \A t \in Threads :
             /\ cycle'[t].msg.reboot => cycle'[t].pc \in {"fast", "judge", "publish"}
             /\ cycle'[t].msg.code = "REBOOT" => cycle'[t].msg.reboot
    <3>1. CASE cycle' = cycle
      BY <1>2, <3>1 DEF CauseInv, Carrying
    <3>2. ASSUME NEW t \in Threads, At(t, "none"), Goto(t, "sleep")
          PROVE  /\ IsFiniteSet(Carrying') /\ Cardinality(Carrying') = Cardinality(Carrying)
                 /\ \A u \in Threads :
                      /\ cycle'[u].msg.reboot => cycle'[u].pc \in {"fast", "judge", "publish"}
                      /\ cycle'[u].msg.code = "REBOOT" => cycle'[u].msg.reboot
      <4>1. cycle'[t].msg = cycle[t].msg /\ ~ cycle[t].msg.reboot
        BY <3>2, GotoThere DEF CauseInv, At
      <4>2. \A u \in Threads \ {t} : cycle'[u] = cycle[u]
        BY <3>2, TypeParts DEF Goto
      <4>3. IsFiniteSet(Carrying') /\ Cardinality(Carrying') = Cardinality(Carrying)
        BY <1>2, <4>1, <4>2, CarryingStep
      <4> QED
        BY <4>1, <4>2, <4>3 DEF CauseInv
    <3> QED
      BY <1>4, <3>1, <3>2, OutsideStepCycle
  <2>4. reboots' + Cardinality(Carrying') + Logged' + Pending' <= boots' + Begun'
    <3>1. Begun \in {0, 1} /\ Pending \in {0, 1} /\ Logged \in {0, 1}
      BY DEF Logged, Pending, Begun
    <3>2. reboots + Cardinality(Carrying) + Logged + Pending <= boots + Begun
      BY DEF CauseInv
    <3>3. log' = 1 => Logged' = 1
      BY DEF Logged
    <3>4. /\ Pending' = Pending /\ Begun' = Begun
          /\ log' = log \/ log > 0 => Logged' <= Logged /\ Logged' \in {0, 1}
      BY <2>1 DEF Pending, Begun, Logged
    <3>5. CASE boots' = boots /\ (log' = log \/ log > 0)
      BY <1>1, <1>2, <2>1, <2>3, <3>1, <3>2, <3>4, <3>5
    <3>6. CASE boots' = boots + 1 /\ log' = 1
      BY <1>1, <1>2, <2>1, <2>3, <3>1, <3>2, <3>3, <3>4, <3>6
    <3> QED
      BY <2>2, <3>5, <3>6
  <2> QED
    BY <2>3, <2>4 DEF CauseInv, Logged, Pending, Begun
<1>5. ASSUME NEW t \in Threads, CycleStep(t) PROVE CauseInv'
  BY <1>5, CycleStepCause
<1> QED
  BY <1>3, <1>4, <1>5, NextSteps

(***************************************************************************)
(* The platform is told of no restart that did not happen: there are never *)
(* more messages with REBOOT than restarts of the module and of the        *)
(* process, also while cycles interleave step by step.                     *)
(***************************************************************************)
THEOREM RebootsAreCaused == Spec => []RebootsHaveCause
<1>1. Init => CauseInv
  <2> SUFFICES ASSUME Init PROVE CauseInv
    OBVIOUS
  <2>1. Carrying = {}
    BY DEF Init, Carrying, NoCycle, Resting
  <2>2. IsFiniteSet(Carrying) /\ Cardinality(Carrying) = 0
    BY <2>1, FS_EmptySet
  <2>3. \A t \in Threads : ~ cycle[t].msg.reboot /\ cycle[t].msg.code # "REBOOT"
    BY DEF Init, NoCycle, Resting, None
  <2>4. Logged = 0 /\ Pending = 0 /\ Begun = 0 /\ reboots = 0 /\ boots = 0
    BY DEF Init, Logged, Pending, Begun
  <2> QED
    BY <2>2, <2>3, <2>4 DEF CauseInv
<1>2. TypeOK /\ CauseInv /\ [Next]_vars => CauseInv'
  BY CauseStep
<1>3. TypeOK /\ CauseInv => RebootsHaveCause
  <2> SUFFICES ASSUME TypeOK, CauseInv PROVE RebootsHaveCause
    OBVIOUS
  <2>1. Cardinality(Carrying) \in Nat
    BY FS_CardinalityType DEF CauseInv
  <2>2. reboots \in Nat /\ boots \in Nat
    BY CollectionAssumption, TypeParts DEF HistoryType, ModemType
  <2>3. Logged \in {0, 1} /\ Pending \in {0, 1} /\ Begun \in {0, 1}
    BY DEF Logged, Pending, Begun
  <2>4. reboots <= boots + Begun
    BY <2>1, <2>2, <2>3 DEF CauseInv
  <2> QED
    BY <2>4 DEF RebootsHaveCause, Logged, Pending, Begun
<1> QED
  BY <1>1, <1>2, <1>3, TypeCorrect, PTL DEF Spec

=============================================================================
