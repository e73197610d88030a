-------------------------- MODULE AtClientProofs --------------------------
(***************************************************************************)
(* Proofs about the AT channel (AtClient), for any number of callers,      *)
(* commands, unsolicited lines and sessions, with or without time limits   *)
(* and failing writes.                                                     *)
(***************************************************************************)
EXTENDS AtClient, TLAPS

(***************************************************************************)
(* Where the main thread is decides which threads run.                     *)
(***************************************************************************)
Reading == {"started", "handshake", "up", "wake", "joinReader"}
Woken == {"joinReader", "stopUrc", "joinWorker", "reset"}

PhaseInv ==
  /\ reader.pc # "off" => ctl \in Reading
  /\ ctl \in Reading \cup {"stopUrc"} => running
  /\ reading => ctl \in {"started", "handshake", "up"}
  /\ shutting => ctl \in Woken

(***************************************************************************)
(* The slot has one holder, and pending_ is its command.                   *)
(***************************************************************************)
OwnSlot(c) ==
  /\ pending.id = caller[c].id /\ pending.query = caller[c].query
  /\ pending # NoPending
  /\ inFlight \/ shutting

SlotInv ==
  /\ \A c, d \in Callers : Holds(c) /\ Holds(d) => c = d
  /\ \A c \in Callers : Holds(c) => OwnSlot(c)
  /\ pending # NoPending => lastCmd = IF pending.query THEN "query" ELSE "plain"

(***************************************************************************)
(* The number of a call is new until its command is written.               *)
(***************************************************************************)
Untold(id) ==
  /\ \A i \in DOMAIN todo : todo[i].id # id
  /\ \A i \in DOMAIN wire : wire[i].of # id
  /\ reader.line.of # id

FreshInv ==
  /\ \A c \in Callers : caller[c].pc # "idle" => caller[c].id \in 1 .. calls
  /\ \A c, d \in Callers :
       caller[c].pc # "idle" /\ caller[d].pc # "idle" /\ caller[c].id = caller[d].id => c = d
  /\ pending.id <= calls
  /\ \A c \in Callers : caller[c].pc = "serial" => pending.id # caller[c].id
  /\ \A c \in Callers : caller[c].pc \in {"serial", "write"} => Untold(caller[c].id)
  /\ \A i \in DOMAIN todo : todo[i].id <= calls
  /\ \A i \in DOMAIN wire : wire[i].of <= calls
  /\ reader.line.of <= calls

(***************************************************************************)
(* What is on the way of the answer to a command that found nothing left   *)
(* of an earlier one.                                                      *)
(***************************************************************************)
Urc == [kind |-> "reg", of |-> 0]
Data == [kind |-> IF pending.query THEN "reg" ELSE "data", of |-> pending.id]
Final == [kind |-> "final", of |-> pending.id]

Mine == pending # NoPending /\ pending.clean
Awake == ctl \notin Woken
InHand == reader.pc \in {"log", "dispatch", "buffer"}
OnWire(line) == \E i \in DOMAIN wire : wire[i] = line
Owed == todo # <<>>

UrcInv ==
  /\ \A i \in DOMAIN wire : wire[i].of = 0 => wire[i] = Urc
  /\ InHand /\ reader.line.of = 0 => reader.line = Urc

\* Only the command's own lines, and unsolicited ones.
OnlyOwn ==
  /\ \A i \in DOMAIN todo :
       i = 1 /\ todo[i].id = pending.id /\ todo[i].query = pending.query
  /\ \A i \in DOMAIN wire : wire[i] \in {Urc, Data, Final}
  /\ InHand => reader.line \in {Urc, Data}
  /\ reader.pc = "buffer" => pending.query
  /\ \A line \in pending.lines : line = Data \/ (line = Urc /\ pending.query)

\* Each once, the data line before the result.
InOrder ==
  \A i, j \in DOMAIN wire :
    /\ wire[i] = Data /\ wire[j] = Data => i = j
    /\ wire[i] = Final /\ wire[j] = Final => i = j
    /\ wire[i] = Data /\ wire[j] = Final => i < j

\* What the module has not said yet is nowhere.
NotYet ==
  /\ Owed => port /\ ~OnWire(Final)
  /\ Owed /\ ~todo[1].said =>
       ~OnWire(Data) /\ reader.line.of # pending.id /\ Data \notin pending.lines
  /\ \A c \in Callers : caller[c].pc = "write" => ~Owed /\ Data \notin pending.lines

\* What it has said is not lost before the slot is woken.
NotLost ==
  Awake =>
    /\ (Owed /\ todo[1].said) \/ OnWire(Final) =>
         \/ Data \in pending.lines
         \/ reader.pc = "buffer" /\ reader.line = Data
         \/ OnWire(Data)
    /\ pending.done =>
         /\ pending.by = pending.id /\ Data \in pending.lines
         /\ ~Owed /\ ~OnWire(Final) /\ ~OnWire(Data)
         /\ InHand => reader.line # Data
    /\ ~pending.done => pending.by = 0
    /\ reader.pc \in {"log", "dispatch"} => reader.line = Urc
    /\ reader.pc = "buffer" /\ reader.line = Data => ~OnWire(Data)

StreamInv == Mine => OnlyOwn /\ InOrder /\ NotYet /\ NotLost

-----------------------------------------------------------------------------
(* Type *)

CallerStates == [pc : {"idle", "serial", "write", "wait"}, id : 0..MaxCalls, query : BOOLEAN]
ReaderStates == [pc : {"off", "read", "log", "dispatch", "buffer", "exited"},
                 line : Lines \cup {NoLine}]
Commands == [id : Ids, query : BOOLEAN, said : BOOLEAN]
Pendings == {NoPending} \cup
  [id : Ids, query : BOOLEAN, done : BOOLEAN, by : 0..MaxCalls,
   lines : SUBSET Lines, clean : BOOLEAN]

\* The conjuncts of TypeOK that take more than a look at an assignment.
ThreadType == reader \in ReaderStates /\ caller \in [Callers -> CallerStates]
LineType == wire \in Seq(Lines) /\ todo \in Seq(Commands)
            /\ queue \in Seq(Lines) /\ log \in Seq(Lines) /\ Len(log) <= LogCap
SlotType == pending \in Pendings /\ lastCmd \in {"none", "plain", "query"}
FlagType == port \in BOOLEAN /\ reading \in BOOLEAN /\ running \in BOOLEAN
            /\ inFlight \in BOOLEAN /\ shutting \in BOOLEAN
PlaceType ==
  /\ ctl \in {"closed", "opened", "started", "handshake", "up",
              "shut", "wake", "joinReader", "stopUrc", "joinWorker", "reset", "close"}
  /\ worker \in {"off", "wait", "handle", "exited"}
CountType == calls \in 0..MaxCalls /\ urcs \in 0..MaxUrcs /\ sessions \in 0..MaxSessions

LEMMA TypeParts ==
  /\ TypeOK <=> ThreadType /\ LineType /\ SlotType /\ FlagType /\ PlaceType /\ CountType
  /\ TypeOK' <=> ThreadType' /\ LineType' /\ SlotType' /\ FlagType' /\ PlaceType' /\ CountType'
BY DEF TypeOK, ThreadType, LineType, SlotType, FlagType, PlaceType, CountType,
       CallerStates, ReaderStates, Commands, Pendings

\* A sequence, what Append makes of it and what Tail leaves of it, index by index.
LEMMA SeqIndex ==
  ASSUME NEW S, NEW q \in Seq(S)
  PROVE  /\ Len(q) \in Nat
         /\ DOMAIN q = 1..Len(q)
         /\ \A i \in DOMAIN q : q[i] \in S /\ i \in Nat /\ i >= 1
         /\ q # <<>> => 1 \in DOMAIN q /\ Head(q) = q[1]
OBVIOUS

LEMMA Appended ==
  ASSUME NEW S, NEW q \in Seq(S), NEW x \in S, NEW a, a = Append(q, x)
  PROVE  /\ a \in Seq(S)
         /\ a # <<>>
         /\ Len(q) + 1 \in DOMAIN a /\ a[Len(q) + 1] = x
         /\ \A i \in DOMAIN q : i \in DOMAIN a /\ a[i] = q[i] /\ i < Len(q) + 1
         /\ \A i \in DOMAIN a : (i \in DOMAIN q /\ a[i] = q[i]) \/ (i = Len(q) + 1 /\ a[i] = x)
OBVIOUS

LEMMA Tailed ==
  ASSUME NEW S, NEW q \in Seq(S), q # <<>>, NEW t, t = Tail(q)
  PROVE  /\ t \in Seq(S)
         /\ \A i \in DOMAIN t : i \in Nat /\ i + 1 \in DOMAIN q /\ i + 1 # 1 /\ t[i] = q[i + 1]
         /\ \A i \in DOMAIN q : i = 1 \/ (i - 1 \in DOMAIN t /\ t[i - 1] = q[i])
OBVIOUS

\* The module answers its oldest command.
LEMMA Said ==
  ASSUME todo \in Seq(Commands), todo # <<>>, todo' = [todo EXCEPT ![1].said = TRUE]
  PROVE  /\ todo' \in Seq(Commands) /\ todo' # <<>>
         /\ DOMAIN todo' = DOMAIN todo
         /\ todo'[1].said
         /\ \A i \in DOMAIN todo : todo'[i].id = todo[i].id /\ todo'[i].query = todo[i].query
<1>1. todo' = [todo EXCEPT ![1] = [todo[1] EXCEPT !.said = TRUE]]
  OBVIOUS
<1>2. 1 \in DOMAIN todo /\ todo[1] \in Commands
  BY SeqIndex
<1>3. [todo[1] EXCEPT !.said = TRUE] \in Commands
  BY <1>2 DEF Commands
<1>4. todo' \in Seq(Commands) /\ todo' # <<>> /\ DOMAIN todo' = DOMAIN todo
  BY <1>1, <1>2, <1>3
<1>5. todo'[1] = [todo[1] EXCEPT !.said = TRUE]
  BY <1>1, <1>2
<1>6. todo'[1].said /\ todo'[1].id = todo[1].id /\ todo'[1].query = todo[1].query
  BY <1>2, <1>5 DEF Commands
<1>7. \A i \in DOMAIN todo : i # 1 => todo'[i] = todo[i]
  BY <1>1
<1> QED
  BY <1>4, <1>6, <1>7

\* A caller goes on within command().
LEMMA CallerGoesTo ==
  ASSUME caller \in [Callers -> CallerStates], NEW c \in Callers,
         NEW p \in {"idle", "serial", "write", "wait"},
         caller' = [caller EXCEPT ![c].pc = p]
  PROVE  /\ caller' \in [Callers -> CallerStates]
         /\ caller'[c].pc = p /\ caller'[c].id = caller[c].id
         /\ caller'[c].query = caller[c].query
         /\ \A d \in Callers : d # c => caller'[d] = caller[d]
<1>1. caller' = [caller EXCEPT ![c] = [caller[c] EXCEPT !.pc = p]]
  OBVIOUS
<1>2. caller[c] \in CallerStates
  OBVIOUS
<1>3. [caller[c] EXCEPT !.pc = p] \in CallerStates
  BY <1>2 DEF CallerStates
<1>4. caller'[c] = [caller[c] EXCEPT !.pc = p]
  BY <1>1
<1> QED
  BY <1>1, <1>2, <1>3, <1>4 DEF CallerStates

\* ... or begins or ends it.
LEMMA CallerSet ==
  ASSUME caller \in [Callers -> CallerStates], NEW c \in Callers, NEW x \in CallerStates,
         caller' = [caller EXCEPT ![c] = x]
  PROVE  /\ caller' \in [Callers -> CallerStates]
         /\ caller'[c] = x
         /\ \A d \in Callers : d # c => caller'[d] = caller[d]
OBVIOUS

LEMMA EmptyLog == <<>> \in Seq(Lines) /\ Len(<<>>) <= LogCap
<1>1. 0 <= LogCap /\ Len(<<>>) = 0
  BY AtAssumption DEF AtAssumption
<1> QED
  BY <1>1

LEMMA IdleState == Idle \in CallerStates
BY AtAssumption DEF AtAssumption, Idle, CallerStates

LEMMA IdRange ==
  /\ \A n \in Ids : n \in 0..MaxCalls
  /\ 0 \in 0..MaxCalls
  /\ NoLine.of = 0 /\ NoLine.kind = "none" /\ NoLine \notin Lines
BY AtAssumption DEF AtAssumption, Ids, NoLine, Lines

-----------------------------------------------------------------------------
\* The number of a call that goes on is one of the numbers, and the reader goes
\* on with a line only where it has one.
Numbered ==
  /\ \A c \in Callers : caller[c].pc # "idle" => caller[c].id \in Ids
  /\ InHand => reader.line \in Lines /\ reader.line.kind = "reg"
TypeInv == TypeOK /\ Numbered

LEMMA InitType == Init => TypeInv
<1> SUFFICES ASSUME Init PROVE TypeInv
  OBVIOUS
<1>1. ThreadType
  BY IdleState DEF Init, ThreadType, ReaderStates
<1>2. LineType
  BY AtAssumption DEF Init, LineType, AtAssumption
<1>3. SlotType /\ FlagType /\ PlaceType
  BY DEF Init, SlotType, FlagType, PlaceType, Pendings
<1>4. CountType
  BY AtAssumption DEF Init, CountType, AtAssumption
<1>5. Numbered
  BY DEF Init, Numbered, Idle, InHand
<1> QED
  BY <1>1, <1>2, <1>3, <1>4, <1>5, TypeParts DEF TypeInv

\* A call begins.
LEMMA EnterType ==
  ASSUME TypeInv, NEW c \in Callers, NEW query \in BOOLEAN, Enter(c, query)
  PROVE  /\ ThreadType' /\ CountType' /\ FlagType' /\ SlotType' /\ LineType' /\ Numbered'
         /\ caller'[c] = [pc |-> "serial", id |-> calls + 1, query |-> query]
         /\ calls' = calls + 1 /\ calls \in Nat
         /\ \A d \in Callers : d # c => caller'[d] = caller[d]
<1>1. ThreadType /\ LineType /\ SlotType /\ FlagType /\ CountType
  BY TypeParts DEF TypeInv
<1>2. calls' \in Ids /\ calls' \in 0..MaxCalls /\ calls \in Nat /\ calls' = calls + 1
  BY <1>1, AtAssumption DEF Enter, CountType, Ids, AtAssumption
<1>3. [pc |-> "serial", id |-> calls', query |-> query] \in CallerStates
  BY <1>2 DEF CallerStates
<1>4. /\ caller' \in [Callers -> CallerStates]
      /\ caller'[c] = [pc |-> "serial", id |-> calls', query |-> query]
      /\ \A d \in Callers : d # c => caller'[d] = caller[d]
  BY <1>1, <1>3, CallerSet DEF Enter, ThreadType
<1>5. Numbered'
  BY <1>2, <1>4 DEF TypeInv, Numbered, InHand, Enter
<1>6. ThreadType' /\ CountType'
  BY <1>1, <1>2, <1>4 DEF Enter, ThreadType, CountType, module
<1>7. FlagType' /\ SlotType' /\ LineType'
  BY <1>1 DEF Enter, LineType, SlotType, FlagType, slot, module
<1> QED
  BY <1>2, <1>4, <1>5, <1>6, <1>7

\* The end of command() leaves no pending command and an idle caller.
LEMMA ReleaseType ==
  ASSUME TypeInv, NEW c \in Callers, Release(c)
  PROVE  TypeInv'
<1>1. ThreadType /\ LineType /\ SlotType /\ FlagType /\ PlaceType /\ CountType
  BY TypeParts DEF TypeInv
<1>2. /\ caller' \in [Callers -> CallerStates]
      /\ caller'[c] = Idle
      /\ \A d \in Callers : d # c => caller'[d] = caller[d]
  BY <1>1, IdleState, CallerSet DEF ThreadType, Release
<1>3. Numbered'
  BY <1>2 DEF TypeInv, Numbered, Idle, InHand, Release
<1>4. ThreadType' /\ LineType' /\ SlotType' /\ PlaceType' /\ CountType'
  BY <1>1, <1>2 DEF Release, ThreadType, LineType, SlotType, PlaceType, CountType, module, bounds,
     Pendings
<1>5. FlagType'
  BY <1>1 DEF Release, FlagType
<1> QED
  BY <1>3, <1>4, <1>5, TypeParts DEF TypeInv

\* The steps of a thread in command().
LEMMA CallType ==
  ASSUME TypeInv, NEW c \in Callers, Call(c) \/ CallStep(c)
  PROVE  TypeInv'
<1>1. ThreadType /\ LineType /\ SlotType /\ FlagType /\ PlaceType /\ CountType
  BY TypeParts DEF TypeInv
<1>2. caller[c] \in CallerStates
  BY <1>1 DEF ThreadType
<1>3. CASE Call(c)
  <2>1. PICK query \in BOOLEAN : Enter(c, query)
    BY <1>3, AtAssumption DEF Call, AtAssumption
  <2>2. PlaceType'
    BY <1>1, <1>3, <2>1 DEF Call, Enter, PlaceType
  <2> QED
    BY <2>1, <2>2, EnterType, TypeParts DEF TypeInv
<1>4. CASE TakeSlot(c)
  <2>1. /\ caller' \in [Callers -> CallerStates]
        /\ caller'[c].pc = "write" /\ caller'[c].id = caller[c].id
        /\ \A d \in Callers : d # c => caller'[d] = caller[d]
    BY <1>1, <1>4, CallerGoesTo DEF TakeSlot, ThreadType
  <2>2. NothingLeft \in BOOLEAN
    BY DEF NothingLeft
  <2>3. caller[c].id \in Ids /\ caller[c].query \in BOOLEAN
    BY <1>2, <1>4 DEF TakeSlot, TypeInv, Numbered, CallerStates
  <2>4. pending' \in Pendings
    BY <1>4, <2>2, <2>3, IdRange DEF TakeSlot, Pendings, NoPending
  <2>5. lastCmd' \in {"none", "plain", "query"}
    BY <1>4 DEF TakeSlot
  <2>6. Numbered'
    BY <1>4, <2>1, <2>3 DEF TypeInv, Numbered, InHand, TakeSlot
  <2>7. FlagType'
    BY <1>1, <1>4 DEF TakeSlot, FlagType
  <2>8. ThreadType' /\ LineType' /\ PlaceType' /\ CountType'
    BY <1>1, <1>4, <2>1 DEF TakeSlot, ThreadType, LineType, PlaceType, CountType, module, bounds
  <2> QED
    BY <2>4, <2>5, <2>6, <2>7, <2>8, TypeParts DEF TypeInv, SlotType
<1>5. CASE GiveUpSlot(c)
  <2>1. /\ caller' \in [Callers -> CallerStates]
        /\ caller'[c] = Idle
        /\ \A d \in Callers : d # c => caller'[d] = caller[d]
    BY <1>1, <1>5, IdleState, CallerSet DEF ThreadType, GiveUpSlot
  <2>2. Numbered'
    BY <1>5, <2>1 DEF TypeInv, Numbered, Idle, InHand, GiveUpSlot
  <2>3. ThreadType' /\ LineType' /\ SlotType' /\ PlaceType' /\ CountType'
    BY <1>1, <1>5, <2>1 DEF GiveUpSlot, ThreadType, LineType, SlotType, PlaceType, CountType,
       slot, module, bounds
  <2>4. FlagType'
    BY <1>1, <1>5 DEF GiveUpSlot, FlagType, slot
  <2> QED
    BY <2>2, <2>3, <2>4, TypeParts DEF TypeInv
<1>6. CASE Write(c)
  <2>1. /\ caller' \in [Callers -> CallerStates]
        /\ caller'[c].pc = "wait" /\ caller'[c].id = caller[c].id
        /\ \A d \in Callers : d # c => caller'[d] = caller[d]
    BY <1>1, <1>6, CallerGoesTo DEF Write, ThreadType
  <2>2. caller[c].id \in Ids /\ caller[c].query \in BOOLEAN
    BY <1>2, <1>6 DEF Write, TypeInv, Numbered, CallerStates
  <2>3. [id |-> caller[c].id, query |-> caller[c].query, said |-> FALSE] \in Commands
    BY <2>2 DEF Commands
  <2>4. todo' \in Seq(Commands)
    BY <1>1, <1>6, <2>3, Appended DEF Write, LineType
  <2>5. Numbered'
    BY <1>6, <2>1, <2>2 DEF TypeInv, Numbered, InHand, Write
  <2>6. ThreadType' /\ LineType' /\ SlotType' /\ PlaceType' /\ CountType'
    BY <1>1, <1>6, <2>1, <2>4 DEF Write, ThreadType, LineType, SlotType, PlaceType, CountType,
       slot, bounds
  <2>7. FlagType'
    BY <1>1, <1>6 DEF Write, FlagType, slot
  <2> QED
    BY <2>5, <2>6, <2>7, TypeParts DEF TypeInv
<1>7. CASE WriteFails(c) \/ Return(c) \/ TimeOut(c)
  BY <1>7, ReleaseType DEF WriteFails, Return, TimeOut
<1>8. CASE Segfault(c)
  <2>1. caller' \in [Callers -> CallerStates] /\ \A d \in Callers : caller'[d] = Idle
    BY <1>8, IdleState DEF Segfault
  <2>2. Numbered'
    BY <1>8, <2>1 DEF Segfault, Numbered, Idle, InHand
  <2>3. LineType'
    BY <1>1, <1>8, EmptyLog DEF Segfault, LineType
  <2>4. ThreadType' /\ SlotType' /\ PlaceType' /\ CountType'
    BY <1>1, <1>8, <2>1 DEF Segfault, ThreadType, SlotType, PlaceType, CountType, ReaderStates,
       bounds
  <2>5. FlagType'
    BY <1>8 DEF Segfault, FlagType
  <2> QED
    BY <2>2, <2>3, <2>4, <2>5, TypeParts DEF TypeInv
<1> QED
  BY <1>3, <1>4, <1>5, <1>6, <1>7, <1>8 DEF CallStep

\* The pending command with another answer, or with none.
LEMMA PendingType ==
  ASSUME pending \in Pendings
  PROVE  /\ \A n \in 0..MaxCalls :
              (IF pending = NoPending THEN pending
               ELSE [pending EXCEPT !.done = TRUE, !.by = n]) \in Pendings
         /\ \A line \in Lines :
              (IF pending = NoPending THEN pending
               ELSE [pending EXCEPT !.lines = @ \cup {line}]) \in Pendings
         /\ (IF pending = NoPending THEN pending ELSE [pending EXCEPT !.clean = FALSE]) \in Pendings
         /\ NoPending \in Pendings
BY DEF Pendings

\* The steps of the reader.
LEMMA ReaderType ==
  ASSUME TypeInv, ReaderStep
  PROVE  TypeInv'
<1>1. ThreadType /\ LineType /\ SlotType /\ FlagType /\ PlaceType /\ CountType
  BY TypeParts DEF TypeInv
<1>2. PlaceType' /\ CountType' /\ caller' = caller
  BY <1>1 DEF PlaceType, CountType, ReaderStep, ReadFinal, ReadReg, LogUrc,
     Dispatch, ReadData, Buffer, ReaderExit, readerOnly, bounds
<1>3. FlagType'
  <2>1. UNCHANGED <<port, reading, running, inFlight, shutting>>
    BY DEF ReaderStep, ReadFinal, ReadReg, LogUrc, Dispatch, ReadData, Buffer, ReaderExit,
       readerOnly
  <2> QED
    BY <1>1, <2>1 DEF FlagType
<1>4. ASSUME Read PROVE wire' \in Seq(Lines) /\ Next1 \in Lines
  BY <1>1, <1>4, SeqIndex, Tailed DEF Read, Next1, LineType
<1>5. reader \in ReaderStates /\ (InHand => reader.line \in Lines /\ reader.line.kind = "reg")
  BY <1>1 DEF ThreadType, TypeInv, Numbered
<1>6. lastCmd' = lastCmd /\ todo' = todo
  BY DEF ReaderStep, ReadFinal, ReadReg, LogUrc, Dispatch, ReadData, Buffer, ReaderExit,
     readerOnly
<1> DEFINE handOK == InHand => reader.line \in Lines /\ reader.line.kind = "reg"
           lines == /\ wire \in Seq(Lines) /\ queue \in Seq(Lines)
                    /\ log \in Seq(Lines) /\ Len(log) <= LogCap
<1>7. CASE ReadFinal
  <2>1. Next1.of \in 0..MaxCalls
    BY <1>4, <1>7 DEF ReadFinal, Lines
  <2>2. pending' \in Pendings
    BY <1>1, <1>7, <2>1, PendingType DEF ReadFinal, SlotType
  <2> QED
    BY <1>1, <1>2, <1>3, <1>4, <1>5, <1>6, <1>7, <2>2, TypeParts
    DEF ReadFinal, ThreadType, LineType, SlotType, TypeInv, Numbered, InHand
<1>8. CASE ReadReg
  <2>1. reader' \in ReaderStates /\ reader'.line = Next1
    BY <1>4, <1>8 DEF ReadReg, ReaderStates
  <2> QED
    BY <1>1, <1>2, <1>3, <1>4, <1>6, <1>8, <2>1, TypeParts
    DEF ReadReg, ThreadType, LineType, SlotType, TypeInv, Numbered, InHand
<1>9. CASE LogUrc
  <2>1. reader' \in ReaderStates /\ reader'.line = reader.line /\ reader.line \in Lines
        /\ reader.line.kind = "reg"
    BY <1>5, <1>9 DEF LogUrc, ReaderStates, InHand
  <2>2. log' \in Seq(Lines) /\ Len(log') <= LogCap
    BY <1>1, <1>9, <2>1, AtAssumption DEF LogUrc, LineType, AtAssumption
  <2> QED
    BY <1>1, <1>2, <1>3, <1>6, <1>9, <2>1, <2>2, TypeParts
    DEF LogUrc, ThreadType, LineType, SlotType, TypeInv, Numbered, InHand
<1>10. CASE Dispatch
  <2>1. reader' \in ReaderStates /\ reader'.pc = "read" /\ reader.line \in Lines
    BY <1>5, <1>10 DEF Dispatch, ReaderStates, InHand
  <2>2. queue' \in Seq(Lines)
    BY <1>1, <1>10, <2>1, Appended DEF Dispatch, LineType
  <2> QED
    BY <1>1, <1>2, <1>3, <1>6, <1>10, <2>1, <2>2, TypeParts
    DEF Dispatch, ThreadType, LineType, SlotType, TypeInv, Numbered, InHand
<1>11. CASE ReadData
  <2>1. pending' \in Pendings
    BY <1>1, <1>4, <1>11, PendingType DEF ReadData, Keep, SlotType
  <2> QED
    BY <1>1, <1>2, <1>3, <1>4, <1>5, <1>6, <1>11, <2>1, TypeParts
    DEF ReadData, ThreadType, LineType, SlotType, TypeInv, Numbered, InHand
<1>12. CASE Buffer
  <2>1. reader' \in ReaderStates /\ reader'.pc = "read" /\ reader.line \in Lines
    BY <1>5, <1>12 DEF Buffer, ReaderStates, InHand
  <2>2. pending' \in Pendings
    BY <1>1, <1>12, <2>1, PendingType DEF Buffer, Keep, SlotType
  <2> QED
    BY <1>1, <1>2, <1>3, <1>6, <1>12, <2>1, <2>2, TypeParts
    DEF Buffer, ThreadType, LineType, SlotType, TypeInv, Numbered, InHand
<1>13. CASE ReaderExit
  <2>1. reader' \in ReaderStates /\ reader'.pc = "exited"
    BY <1>5, <1>13 DEF ReaderExit, ReaderStates
  <2> QED
    BY <1>1, <1>2, <1>3, <1>6, <1>13, <2>1, TypeParts
    DEF ReaderExit, ThreadType, LineType, SlotType, TypeInv, Numbered, InHand
<1> QED
  BY <1>7, <1>8, <1>9, <1>10, <1>11, <1>12, <1>13 DEF ReaderStep

\* The steps of the worker and of the collection cycle.
LEMMA WorkerType ==
  ASSUME TypeInv, WorkerStep \/ DrainUrcLog
  PROVE  TypeInv'
<1>1. ThreadType /\ LineType /\ SlotType /\ FlagType /\ PlaceType /\ CountType
  BY TypeParts DEF TypeInv
<1>2. FlagType'
  <2>1. UNCHANGED <<port, reading, running, inFlight, shutting>>
    BY DEF WorkerStep, TakeUrc, HandledUrc, WorkerExit, DrainUrcLog, workerOnly, slot
  <2> QED
    BY <1>1, <2>1 DEF FlagType
<1>3. UNCHANGED <<reader, caller, slot, module, bounds, ctl>>
  BY DEF WorkerStep, TakeUrc, HandledUrc, WorkerExit, DrainUrcLog, workerOnly, threads
<1>4. Numbered' /\ ThreadType' /\ SlotType' /\ CountType'
  BY <1>1, <1>3 DEF TypeInv, Numbered, InHand, ThreadType, SlotType, CountType, slot, module,
     bounds
<1>5. LineType' /\ PlaceType'
  <2>1. queue' = queue \/ (queue # <<>> /\ queue' = Tail(queue))
    BY DEF WorkerStep, TakeUrc, HandledUrc, WorkerExit, DrainUrcLog
  <2>2. queue' \in Seq(Lines)
    BY <1>1, <2>1, Tailed DEF LineType
  <2>3. log' = log \/ log' = <<>>
    BY DEF WorkerStep, TakeUrc, HandledUrc, WorkerExit, DrainUrcLog, workerOnly
  <2>4. log' \in Seq(Lines) /\ Len(log') <= LogCap
    BY <1>1, <2>3, EmptyLog DEF LineType
  <2>5. worker' \in {"off", "wait", "handle", "exited"}
    BY <1>1 DEF WorkerStep, TakeUrc, HandledUrc, WorkerExit, DrainUrcLog, threads, PlaceType
  <2> QED
    BY <1>1, <1>3, <2>2, <2>4, <2>5 DEF LineType, PlaceType, module
<1> QED
  BY <1>2, <1>4, <1>5, TypeParts DEF TypeInv

\* The steps of the main thread.
LEMMA MainType ==
  ASSUME TypeInv, OpenPort \/ Opening \/ Disconnect \/ Closing
  PROVE  TypeInv'
<1>1. ThreadType /\ LineType /\ SlotType /\ FlagType /\ PlaceType /\ CountType
  BY TypeParts DEF TypeInv
<1>2. CASE SendAte0
  <2>1. Enter(Main, FALSE) /\ Main \in Callers
    BY <1>2, AtAssumption DEF SendAte0, AtAssumption
  <2>2. PlaceType'
    BY <1>1, <1>2, <2>1 DEF SendAte0, Enter, PlaceType
  <2> QED
    BY <2>1, <2>2, EnterType, TypeParts DEF TypeInv
<1>3. CASE ~ SendAte0
  <2>1. FlagType'
    BY <1>1, <1>3 DEF OpenPort, Opening, StartThreads, Connected, Disconnect, Closing, Wake,
       JoinReader, StopUrc, JoinWorker, Reset, ClosePort, FlagType, slot
  <2>2. PlaceType' /\ CountType'
    BY <1>1, <1>3, AtAssumption DEF OpenPort, Opening, StartThreads, Connected, Disconnect,
       Closing, Wake, JoinReader, StopUrc, JoinWorker, Reset, ClosePort, PlaceType, CountType,
       mainOnly, AtAssumption
  <2>3. caller' = caller /\ (reader' = reader \/ (reader'.pc \in {"off", "read"}
                                                  /\ reader' \in ReaderStates))
    BY <1>1, <1>3 DEF OpenPort, Opening, StartThreads, Connected, Disconnect, Closing, Wake,
       JoinReader, StopUrc, JoinWorker, Reset, ClosePort, ReaderStates, mainOnly
  <2>4. ThreadType' /\ Numbered'
    BY <1>1, <2>3 DEF ThreadType, TypeInv, Numbered, InHand
  <2>5. LineType'
    <3>1. /\ UNCHANGED <<queue, log, todo>>
          /\ wire' = wire \/ wire' = <<>>
      BY <1>3 DEF OpenPort, Opening, StartThreads, Connected, Disconnect, Closing, Wake,
         JoinReader, StopUrc, JoinWorker, Reset, ClosePort, mainOnly
    <3> QED
      BY <1>1, <3>1, EmptyLog DEF LineType
  <2>6. 0 \in 0..MaxCalls
    BY AtAssumption DEF AtAssumption
  <2>7. SlotType'
    BY <1>1, <1>3, <2>6, PendingType DEF OpenPort, Opening, StartThreads, Connected, Disconnect,
       Closing, Wake, JoinReader, StopUrc, JoinWorker, Reset, ClosePort, SlotType, slot
  <2> QED
    BY <2>1, <2>2, <2>4, <2>5, <2>7, TypeParts DEF TypeInv
<1> QED
  BY <1>2, <1>3

\* What the module sends.
LEMMA ModuleType ==
  ASSUME TypeInv, ModuleStep \/ SayUrc
  PROVE  TypeInv'
<1>1. ThreadType /\ LineType /\ SlotType /\ FlagType /\ PlaceType /\ CountType
  BY TypeParts DEF TypeInv
<1>2. FlagType'
  <2>1. UNCHANGED <<port, reading, running, inFlight, shutting>>
    BY DEF ModuleStep, SayData, SayFinal, SayNothing, SayUrc, modemOnly, slot
  <2> QED
    BY <1>1, <2>1 DEF FlagType
<1>3. UNCHANGED <<reader, caller, slot, ctl, worker, queue, log>>
  BY DEF ModuleStep, SayData, SayFinal, SayNothing, SayUrc, modemOnly, threads
<1>4. Numbered' /\ ThreadType' /\ SlotType' /\ PlaceType'
  BY <1>1, <1>3 DEF TypeInv, Numbered, InHand, ThreadType, SlotType, PlaceType, slot
<1>5. CountType'
  <2>1. UNCHANGED <<calls, sessions>> /\ (urcs' = urcs \/ (urcs < MaxUrcs /\ urcs' = urcs + 1))
    BY DEF ModuleStep, SayData, SayFinal, SayNothing, SayUrc, modemOnly, bounds
  <2> QED
    BY <1>1, <2>1, AtAssumption DEF CountType, AtAssumption
<1>6. todo' \in Seq(Commands)
  BY <1>1, Said, Tailed DEF LineType, ModuleStep, SayData, SayFinal, SayNothing, SayUrc
<1>7. todo # <<>> => todo[1] \in Commands /\ Head(todo) = todo[1]
  BY <1>1, SeqIndex DEF LineType
<1>8. ASSUME NEW line \in Lines, Send(line) PROVE wire' \in Seq(Lines)
  BY <1>1, <1>8, Appended DEF LineType, Send
<1>9. wire' \in Seq(Lines)
  <2>1. CASE SayData
    <3>1. [kind |-> IF Head(todo).query THEN "reg" ELSE "data", of |-> Head(todo).id] \in Lines
      BY <1>7, <2>1, IdRange DEF SayData, Lines, Commands
    <3> QED
      BY <1>8, <2>1, <3>1 DEF SayData
  <2>2. CASE SayFinal
    <3>1. [kind |-> "final", of |-> Head(todo).id] \in Lines
      BY <1>7, <2>2, IdRange DEF SayFinal, Lines, Commands
    <3> QED
      BY <1>8, <2>2, <3>1 DEF SayFinal
  <2>3. CASE SayNothing
    BY <1>1, <2>3 DEF SayNothing, LineType
  <2>4. CASE SayUrc
    <3>1. [kind |-> "reg", of |-> 0] \in Lines
      BY IdRange DEF Lines
    <3> QED
      BY <1>8, <2>4, <3>1 DEF SayUrc
  <2> QED
    BY <2>1, <2>2, <2>3, <2>4 DEF ModuleStep
<1>10. LineType'
  BY <1>1, <1>3, <1>6, <1>9 DEF LineType
<1> QED
  BY <1>2, <1>4, <1>5, <1>10, TypeParts DEF TypeInv

LEMMA TypeStep == TypeInv /\ [Next]_vars => TypeInv'
<1> SUFFICES ASSUME TypeInv, [Next]_vars PROVE TypeInv'
  OBVIOUS
<1>1. CASE UNCHANGED vars
  <2>1. ThreadType /\ LineType /\ SlotType /\ FlagType /\ PlaceType /\ CountType
    BY TypeParts DEF TypeInv
  <2>2. FlagType'
    BY <1>1, <2>1 DEF vars, slot, FlagType
  <2> QED
    BY <1>1, <2>1, <2>2, TypeParts DEF vars, slot, threads, module, bounds, TypeInv, Numbered,
       InHand, ThreadType, LineType, SlotType, PlaceType, CountType
<1> QED
  BY <1>1, CallType, ReaderType, WorkerType, MainType, ModuleType DEF Next

\* The type of the state, in every behaviour, whatever callers, the module and
\* the port do.
THEOREM TypeCorrect == Spec => []TypeOK
<1>1. TypeInv => TypeOK
  BY DEF TypeInv
<1> QED
  BY <1>1, InitType, TypeStep, PTL DEF Spec

-----------------------------------------------------------------------------
(* The threads and the main thread's place *)

LEMMA PhaseStep ==
  ASSUME TypeInv, PhaseInv, [Next]_vars
  PROVE  PhaseInv'
<1>1. ASSUME UNCHANGED <<ctl, reading, running, shutting>>, reader'.pc = "off" <=> reader.pc = "off"
      PROVE  PhaseInv'
  BY <1>1 DEF PhaseInv
<1>2. ASSUME NEW c \in Callers, CallStep(c) PROVE PhaseInv'
  <2>1. CASE Segfault(c)
    BY <2>1 DEF Segfault, PhaseInv, Reading
  <2>2. CASE ~ Segfault(c)
    <3>1. UNCHANGED <<ctl, reading, running, shutting, reader>>
      BY <1>2, <2>2 DEF CallStep, TakeSlot, GiveUpSlot, Write, WriteFails, Return, TimeOut,
         Release, slot
    <3> QED
      BY <1>1, <3>1
  <2> QED
    BY <2>1, <2>2
<1>3. ASSUME NEW c \in Callers, Call(c) PROVE PhaseInv'
  BY <1>1, <1>3 DEF Call, Enter, slot
<1>4. CASE ReaderStep
  <2>1. reader \in ReaderStates
    BY TypeParts DEF TypeInv, ThreadType
  <2>2. reader'.pc # "off" /\ reader.pc # "off"
    BY <1>4, <2>1 DEF ReaderStep, ReadFinal, ReadReg, LogUrc, Dispatch, ReadData, Buffer,
       ReaderExit, Read, ReaderStates
  <2> QED
    BY <1>1, <1>4, <2>2 DEF ReaderStep, ReadFinal, ReadReg, LogUrc, Dispatch, ReadData, Buffer,
       ReaderExit, readerOnly
<1>5. CASE WorkerStep \/ DrainUrcLog
  BY <1>1, <1>5 DEF WorkerStep, TakeUrc, HandledUrc, WorkerExit, DrainUrcLog, workerOnly,
     threads, slot
<1>6. CASE ModuleStep \/ SayUrc
  BY <1>1, <1>6 DEF ModuleStep, SayData, SayFinal, SayNothing, SayUrc, modemOnly, threads, slot
<1>7. CASE OpenPort \/ Opening \/ Disconnect \/ Closing
  BY <1>7 DEF OpenPort, Opening, StartThreads, SendAte0, Enter, Connected, Disconnect, Closing,
     Wake, JoinReader, StopUrc, JoinWorker, Reset, ClosePort, PhaseInv, Reading, Woken, slot
<1>8. CASE UNCHANGED vars
  BY <1>1, <1>8 DEF vars, threads, slot
<1> QED
  BY <1>2, <1>3, <1>4, <1>5, <1>6, <1>7, <1>8 DEF Next

\* The dispatcher runs while the reader may have a line for it, also when the
\* process ends in the middle of a disconnect: connect starts it before the
\* reader, disconnect joins the reader before it stops it.
THEOREM DispatcherRuns == Spec => []NoUrcDropped
<1>1. Init => PhaseInv
  BY DEF Init, PhaseInv, Reading
<1>2. PhaseInv => NoUrcDropped
  BY DEF PhaseInv, NoUrcDropped
<1>3. TypeInv /\ PhaseInv /\ [Next]_vars => (TypeInv /\ PhaseInv)'
  BY TypeStep, PhaseStep
<1> QED
  BY InitType, <1>1, <1>2, <1>3, PTL DEF Spec

-----------------------------------------------------------------------------
(* The slot *)

\* The holder of the slot has a pending command.
LEMMA HolderPending ==
  ASSUME SlotInv, NEW c \in Callers, Holds(c)
  PROVE  pending # NoPending /\ pending.id = caller[c].id /\ pending.query = caller[c].query
BY DEF SlotInv, OwnSlot

\* What a disconnect or the reader do to the pending command leaves it the
\* command that it is.
SameAs(p, q) ==
  p.id = q.id /\ p.query = q.query /\ (p = NoPending <=> q = NoPending)

LEMMA SameCommand ==
  ASSUME pending \in Pendings, pending # NoPending
  PROVE  /\ \A n \in 0..MaxCalls : SameAs([pending EXCEPT !.done = TRUE, !.by = n], pending)
         /\ \A line \in Lines : SameAs([pending EXCEPT !.lines = @ \cup {line}], pending)
         /\ SameAs([pending EXCEPT !.clean = FALSE], pending)
<1>1. 0 \notin Ids
  BY AtAssumption DEF Ids, AtAssumption
<1>2. pending \in [id : Ids, query : BOOLEAN, done : BOOLEAN, by : 0..MaxCalls,
                   lines : SUBSET Lines, clean : BOOLEAN]
  BY DEF Pendings
<1>3. pending.id # 0
  BY <1>1, <1>2
<1> QED
  BY <1>2, <1>3 DEF SameAs, NoPending

LEMMA SlotStep ==
  ASSUME Prompt, TypeInv, PhaseInv, SlotInv, [Next]_vars
  PROVE  SlotInv'
<1>1. ThreadType /\ LineType /\ SlotType /\ FlagType /\ PlaceType /\ CountType
  BY TypeParts DEF TypeInv
<1>2. ASSUME UNCHANGED <<caller, lastCmd>>,
             (inFlight \/ shutting) => (inFlight' \/ shutting'),
             SameAs(pending', pending)
      PROVE  SlotInv'
  BY <1>2 DEF SlotInv, OwnSlot, Holds, SameAs
<1>3. ASSUME NEW c \in Callers, UNCHANGED slot, Holds(c) <=> Holds(c)',
             Holds(c) => caller'[c].id = caller[c].id /\ caller'[c].query = caller[c].query,
             \A d \in Callers : d # c => caller'[d] = caller[d]
      PROVE  SlotInv'
  <2>1. \A d \in Callers : Holds(d)' <=> Holds(d)
    BY <1>3 DEF Holds
  <2>2. \A d \in Callers : Holds(d) => caller'[d].id = caller[d].id
                                       /\ caller'[d].query = caller[d].query
    BY <1>3
  <2> QED
    BY <1>3, <2>1, <2>2 DEF SlotInv, OwnSlot, slot
<1>4. ASSUME NEW c \in Callers, Holds(c), Release(c) PROVE SlotInv'
  <2>1. caller'[c] = Idle /\ \A d \in Callers : d # c => caller'[d] = caller[d]
    BY <1>1, <1>4, IdleState, CallerSet DEF ThreadType, Release
  <2>2. \A d \in Callers : ~ Holds(d)'
    BY <1>4, <2>1 DEF SlotInv, Holds, Idle
  <2> QED
    BY <1>4, <2>2 DEF SlotInv, Release
<1>5. ASSUME NEW c \in Callers, NEW query \in BOOLEAN, Enter(c, query) PROVE SlotInv'
  <2>1. /\ caller'[c] = [pc |-> "serial", id |-> calls + 1, query |-> query]
        /\ \A d \in Callers : d # c => caller'[d] = caller[d]
    BY <1>5, EnterType
  <2>2. ~ Holds(c) /\ ~ Holds(c)'
    BY <1>5, <2>1 DEF Enter, Holds
  <2> QED
    BY <1>3, <1>5, <2>1, <2>2 DEF Enter
<1>6. ASSUME NEW c \in Callers, CallStep(c) PROVE SlotInv'
  <2>1. CASE TakeSlot(c)
    <3>1. /\ caller'[c].pc = "write" /\ caller'[c].id = caller[c].id
          /\ caller'[c].query = caller[c].query
          /\ \A d \in Callers : d # c => caller'[d] = caller[d]
      BY <1>1, <2>1, CallerGoesTo DEF TakeSlot, ThreadType
    <3>2. \A d \in Callers : ~ Holds(d)
      BY <2>1 DEF TakeSlot, SlotInv, OwnSlot
    <3>3. caller[c].id \in Ids /\ 0 \notin Ids
      BY <2>1 DEF TakeSlot, TypeInv, Numbered, Ids
    <3>4. pending'.id = caller[c].id /\ pending'.query = caller[c].query /\ pending' # NoPending
      BY <2>1, <3>3 DEF TakeSlot, NoPending
    <3>5. \A d \in Callers : Holds(d)' => d = c
      BY <3>1, <3>2 DEF Holds
    <3> QED
      BY <2>1, <3>1, <3>4, <3>5 DEF TakeSlot, SlotInv, OwnSlot
  <2>2. CASE GiveUpSlot(c)
    <3>1. caller'[c] = Idle /\ \A d \in Callers : d # c => caller'[d] = caller[d]
      BY <1>1, <2>2, IdleState, CallerSet DEF ThreadType, GiveUpSlot
    <3>2. ~ Holds(c) /\ ~ Holds(c)'
      BY <2>2, <3>1 DEF GiveUpSlot, Holds, Idle
    <3> QED
      BY <1>3, <2>2, <3>1, <3>2 DEF GiveUpSlot
  <2>3. CASE Write(c)
    <3>1. /\ caller'[c].pc = "wait" /\ caller'[c].id = caller[c].id
          /\ caller'[c].query = caller[c].query
          /\ \A d \in Callers : d # c => caller'[d] = caller[d]
      BY <1>1, <2>3, CallerGoesTo DEF Write, ThreadType
    <3> QED
      BY <1>3, <2>3, <3>1 DEF Write, Holds
  <2>4. CASE WriteFails(c) \/ Return(c) \/ TimeOut(c)
    BY <1>4, <2>4 DEF WriteFails, Return, TimeOut, Holds
  <2>5. CASE Segfault(c)
    BY <2>5, HolderPending DEF Segfault, Holds
  <2> QED
    BY <1>6, <2>1, <2>2, <2>3, <2>4, <2>5 DEF CallStep
<1>7. ASSUME NEW c \in Callers, Call(c) PROVE SlotInv'
  BY <1>5, <1>7, AtAssumption DEF Call, AtAssumption
<1>8. CASE ReaderStep
  <2>1. ASSUME Read PROVE Next1 \in Lines /\ Next1.of \in 0..MaxCalls
    <3>1. Next1 \in Lines
      BY <1>1, <2>1, SeqIndex DEF Read, Next1, LineType
    <3> QED
      BY <3>1 DEF Lines
  <2>2. UNCHANGED <<caller, lastCmd, inFlight, shutting>>
    BY <1>8 DEF ReaderStep, ReadFinal, ReadReg, LogUrc, Dispatch, ReadData, Buffer, ReaderExit,
       readerOnly
  <2>3. reader.pc = "buffer" => reader.line \in Lines
    BY DEF TypeInv, Numbered, InHand
  <2>4. \/ pending' = pending
        \/ /\ pending # NoPending
           /\ \/ \E n \in 0..MaxCalls : pending' = [pending EXCEPT !.done = TRUE, !.by = n]
              \/ \E line \in Lines : pending' = [pending EXCEPT !.lines = @ \cup {line}]
    BY <1>8, <2>1, <2>3 DEF ReaderStep, ReadFinal, ReadReg, LogUrc, Dispatch, ReadData, Buffer,
       ReaderExit, Keep
  <2>5. SameAs(pending', pending)
    BY <1>1, <2>4, SameCommand DEF SlotType, SameAs
  <2> QED
    BY <1>2, <2>2, <2>5
<1>9. CASE WorkerStep \/ DrainUrcLog
  BY <1>2, <1>9 DEF SameAs, WorkerStep, TakeUrc, HandledUrc, WorkerExit, DrainUrcLog, workerOnly,
     threads, slot
<1>10. CASE ModuleStep \/ SayUrc
  BY <1>2, <1>10 DEF SameAs, ModuleStep, SayData, SayFinal, SayNothing, SayUrc, modemOnly, threads, slot
<1>11. CASE SendAte0
  BY <1>5, <1>11, AtAssumption DEF SendAte0, AtAssumption
<1>12. CASE OpenPort \/ StartThreads \/ Connected \/ Disconnect \/ JoinReader \/ StopUrc
            \/ JoinWorker
  BY <1>2, <1>12 DEF SameAs, OpenPort, StartThreads, Connected, Disconnect, JoinReader, StopUrc,
     JoinWorker, mainOnly, slot
<1>13. CASE Wake
  <2>1. 0 \in 0..MaxCalls
    BY IdRange
  <2>2. SameAs(pending', pending)
    BY <1>1, <1>13, <2>1, SameCommand DEF SlotType, Wake, SameAs
  <2> QED
    BY <1>2, <1>13, <2>2 DEF Wake, mainOnly
<1>14. CASE Reset
  BY <1>14 DEF Reset, SlotInv, Holds, mainOnly
<1>15. CASE ClosePort
  <2>1. SameAs(pending', pending)
    BY <1>1, <1>15, SameCommand DEF SlotType, ClosePort, SameAs
  <2> QED
    BY <1>2, <1>15, <2>1 DEF ClosePort, mainOnly
<1>16. CASE UNCHANGED vars
  BY <1>2, <1>16 DEF SameAs, vars, threads, slot
<1> QED
  BY <1>6, <1>7, <1>8, <1>9, <1>10, <1>11, <1>12, <1>13, <1>14, <1>15, <1>16
  DEF Next, Opening, Closing

-----------------------------------------------------------------------------
(* The numbers of the calls *)

\* Lines, commands and the reader's line move on, and none is new.
LEMMA FreshMove ==
  ASSUME TypeInv, FreshInv, UNCHANGED <<caller, calls>>,
         pending'.id \in {0, pending.id},
         \A i \in DOMAIN todo' : \E k \in DOMAIN todo : todo'[i].id = todo[k].id,
         \A i \in DOMAIN wire' : \/ wire'[i].of = 0
                                 \/ \E k \in DOMAIN wire : wire'[i].of = wire[k].of
                                 \/ \E k \in DOMAIN todo : wire'[i].of = todo[k].id,
         \/ reader'.line.of \in {0, reader.line.of}
         \/ \E k \in DOMAIN wire : reader'.line.of = wire[k].of
  PROVE  FreshInv'
<1>1. calls \in Nat
  BY TypeParts DEF TypeInv, CountType
<1>2. \A c \in Callers : caller[c].pc # "idle" => caller[c].id \in Nat /\ caller[c].id # 0
  BY DEF TypeInv, Numbered, Ids
<1>3. \A c \in Callers : caller[c].pc \in {"serial", "write"} => Untold(caller[c].id)'
  BY <1>2 DEF FreshInv, Untold
<1>4. \A c \in Callers : caller[c].pc = "serial" => pending'.id # caller[c].id
  BY <1>2 DEF FreshInv
<1>5. pending'.id <= calls /\ reader'.line.of <= calls
  BY <1>1 DEF FreshInv
<1>6. /\ \A i \in DOMAIN todo' : todo'[i].id <= calls
      /\ \A i \in DOMAIN wire' : wire'[i].of <= calls
  BY <1>1 DEF FreshInv
<1> QED
  BY <1>3, <1>4, <1>5, <1>6 DEF FreshInv

LEMMA NumberTypes ==
  ASSUME TypeInv
  PROVE  /\ pending.id \in Nat /\ reader.line.of \in Nat
         /\ \A i \in DOMAIN todo : todo[i].id \in Ids /\ todo[i].id \in Nat
         /\ \A i \in DOMAIN wire : wire[i].of \in Nat
<1>1. ThreadType /\ LineType /\ SlotType
  BY TypeParts DEF TypeInv
<1>2. \A n \in 0..MaxCalls : n \in Nat
  BY AtAssumption DEF AtAssumption
<1>3. \A n \in Ids : n \in Nat
  BY AtAssumption DEF AtAssumption, Ids
<1>4. pending.id \in Nat
  BY <1>1, <1>3 DEF SlotType, Pendings, NoPending
<1>5. reader.line.of \in Nat
  BY <1>1, <1>2 DEF ThreadType, ReaderStates, Lines, NoLine
<1>6. \A i \in DOMAIN todo : todo[i].id \in Ids
  <2>1. \A i \in DOMAIN todo : todo[i] \in Commands
    BY <1>1, SeqIndex DEF LineType
  <2> QED
    BY <2>1 DEF Commands
<1>7. \A i \in DOMAIN wire : wire[i].of \in Nat
  <2>1. \A i \in DOMAIN wire : wire[i] \in Lines
    BY <1>1, SeqIndex DEF LineType
  <2> QED
    BY <1>2, <2>1 DEF Lines
<1> QED
  BY <1>3, <1>4, <1>5, <1>6, <1>7

LEMMA FreshStep ==
  ASSUME Prompt, TypeInv, SlotInv, FreshInv, [Next]_vars
  PROVE  FreshInv'
<1>1. ThreadType /\ LineType /\ SlotType /\ FlagType /\ PlaceType /\ CountType
  BY TypeParts DEF TypeInv
<1>2. /\ calls \in Nat
      /\ \A c \in Callers : caller[c].pc # "idle" => caller[c].id \in Nat /\ caller[c].id # 0
  BY <1>1 DEF TypeInv, Numbered, Ids, CountType
<1>3. ASSUME UNCHANGED <<caller, calls, todo, wire>>, pending'.id \in {0, pending.id},
             reader'.line.of \in {0, reader.line.of}
      PROVE  FreshInv'
  BY <1>3, FreshMove
<1>4. ASSUME NEW c \in Callers, NEW query \in BOOLEAN, Enter(c, query) PROVE FreshInv'
  <2>1. /\ caller'[c] = [pc |-> "serial", id |-> calls + 1, query |-> query]
        /\ calls' = calls + 1
        /\ \A d \in Callers : d # c => caller'[d] = caller[d]
    BY <1>4, EnterType
  <2>2. caller'[c].pc = "serial" /\ caller'[c].id = calls + 1
    BY <2>1
  <2>3. UNCHANGED <<todo, wire, reader, pending>>
    BY <1>4 DEF Enter, slot, module
  <2>4. Untold(calls + 1)
    BY <1>1, <1>2 DEF Untold, FreshInv, LineType, ThreadType, CountType
  <2>5. pending.id # calls + 1 /\ \A d \in Callers : caller[d].pc # "idle" => caller[d].id # calls + 1
    BY <1>2 DEF FreshInv
  <2>6. \A n \in 1 .. calls : n \in 1 .. calls'
    BY <1>2, <2>1
  <2>7. /\ \A d \in Callers : caller'[d].pc # "idle" => caller'[d].id \in 1 .. calls'
        /\ \A d, e \in Callers :
             caller'[d].pc # "idle" /\ caller'[e].pc # "idle" /\ caller'[d].id = caller'[e].id => d = e
    BY <1>2, <2>1, <2>2, <2>5, <2>6 DEF FreshInv
  <2>8. \A d \in Callers : caller'[d].pc = "serial" => pending'.id # caller'[d].id
    BY <2>1, <2>2, <2>3, <2>5 DEF FreshInv
  <2>9. \A d \in Callers : caller'[d].pc \in {"serial", "write"} => Untold(caller'[d].id)
    BY <2>1, <2>2, <2>4 DEF FreshInv
  <2>10. /\ pending'.id <= calls' /\ reader'.line.of <= calls'
         /\ \A i \in DOMAIN todo' : todo'[i].id <= calls'
         /\ \A i \in DOMAIN wire' : wire'[i].of <= calls'
    <3>1. \A n \in Nat : n <= calls => n <= calls + 1
      BY <1>2
    <3> QED
      BY <2>1, <2>3, <3>1, NumberTypes DEF FreshInv
  <2> QED
    BY <2>3, <2>7, <2>8, <2>9, <2>10 DEF FreshInv, Untold
<1>5. ASSUME NEW c \in Callers, caller' = [caller EXCEPT ![c] = Idle], calls' = calls,
             UNCHANGED <<todo, wire, reader>>, pending' \in {pending, NoPending}
      PROVE  FreshInv'
  <2>1. caller'[c] = Idle /\ \A d \in Callers : d # c => caller'[d] = caller[d]
    BY <1>1, <1>5, IdleState, CallerSet DEF ThreadType
  <2>2. \A d \in Callers : caller'[d].pc # "idle" => d # c /\ caller'[d] = caller[d]
    BY <2>1 DEF Idle
  <2>3. pending'.id \in {0, pending.id}
    BY <1>5 DEF NoPending
  <2>4. /\ \A d \in Callers : caller'[d].pc # "idle" => caller'[d].id \in 1 .. calls'
        /\ \A d, e \in Callers :
             caller'[d].pc # "idle" /\ caller'[e].pc # "idle" /\ caller'[d].id = caller'[e].id => d = e
    BY <1>5, <2>2 DEF FreshInv
  <2>5. \A d \in Callers : caller'[d].pc = "serial" => pending'.id # caller'[d].id
    BY <1>2, <2>2, <2>3 DEF FreshInv
  <2>6. \A d \in Callers : caller'[d].pc \in {"serial", "write"} => Untold(caller'[d].id)
    BY <2>2 DEF FreshInv
  <2>7. pending'.id <= calls'
    BY <1>2, <1>5, <2>3 DEF FreshInv
  <2> QED
    BY <1>5, <2>4, <2>5, <2>6, <2>7 DEF FreshInv, Untold
<1>6. ASSUME NEW c \in Callers, CallStep(c) PROVE FreshInv'
  <2>1. CASE TakeSlot(c)
    <3>1. /\ caller'[c].pc = "write" /\ caller'[c].id = caller[c].id
          /\ \A d \in Callers : d # c => caller'[d] = caller[d]
      BY <1>1, <2>1, CallerGoesTo DEF TakeSlot, ThreadType
    <3>2. pending'.id = caller[c].id /\ caller[c].pc = "serial"
      BY <2>1 DEF TakeSlot, NoPending
    <3>3. \A d \in Callers : /\ caller'[d].id = caller[d].id
                             /\ caller'[d].pc # "idle" <=> caller[d].pc # "idle"
                             /\ caller'[d].pc \in {"serial", "write"} <=> caller[d].pc \in {"serial", "write"}
                             /\ caller'[d].pc = "serial" => d # c /\ caller[d].pc = "serial"
      BY <3>1, <3>2
    <3>4. UNCHANGED <<todo, wire, reader, calls>>
      BY <2>1 DEF TakeSlot, module, bounds
    <3>5. \A d \in Callers : caller'[d].pc = "serial" => pending'.id # caller'[d].id
      BY <3>2, <3>3 DEF FreshInv
    <3>6. pending'.id <= calls'
      BY <1>2, <3>2, <3>4 DEF FreshInv
    <3> QED
      BY <3>3, <3>4, <3>5, <3>6 DEF FreshInv, Untold
  <2>2. CASE GiveUpSlot(c)
    BY <1>5, <2>2 DEF GiveUpSlot, slot, module, bounds
  <2>3. CASE Write(c)
    <3>1. /\ caller'[c].pc = "wait" /\ caller'[c].id = caller[c].id /\ caller[c].pc = "write"
          /\ \A d \in Callers : d # c => caller'[d] = caller[d]
      BY <1>1, <2>3, CallerGoesTo DEF Write, ThreadType
    <3>2. [id |-> caller[c].id, query |-> caller[c].query, said |-> FALSE] \in Commands
      BY <1>1, <3>1 DEF Commands, TypeInv, Numbered, ThreadType, CallerStates
    <3>3. \A i \in DOMAIN todo' : (i \in DOMAIN todo /\ todo'[i] = todo[i])
                                  \/ todo'[i].id = caller[c].id
      BY <1>1, <2>3, <3>2, Appended DEF LineType, Write
    <3>4. \A d \in Callers : /\ caller'[d].id = caller[d].id
                             /\ caller'[d].pc # "idle" <=> caller[d].pc # "idle"
                             /\ caller'[d].pc \in {"serial", "write"} =>
                                  d # c /\ caller[d].pc \in {"serial", "write"}
                             /\ caller'[d].pc = "serial" => caller[d].pc = "serial"
      BY <3>1
    <3>5. UNCHANGED <<pending, wire, reader, calls>>
      BY <2>3 DEF Write, slot, bounds
    <3>6. \A d \in Callers : caller'[d].pc \in {"serial", "write"} => caller'[d].id # caller[c].id
      BY <3>1, <3>4 DEF FreshInv
    <3>7. \A d \in Callers : caller'[d].pc \in {"serial", "write"} => Untold(caller[d].id)'
      BY <3>3, <3>4, <3>5, <3>6 DEF FreshInv, Untold
    <3>8. \A i \in DOMAIN todo' : todo'[i].id <= calls'
      BY <1>2, <3>1, <3>3, <3>5 DEF FreshInv
    <3> QED
      BY <3>4, <3>5, <3>7, <3>8 DEF FreshInv
  <2>4. CASE WriteFails(c) \/ Return(c) \/ TimeOut(c)
    BY <1>5, <2>4 DEF WriteFails, Return, TimeOut, Release, module, bounds
  <2>5. CASE Segfault(c)
    BY <2>5, HolderPending DEF Segfault, Holds
  <2> QED
    BY <1>6, <2>1, <2>2, <2>3, <2>4, <2>5 DEF CallStep
<1>7. ASSUME NEW c \in Callers, Call(c) PROVE FreshInv'
  BY <1>4, <1>7, AtAssumption DEF Call, AtAssumption
<1>8. CASE ReaderStep
  <2>1. UNCHANGED <<caller, calls, todo>>
    BY <1>8 DEF ReaderStep, ReadFinal, ReadReg, LogUrc, Dispatch, ReadData, Buffer, ReaderExit,
       readerOnly, bounds
  <2>2. ASSUME Read PROVE 1 \in DOMAIN wire /\ Next1 = wire[1] /\ Next1 \in Lines
    BY <1>1, <2>2, SeqIndex DEF Read, Next1, LineType
  <2>3. wire' = wire \/ Read
    BY <1>8 DEF ReaderStep, ReadFinal, ReadReg, LogUrc, Dispatch, ReadData, Buffer, ReaderExit
  <2>4. \A i \in DOMAIN wire' : \E k \in DOMAIN wire : wire'[i].of = wire[k].of
    <3>1. CASE wire' = wire
      BY <3>1
    <3>2. CASE Read
      <4>1. wire \in Seq(Lines) /\ wire # <<>> /\ wire' = Tail(wire)
        BY <1>1, <3>2 DEF Read, LineType
      <4>2. \A i \in DOMAIN wire' : i + 1 \in DOMAIN wire /\ wire'[i] = wire[i + 1]
        BY <4>1, Tailed
      <4> QED
        BY <4>2
    <3> QED
      BY <2>3, <3>1, <3>2
  <2>5. reader'.line \in {reader.line, NoLine} \/ (Read /\ reader'.line = Next1)
    BY <1>1, <1>8 DEF ReaderStep, ReadFinal, ReadReg, LogUrc, Dispatch, ReadData, Buffer,
       ReaderExit, ThreadType, ReaderStates
  <2>6. \/ reader'.line.of \in {0, reader.line.of}
        \/ \E k \in DOMAIN wire : reader'.line.of = wire[k].of
    BY <2>2, <2>5 DEF NoLine
  <2>7. pending'.id = pending.id
    <3>1. Next1 \in Lines => Next1.of \in 0..MaxCalls
      BY DEF Lines
    <3>2. reader.pc = "buffer" => reader.line \in Lines
      BY DEF TypeInv, Numbered, InHand
    <3>3. \/ pending' = pending
          \/ /\ pending # NoPending
             /\ \/ \E n \in 0..MaxCalls : pending' = [pending EXCEPT !.done = TRUE, !.by = n]
                \/ \E line \in Lines : pending' = [pending EXCEPT !.lines = @ \cup {line}]
      BY <1>8, <2>2, <3>1, <3>2 DEF ReaderStep, ReadFinal, ReadReg, LogUrc, Dispatch, ReadData,
         Buffer, ReaderExit, Keep
    <3> QED
      BY <1>1, <3>3, SameCommand DEF SlotType, SameAs
  <2> QED
    BY <2>1, <2>4, <2>6, <2>7, FreshMove
<1>9. CASE WorkerStep \/ DrainUrcLog
  BY <1>3, <1>9 DEF WorkerStep, TakeUrc, HandledUrc, WorkerExit, DrainUrcLog, workerOnly,
     threads, slot, module, bounds
<1>10. CASE ModuleStep \/ SayUrc
  <2>1. UNCHANGED <<caller, calls, reader, pending>>
    BY <1>10 DEF ModuleStep, SayData, SayFinal, SayNothing, SayUrc, modemOnly, threads, slot, bounds
  <2>2. \A i \in DOMAIN todo' : \E k \in DOMAIN todo : todo'[i].id = todo[k].id
    <3>1. CASE todo' = todo
      BY <3>1
    <3>2. CASE todo # <<>> /\ todo' = Tail(todo)
      BY <1>1, <3>2, Tailed DEF LineType
    <3>3. CASE todo # <<>> /\ todo' = [todo EXCEPT ![1].said = TRUE]
      BY <1>1, <3>3, Said DEF LineType
    <3> QED
      BY <1>10, <3>1, <3>2, <3>3 DEF ModuleStep, SayData, SayFinal, SayNothing, SayUrc
  <2>3. todo # <<>> => 1 \in DOMAIN todo /\ Head(todo) = todo[1] /\ todo[1] \in Commands
    BY <1>1, SeqIndex DEF LineType
  <2>4. ASSUME NEW line \in Lines, Send(line)
        PROVE  \A i \in DOMAIN wire' : (i \in DOMAIN wire /\ wire'[i] = wire[i]) \/ wire'[i] = line
    BY <1>1, <2>4, Appended DEF Send, LineType
  <2>5. \A i \in DOMAIN wire' : \/ wire'[i].of = 0
                                \/ \E k \in DOMAIN wire : wire'[i].of = wire[k].of
                                \/ \E k \in DOMAIN todo : wire'[i].of = todo[k].id
    <3>1. CASE SayData \/ SayFinal
      <4>1. PICK k \in {"reg", "data", "final"} : Send([kind |-> k, of |-> todo[1].id])
        BY <2>3, <3>1 DEF SayData, SayFinal
      <4>2. [kind |-> k, of |-> todo[1].id] \in Lines /\ 1 \in DOMAIN todo
        BY <2>3, <3>1, IdRange DEF SayData, SayFinal, Lines, Commands
      <4> QED
        BY <2>4, <4>1, <4>2
    <3>2. CASE SayUrc
      <4>1. [kind |-> "reg", of |-> 0] \in Lines
        BY IdRange DEF Lines
      <4> QED
        BY <2>4, <3>2, <4>1 DEF SayUrc
    <3>3. CASE SayNothing
      BY <3>3 DEF SayNothing
    <3> QED
      BY <1>10, <3>1, <3>2, <3>3 DEF ModuleStep
  <2> QED
    BY <2>1, <2>2, <2>5, FreshMove
<1>11. CASE SendAte0
  BY <1>4, <1>11, AtAssumption DEF SendAte0, AtAssumption
<1>12. CASE OpenPort \/ StartThreads \/ Connected \/ Disconnect \/ Wake \/ JoinReader \/ StopUrc
            \/ JoinWorker \/ Reset \/ ClosePort
  <2>1. UNCHANGED <<caller, calls, todo>> /\ (wire' = wire \/ wire' = <<>>)
    BY <1>12 DEF OpenPort, StartThreads, Connected, Disconnect, Wake, JoinReader, StopUrc,
       JoinWorker, Reset, ClosePort, mainOnly
  <2>2. reader' = reader \/ reader'.line = NoLine
    BY <1>12 DEF OpenPort, StartThreads, Connected, Disconnect, Wake, JoinReader, StopUrc,
       JoinWorker, Reset, ClosePort
  <2>3. 0 \in 0..MaxCalls
    BY IdRange
  <2>4. SameAs(pending', pending) \/ pending' = NoPending
    <3>1. CASE Wake \/ ClosePort
      <4>1. \/ pending' = pending
            \/ /\ pending # NoPending
               /\ \/ pending' = [pending EXCEPT !.done = TRUE, !.by = 0]
                  \/ pending' = [pending EXCEPT !.clean = FALSE]
        BY <3>1 DEF Wake, ClosePort
      <4> QED
        <5>1. SameAs(pending, pending)
          BY DEF SameAs
        <5>2. pending # NoPending => /\ SameAs([pending EXCEPT !.done = TRUE, !.by = 0], pending)
                                     /\ SameAs([pending EXCEPT !.clean = FALSE], pending)
          BY <1>1, <2>3, SameCommand DEF SlotType
        <5> QED
          BY <4>1, <5>1, <5>2
    <3>2. CASE ~ (Wake \/ ClosePort)
      BY <1>12, <3>2 DEF OpenPort, StartThreads, Connected, Disconnect, JoinReader, StopUrc,
         JoinWorker, Reset, slot, SameAs
    <3> QED
      BY <3>1, <3>2
  <2>5. pending'.id \in {0, pending.id} /\ reader'.line.of \in {0, reader.line.of}
    BY <2>2, <2>4 DEF SameAs, NoPending, NoLine
  <2> QED
    BY <2>1, <2>5, FreshMove
<1>13. CASE UNCHANGED vars
  BY <1>3, <1>13 DEF vars, threads, slot, module, bounds
<1> QED
  BY <1>6, <1>7, <1>8, <1>9, <1>10, <1>11, <1>12, <1>13 DEF Next, Opening, Closing

-----------------------------------------------------------------------------
(* The lines *)

\* What the module sends is on the wire behind the rest, or lost with the port.
LEMMA Sent ==
  ASSUME TypeInv, NEW line \in Lines, Send(line)
  PROVE  /\ \A i \in DOMAIN wire' : (i \in DOMAIN wire /\ wire'[i] = wire[i])
                                    \/ (port /\ i = Len(wire) + 1 /\ wire'[i] = line)
         /\ \A i \in DOMAIN wire : i \in DOMAIN wire' /\ wire'[i] = wire[i] /\ i < Len(wire) + 1
         /\ port => Len(wire) + 1 \in DOMAIN wire' /\ wire'[Len(wire) + 1] = line
         /\ Len(wire) \in Nat
<1>1. wire \in Seq(Lines)
  BY TypeParts DEF TypeInv, LineType
<1>2. CASE port
  BY <1>1, <1>2, Appended, SeqIndex DEF Send
<1>3. CASE ~ port
  BY <1>1, <1>3, SeqIndex DEF Send
<1> QED
  BY <1>2, <1>3

\* The module's lines about its oldest command are its number's.
LEMMA SaidLine ==
  ASSUME TypeInv, todo # <<>>
  PROVE  /\ 1 \in DOMAIN todo /\ Head(todo) = todo[1] /\ todo[1] \in Commands
         /\ [kind |-> IF todo[1].query THEN "reg" ELSE "data", of |-> todo[1].id] \in Lines
         /\ [kind |-> "final", of |-> todo[1].id] \in Lines
         /\ todo[1].id # 0
<1>1. todo \in Seq(Commands)
  BY TypeParts DEF TypeInv, LineType
<1>2. 1 \in DOMAIN todo /\ Head(todo) = todo[1] /\ todo[1] \in Commands
  BY <1>1, SeqIndex
<1>3. todo[1].id \in 0..MaxCalls /\ todo[1].id # 0
  BY <1>2, AtAssumption DEF Commands, Ids, AtAssumption
<1> QED
  BY <1>2, <1>3 DEF Lines

LEMMA UrcLine == Urc \in Lines
BY IdRange DEF Urc, Lines

\* What the reader takes off the wire.
LEMMA TakenLine ==
  ASSUME TypeInv, Read
  PROVE  /\ 1 \in DOMAIN wire /\ Next1 = wire[1] /\ wire[1] \in Lines /\ reader.pc = "read"
         /\ \A i \in DOMAIN wire' : i \in Nat /\ i + 1 \in DOMAIN wire /\ i + 1 # 1
                                    /\ wire'[i] = wire[i + 1]
         /\ \A i \in DOMAIN wire : i \in Nat /\ i >= 1
                                   /\ (i = 1 \/ (i - 1 \in DOMAIN wire' /\ wire'[i - 1] = wire[i]))
<1>1. wire \in Seq(Lines) /\ wire # <<>> /\ wire' = Tail(wire) /\ reader.pc = "read"
  BY TypeParts DEF TypeInv, LineType, Read
<1>2. /\ 1 \in DOMAIN wire /\ Next1 = wire[1] /\ wire[1] \in Lines
      /\ \A i \in DOMAIN wire : i \in Nat /\ i >= 1
  BY <1>1, SeqIndex DEF Next1
<1> QED
  BY <1>1, <1>2, Tailed

LEMMA UrcStep ==
  ASSUME TypeInv, UrcInv, [Next]_vars
  PROVE  UrcInv'
<1>1. ASSUME \A i \in DOMAIN wire' : wire'[i] = Urc \/ wire'[i].of # 0
                                     \/ \E k \in DOMAIN wire : wire'[i] = wire[k],
             reader'.pc \in {"log", "dispatch", "buffer"} =>
               (InHand /\ reader'.line = reader.line)
               \/ \E k \in DOMAIN wire : reader'.line = wire[k]
      PROVE  UrcInv'
  BY <1>1 DEF UrcInv, InHand
<1>2. ASSUME wire' = wire \/ wire' = <<>>,
             reader' = reader \/ reader'.pc \notin {"log", "dispatch", "buffer"}
      PROVE  UrcInv'
  BY <1>2 DEF UrcInv, InHand
<1>3. ASSUME NEW c \in Callers, Call(c) \/ CallStep(c) PROVE UrcInv'
  <2>1. CASE Segfault(c)
    BY <1>2, <2>1 DEF Segfault
  <2>2. CASE ~ Segfault(c)
    BY <1>2, <1>3, <2>2 DEF Call, Enter, CallStep, TakeSlot, GiveUpSlot, Write, WriteFails, Return,
       TimeOut, Release, module
  <2> QED
    BY <2>1, <2>2
<1>4. CASE ReaderStep
  <2>1. reader \in ReaderStates
    BY TypeParts DEF TypeInv, ThreadType
  <2>2. CASE ReadFinal \/ ReadData
    <3>1. \A i \in DOMAIN wire' : \E k \in DOMAIN wire : wire'[i] = wire[k]
      BY <2>2, TakenLine DEF ReadFinal, ReadData
    <3>2. reader' = reader /\ reader.pc = "read"
      BY <2>2 DEF ReadFinal, ReadData, Read
    <3> QED
      BY <1>1, <3>1, <3>2
  <2>3. CASE ReadReg
    <3>1. \A i \in DOMAIN wire' : \E k \in DOMAIN wire : wire'[i] = wire[k]
      BY <2>3, TakenLine DEF ReadReg
    <3>2. \E k \in DOMAIN wire : reader'.line = wire[k]
      BY <2>3, TakenLine DEF ReadReg
    <3> QED
      BY <1>1, <3>1, <3>2
  <2>4. CASE LogUrc
    <3>1. wire' = wire /\ reader'.line = reader.line /\ InHand
      BY <2>1, <2>4 DEF LogUrc, InHand, ReaderStates
    <3> QED
      BY <1>1, <3>1
  <2>5. CASE Dispatch \/ Buffer \/ ReaderExit
    <3>1. wire' = wire /\ reader'.pc \notin {"log", "dispatch", "buffer"}
      BY <2>1, <2>5 DEF Dispatch, Buffer, ReaderExit, ReaderStates
    <3> QED
      BY <1>2, <3>1
  <2> QED
    BY <1>4, <2>2, <2>3, <2>4, <2>5 DEF ReaderStep
<1>5. CASE WorkerStep \/ DrainUrcLog
  BY <1>2, <1>5 DEF WorkerStep, TakeUrc, HandledUrc, WorkerExit, DrainUrcLog, workerOnly,
     threads, module
<1>6. CASE ModuleStep \/ SayUrc
  <2>1. reader' = reader
    BY <1>6 DEF ModuleStep, SayData, SayFinal, SayNothing, SayUrc, modemOnly, threads
  <2>2. \A i \in DOMAIN wire' : wire'[i] = Urc \/ wire'[i].of # 0
                                \/ \E k \in DOMAIN wire : wire'[i] = wire[k]
    <3>1. CASE SayData \/ SayFinal
      <4>1. PICK k \in {"reg", "data", "final"} :
              /\ Send([kind |-> k, of |-> todo[1].id])
              /\ [kind |-> k, of |-> todo[1].id] \in Lines
              /\ todo[1].id # 0
        BY <3>1, SaidLine DEF SayData, SayFinal
      <4> QED
        BY <4>1, Sent
    <3>2. CASE SayUrc
      BY <3>2, Sent, UrcLine DEF SayUrc, Urc
    <3>3. CASE SayNothing
      BY <3>3 DEF SayNothing
    <3> QED
      BY <1>6, <3>1, <3>2, <3>3 DEF ModuleStep
  <2> QED
    BY <1>1, <2>1, <2>2 DEF InHand
<1>7. CASE OpenPort \/ Opening \/ Disconnect \/ Closing
  <2>1. /\ wire' = wire \/ wire' = <<>>
        /\ reader' = reader \/ reader'.pc \notin {"log", "dispatch", "buffer"}
    BY <1>7 DEF OpenPort, Opening, StartThreads, SendAte0, Enter, Connected, Disconnect, Closing,
       Wake, JoinReader, StopUrc, JoinWorker, Reset, ClosePort, mainOnly, module
  <2> QED
    BY <1>2, <2>1
<1>8. CASE UNCHANGED vars
  BY <1>2, <1>8 DEF vars, threads, module
<1> QED
  BY <1>3, <1>4, <1>5, <1>6, <1>7, <1>8 DEF Next

-----------------------------------------------------------------------------
(* The answer to the pending command *)

\* The three lines that may be under way are different.
LEMMA ThreeLines ==
  ASSUME TypeInv, pending # NoPending
  PROVE  /\ pending.id # 0 /\ pending.id \in Ids
         /\ Data # Final /\ Urc # Data /\ Urc # Final
         /\ Data.of = pending.id /\ Final.of = pending.id /\ Urc.of = 0
         /\ Data.kind # "final" /\ Final.kind = "final" /\ Urc.kind = "reg"
         /\ (Data.kind = "reg" <=> pending.query)
         /\ Data.kind = "data" => ~ pending.query
<1>1. 0 \notin Ids
  BY AtAssumption DEF Ids, AtAssumption
<1>2. pending.id \in Ids /\ pending.query \in BOOLEAN
  BY TypeParts DEF TypeInv, SlotType, Pendings
<1>3. pending.id # 0
  BY <1>1, <1>2
<1>4. /\ Data.of = pending.id /\ Final.of = pending.id /\ Urc.of = 0
      /\ Data.kind # "final" /\ Final.kind = "final" /\ Urc.kind = "reg"
      /\ (Data.kind = "reg" <=> pending.query)
      /\ Data.kind = "data" => ~ pending.query
  BY <1>2 DEF Data, Final, Urc
<1> QED
  BY <1>2, <1>3, <1>4

\* Steps that change neither the lines nor the pending command.
LEMMA StreamFrame ==
  ASSUME TypeInv, StreamInv, UNCHANGED <<pending, todo, wire>>,
         \/ reader' = reader
         \/ ~ InHand /\ ~ InHand' /\ reader'.line.of \in {0, reader.line.of},
         \A c \in Callers : caller'[c].pc = "write" => caller[c].pc = "write",
         port => port',
         Awake' => Awake
  PROVE  StreamInv'
<1> SUFFICES ASSUME Mine PROVE OnlyOwn' /\ InOrder' /\ NotYet' /\ NotLost'
  BY DEF StreamInv, Mine
<1>1. Data' = Data /\ Final' = Final /\ OnWire(Data)' = OnWire(Data)
      /\ OnWire(Final)' = OnWire(Final) /\ Owed' = Owed
  BY DEF Data, Final, OnWire, Owed
<1>2. OnlyOwn /\ InOrder /\ NotYet /\ NotLost
  BY DEF StreamInv
<1>3. OnlyOwn'
  BY <1>1, <1>2 DEF OnlyOwn, InHand
<1>4. InOrder'
  BY <1>1, <1>2 DEF InOrder
<1>5. NotYet'
  BY <1>1, <1>2, ThreeLines DEF NotYet, Mine
<1>6. NotLost'
  BY <1>1, <1>2 DEF NotLost, InHand
<1> QED
  BY <1>3, <1>4, <1>5, <1>6

\* A command that found nothing left begins with nothing on the way.
LEMMA StreamTake ==
  ASSUME TypeInv, UrcInv, SlotInv, NEW c \in Callers, TakeSlot(c)
  PROVE  StreamInv'
<1>1. ThreadType /\ LineType /\ SlotType
  BY TypeParts DEF TypeInv
<1> SUFFICES ASSUME Mine' PROVE OnlyOwn' /\ InOrder' /\ NotYet' /\ NotLost'
  BY DEF StreamInv
<1>2. /\ pending'.clean = NothingLeft /\ pending'.id = caller[c].id
      /\ pending'.lines = {} /\ pending'.done = FALSE /\ pending'.by = 0
  BY DEF TakeSlot, NoPending
<1>3. NothingLeft
  BY <1>2 DEF Mine
<1>4. UNCHANGED <<todo, wire, reader, port>>
  BY DEF TakeSlot, module
<1>5. TypeInv' /\ pending' # NoPending
  BY CallType DEF CallStep, Mine
<1>6. pending'.id # 0 /\ Data'.of = pending'.id /\ Final'.of = pending'.id
      /\ Data' # Urc /\ Final' # Urc /\ Data' # Final'
  <2>1. caller[c].id # 0 /\ caller[c].id \in Ids /\ caller[c].query \in BOOLEAN
    BY <1>1, AtAssumption DEF TakeSlot, TypeInv, Numbered, Ids, AtAssumption, ThreadType, CallerStates
  <2> QED
    BY <1>2, <2>1 DEF Data, Final, Urc
<1>7. \A i \in DOMAIN wire : wire[i] = Urc
  BY <1>3 DEF UrcInv, NothingLeft
<1>8. /\ InHand => reader.line = Urc
      /\ reader.pc # "buffer"
      /\ todo = <<>> /\ DOMAIN todo = {}
  BY <1>3 DEF UrcInv, NothingLeft
<1>9. OnlyOwn'
  BY <1>2, <1>4, <1>7, <1>8 DEF OnlyOwn, InHand
<1>10. InOrder'
  BY <1>4, <1>6, <1>7 DEF InOrder
<1>11. ~ OnWire(Data)' /\ ~ OnWire(Final)' /\ ~ Owed'
  BY <1>4, <1>6, <1>7, <1>8 DEF OnWire, Owed
<1>12. NotYet'
  BY <1>2, <1>11 DEF NotYet
<1>13. NotLost'
  BY <1>2, <1>4, <1>8, <1>11 DEF NotLost, InHand
<1> QED
  BY <1>9, <1>10, <1>12, <1>13

LEMMA StreamWrite ==
  ASSUME TypeInv, SlotInv, FreshInv, StreamInv, NEW c \in Callers, Write(c)
  PROVE  StreamInv'
<1>1. ThreadType /\ LineType /\ SlotType
  BY TypeParts DEF TypeInv
<1> SUFFICES ASSUME Mine PROVE OnlyOwn' /\ InOrder' /\ NotYet' /\ NotLost'
  BY DEF StreamInv, Mine, Write, slot
<1>2. OnlyOwn /\ InOrder /\ NotYet /\ NotLost
  BY DEF StreamInv
<1>3. /\ UNCHANGED <<pending, wire, reader, port, ctl>> /\ port
      /\ Data' = Data /\ Final' = Final /\ OnWire(Data)' = OnWire(Data)
      /\ OnWire(Final)' = OnWire(Final)
  BY DEF Write, slot, Data, Final, OnWire
<1>4. /\ caller[c].pc = "write" /\ ~ Owed /\ Data \notin pending.lines
      /\ pending.id = caller[c].id /\ pending.query = caller[c].query
  BY <1>2, HolderPending DEF NotYet, Write, Holds
<1>5. /\ caller'[c].pc = "wait"
      /\ \A d \in Callers : d # c => caller'[d] = caller[d]
  BY <1>1, CallerGoesTo DEF Write, ThreadType
<1>6. \A d \in Callers : caller'[d].pc # "write"
  BY <1>4, <1>5 DEF SlotInv, Holds
<1>7. /\ DOMAIN todo' = {1}
      /\ todo'[1] = [id |-> caller[c].id, query |-> caller[c].query, said |-> FALSE]
  BY <1>4 DEF Write, Owed
<1>8. todo'[1].id = pending.id /\ todo'[1].query = pending.query /\ ~ todo'[1].said
  BY <1>4, <1>7
<1>9. OnlyOwn'
  BY <1>2, <1>3, <1>7, <1>8 DEF OnlyOwn, InHand
<1>10. InOrder'
  BY <1>2, <1>3 DEF InOrder
<1>11. Untold(pending.id)
  BY <1>4 DEF FreshInv
<1>12. ~ OnWire(Final) /\ ~ OnWire(Data) /\ reader.line.of # pending.id /\ reader.line # Data
  BY <1>11, ThreeLines DEF OnWire, Untold, Mine
<1>13. NotYet'
  BY <1>3, <1>4, <1>6, <1>12 DEF NotYet
<1>14. pending.done => ~ Awake
  BY <1>2, <1>4 DEF NotLost
<1>15. NotLost'
  BY <1>2, <1>3, <1>8, <1>12, <1>14 DEF NotLost, InHand, Awake
<1> QED
  BY <1>9, <1>10, <1>13, <1>15

\* The disconnect completes the pending command, and the slot is awake no more.
LEMMA StreamWake ==
  ASSUME TypeInv, StreamInv, Wake
  PROVE  StreamInv'
<1> SUFFICES ASSUME Mine' PROVE OnlyOwn' /\ InOrder' /\ NotYet' /\ NotLost'
  BY DEF StreamInv
<1>1. pending \in Pendings
  BY TypeParts DEF TypeInv, SlotType
<1>2. pending # NoPending
  BY DEF Wake, Mine
<1>3. /\ pending'.id = pending.id /\ pending'.query = pending.query
      /\ pending'.clean = pending.clean /\ pending'.lines = pending.lines
  BY <1>1, <1>2 DEF Wake, Pendings
<1>4. /\ UNCHANGED <<wire, reader, todo, caller, port>> /\ Mine
      /\ Data' = Data /\ Final' = Final /\ OnWire(Data)' = OnWire(Data)
      /\ OnWire(Final)' = OnWire(Final) /\ Owed' = Owed
  BY <1>2, <1>3 DEF Wake, mainOnly, Data, Final, OnWire, Mine, Owed
<1>5. OnlyOwn /\ InOrder /\ NotYet /\ ~ Awake'
  BY <1>4 DEF StreamInv, Wake, Awake, Woken
<1>6. OnlyOwn'
  BY <1>3, <1>4, <1>5 DEF OnlyOwn, InHand
<1>7. InOrder'
  BY <1>4, <1>5 DEF InOrder
<1>8. NotYet'
  BY <1>3, <1>4, <1>5 DEF NotYet
<1>9. NotLost'
  BY <1>5 DEF NotLost
<1> QED
  BY <1>6, <1>7, <1>8, <1>9

\* A line that the reader takes leaves the order of the others.
LEMMA WireTail ==
  ASSUME TypeInv, InOrder, Read, Mine, UNCHANGED <<Data, Final>>
  PROVE  /\ InOrder'
         /\ OnWire(Data)' => OnWire(Data) /\ wire[1] # Data /\ wire[1] # Final
         /\ OnWire(Final)' => OnWire(Final) /\ wire[1] # Final
         /\ OnWire(Data) => OnWire(Data)' \/ wire[1] = Data
         /\ wire[1] = Final => ~ OnWire(Data)
<1>1. /\ 1 \in DOMAIN wire
      /\ \A i \in DOMAIN wire' : i \in Nat /\ i + 1 \in DOMAIN wire /\ i + 1 # 1
                                 /\ wire'[i] = wire[i + 1]
      /\ \A i \in DOMAIN wire : i \in Nat /\ i >= 1
                                /\ (i = 1 \/ (i - 1 \in DOMAIN wire' /\ wire'[i - 1] = wire[i]))
  BY TakenLine
<1>2. InOrder'
  <2> SUFFICES ASSUME NEW i \in DOMAIN wire', NEW k \in DOMAIN wire'
               PROVE  /\ wire'[i] = Data /\ wire'[k] = Data => i = k
                      /\ wire'[i] = Final /\ wire'[k] = Final => i = k
                      /\ wire'[i] = Data /\ wire'[k] = Final => i < k
    BY DEF InOrder
  <2>1. /\ i + 1 \in DOMAIN wire /\ k + 1 \in DOMAIN wire /\ i \in Nat /\ k \in Nat
        /\ wire'[i] = wire[i + 1] /\ wire'[k] = wire[k + 1]
    BY <1>1
  <2>2. /\ wire[i + 1] = Data /\ wire[k + 1] = Data => i + 1 = k + 1
        /\ wire[i + 1] = Final /\ wire[k + 1] = Final => i + 1 = k + 1
        /\ wire[i + 1] = Data /\ wire[k + 1] = Final => i + 1 < k + 1
    BY <2>1 DEF InOrder
  <2>3. (i + 1 = k + 1 => i = k) /\ (i + 1 < k + 1 => i < k)
    BY <2>1
  <2> QED
    BY <2>1, <2>2, <2>3
<1>3. \A i \in DOMAIN wire : ~ (i < 1)
  BY <1>1
<1>4. wire[1] = Final => ~ OnWire(Data)
  BY <1>1, <1>3 DEF OnWire, InOrder
<1>5. ASSUME NEW k \in DOMAIN wire'
      PROVE  /\ wire'[k] = Data => OnWire(Data) /\ wire[1] # Data /\ wire[1] # Final
             /\ wire'[k] = Final => OnWire(Final) /\ wire[1] # Final
  <2>1. k + 1 \in DOMAIN wire /\ k + 1 # 1 /\ wire'[k] = wire[k + 1]
    BY <1>1
  <2> QED
    BY <1>1, <1>4, <2>1 DEF OnWire, InOrder
<1>6. OnWire(Data) => OnWire(Data)' \/ wire[1] = Data
  BY <1>1 DEF OnWire
<1> QED
  BY <1>2, <1>4, <1>5, <1>6 DEF OnWire

\* A caller that has still to write its command is not heard of.
LEMMA WriterUntold ==
  ASSUME TypeInv, SlotInv, FreshInv, Mine, NEW c \in Callers, caller[c].pc = "write"
  PROVE  ~ OnWire(Data) /\ ~ OnWire(Final) /\ reader.line # Data
<1>1. Untold(pending.id)
  BY HolderPending DEF FreshInv, Holds
<1> QED
  BY <1>1, ThreeLines DEF OnWire, Untold, Mine

LEMMA StreamRead ==
  ASSUME TypeInv, PhaseInv, SlotInv, FreshInv, StreamInv, ReaderStep
  PROVE  StreamInv'
<1>1. reader \in ReaderStates /\ pending \in Pendings
  BY TypeParts DEF TypeInv, SlotType, ThreadType
<1>2. UNCHANGED <<ctl, port, caller, todo, lastCmd>>
  BY DEF ReaderStep, ReadFinal, ReadReg, LogUrc, Dispatch, ReadData, Buffer, ReaderExit, readerOnly
<1> SUFFICES ASSUME Mine' PROVE OnlyOwn' /\ InOrder' /\ NotYet' /\ NotLost'
  BY DEF StreamInv
<1>3. pending # NoPending
  BY DEF ReaderStep, ReadFinal, ReadReg, LogUrc, Dispatch, ReadData, Buffer, ReaderExit, Keep, Mine
<1>4. /\ pending'.id = pending.id /\ pending'.query = pending.query
      /\ pending'.clean = pending.clean
  BY <1>1, <1>3 DEF ReaderStep, ReadFinal, ReadReg, LogUrc, Dispatch, ReadData, Buffer,
     ReaderExit, Keep, Pendings
<1>5. Mine /\ Data' = Data /\ Final' = Final /\ Owed' = Owed /\ Awake' = Awake
  BY <1>2, <1>3, <1>4 DEF Mine, Data, Final, Owed, Awake
<1>6. OnlyOwn /\ InOrder /\ NotYet /\ NotLost
  BY <1>5 DEF StreamInv
<1>7. /\ Data # Final /\ Urc # Data /\ Urc # Final
      /\ Data.of = pending.id /\ Urc.of = 0 /\ pending.id # 0
      /\ Data.kind # "final" /\ Final.kind = "final" /\ Urc.kind = "reg"
      /\ (Data.kind = "reg" <=> pending.query)
  BY <1>3, ThreeLines
<1>8. ASSUME Read
      PROVE  /\ InOrder' /\ reader.pc = "read" /\ Next1 = wire[1]
             /\ Next1 \in {Urc, Data, Final}
             /\ \A i \in DOMAIN wire' : wire'[i] \in {Urc, Data, Final}
             /\ OnWire(Next1)
             /\ OnWire(Data)' => OnWire(Data) /\ Next1 # Data /\ Next1 # Final
             /\ OnWire(Final)' => OnWire(Final) /\ Next1 # Final
             /\ OnWire(Data) => OnWire(Data)' \/ Next1 = Data
             /\ Next1 = Final => ~ OnWire(Data)
  <2>1. /\ 1 \in DOMAIN wire /\ Next1 = wire[1] /\ reader.pc = "read"
        /\ \A i \in DOMAIN wire' : i + 1 \in DOMAIN wire /\ wire'[i] = wire[i + 1]
    BY <1>8, TakenLine
  <2>2. \A i \in DOMAIN wire : wire[i] \in {Urc, Data, Final}
    BY <1>6 DEF OnlyOwn
  <2>3. OnWire(Next1)
    BY <2>1 DEF OnWire
  <2>4. /\ Next1 \in {Urc, Data, Final}
        /\ \A i \in DOMAIN wire' : wire'[i] \in {Urc, Data, Final}
    BY <2>1, <2>2
  <2> QED
    BY <1>5, <1>6, <1>8, <2>1, <2>3, <2>4, WireTail
<1>9. \A c \in Callers : caller[c].pc = "write" =>
        ~ OnWire(Data) /\ ~ OnWire(Final) /\ reader.line # Data
  BY <1>5, WriterUntold
<1>10. CASE ReadFinal
  <2>1. Read /\ Next1 = Final /\ reader' = reader
    BY <1>7, <1>8, <1>10 DEF ReadFinal
  <2>2. /\ pending'.done = TRUE /\ pending'.by = pending.id /\ pending'.lines = pending.lines
    BY <1>1, <1>3, <1>10, <2>1 DEF ReadFinal, Pendings, Final
  <2>3. ~ OnWire(Data)' /\ ~ OnWire(Final)' /\ ~ OnWire(Data) /\ OnWire(Final) /\ reader.pc = "read"
    BY <1>8, <2>1
  <2>4. OnlyOwn'
    BY <1>2, <1>4, <1>5, <1>6, <1>8, <2>1, <2>2 DEF OnlyOwn, InHand
  <2>5. NotYet'
    BY <1>2, <1>4, <1>5, <1>6, <2>1, <2>2, <2>3 DEF NotYet
  <2>6. ~ Owed /\ (Awake => Data \in pending.lines)
    BY <1>6, <2>3 DEF NotYet, NotLost
  <2>7. NotLost'
    BY <1>2, <1>4, <1>5, <2>1, <2>2, <2>3, <2>6 DEF NotLost, InHand
  <2> QED
    BY <1>8, <2>1, <2>4, <2>5, <2>7
<1>11. CASE ReadReg
  <2>1. /\ Read /\ Next1 \in {Urc, Data} /\ reader'.line = Next1 /\ pending' = pending
        /\ reader'.pc = IF Collides THEN "buffer" ELSE "log"
        /\ Next1 = Data => pending.query
    BY <1>7, <1>8, <1>11 DEF ReadReg
  <2>2. lastCmd = IF pending.query THEN "query" ELSE "plain"
    BY <1>3 DEF SlotInv
  <2>3. Collides <=> (~ pending.done /\ pending.query)
    BY <1>3, <2>2 DEF Collides
  <2>4. OnlyOwn'
    BY <1>2, <1>5, <1>6, <1>8, <2>1, <2>3 DEF OnlyOwn, InHand
  <2>5. NotYet'
    BY <1>2, <1>5, <1>6, <1>7, <1>8, <2>1 DEF NotYet
  <2>6. Awake /\ Next1 = Data => ~ pending.done /\ Collides
    BY <1>6, <1>8, <2>1, <2>3 DEF NotLost
  <2>7. NotLost'
    BY <1>2, <1>5, <1>6, <1>7, <1>8, <2>1, <2>6 DEF NotLost, InHand
  <2> QED
    BY <1>8, <2>1, <2>4, <2>5, <2>7
<1>12. CASE LogUrc \/ Dispatch
  <2>1. /\ wire' = wire /\ pending' = pending
        /\ reader.pc \in {"log", "dispatch"} /\ reader'.pc \in {"dispatch", "read"}
        /\ reader'.line = reader.line \/ (reader'.pc = "read" /\ reader'.line = NoLine)
    BY <1>1, <1>12 DEF LogUrc, Dispatch, ReaderStates
  <2>2. OnWire(Data)' = OnWire(Data) /\ OnWire(Final)' = OnWire(Final)
    BY <1>5, <2>1 DEF OnWire
  <2>3. OnlyOwn'
    BY <1>2, <1>5, <1>6, <2>1 DEF OnlyOwn, InHand
  <2>4. InOrder'
    BY <1>5, <1>6, <2>1 DEF InOrder
  <2>5. NotYet'
    BY <1>2, <1>5, <1>6, <1>7, <2>1, <2>2 DEF NotYet, NoLine
  <2>6. NotLost'
    BY <1>2, <1>5, <1>6, <2>1, <2>2 DEF NotLost, InHand
  <2> QED
    BY <2>3, <2>4, <2>5, <2>6
<1>13. CASE ReadData
  <2>1. Read /\ Next1 = Data /\ reader' = reader
    BY <1>7, <1>8, <1>13 DEF ReadData
  <2>2. /\ pending'.done = pending.done /\ pending'.by = pending.by
        /\ pending'.lines = pending.lines \cup {Data}
    BY <1>1, <1>3, <1>13, <2>1 DEF ReadData, Keep, Pendings
  <2>3. OnlyOwn'
    BY <1>2, <1>4, <1>5, <1>6, <1>8, <2>1, <2>2 DEF OnlyOwn, InHand
  <2>4. NotYet'
    BY <1>2, <1>4, <1>5, <1>6, <1>8, <1>9, <2>1, <2>2 DEF NotYet
  <2>5. NotLost'
    BY <1>2, <1>4, <1>5, <1>6, <1>8, <2>1, <2>2 DEF NotLost, InHand
  <2> QED
    BY <1>8, <2>1, <2>3, <2>4, <2>5
<1>14. CASE Buffer
  <2>1. /\ reader.pc = "buffer" /\ reader'.pc = "read" /\ reader'.line = NoLine /\ wire' = wire
        /\ pending'.done = pending.done /\ pending'.by = pending.by
        /\ pending'.lines = pending.lines \cup {reader.line}
    BY <1>1, <1>3, <1>14 DEF Buffer, Keep, Pendings
  <2>2. OnWire(Data)' = OnWire(Data) /\ OnWire(Final)' = OnWire(Final)
    BY <1>5, <2>1 DEF OnWire
  <2>3. reader.line \in {Urc, Data} /\ pending.query
    BY <1>6, <2>1 DEF OnlyOwn, InHand
  <2>4. OnlyOwn'
    BY <1>2, <1>4, <1>5, <1>6, <2>1, <2>3 DEF OnlyOwn, InHand
  <2>5. InOrder'
    BY <1>5, <1>6, <2>1 DEF InOrder
  <2>6. NotYet'
    <3>1. reader'.line.of # pending'.id
      BY <1>4, <1>7, <2>1 DEF NoLine
    <3>2. Owed /\ ~ todo[1].said => reader.line # Data
      BY <1>6, <1>7 DEF NotYet
    <3> QED
      BY <1>2, <1>5, <1>6, <1>9, <2>1, <2>2, <3>1, <3>2 DEF NotYet
  <2>7. NotLost'
    BY <1>2, <1>4, <1>5, <1>6, <2>1, <2>2 DEF NotLost, InHand
  <2> QED
    BY <2>4, <2>5, <2>6, <2>7
<1>15. CASE ReaderExit
  <2>1. /\ UNCHANGED <<pending, todo, wire>>
        /\ ~ InHand /\ ~ InHand' /\ reader'.line.of \in {0, reader.line.of}
    BY <1>1, <1>2, <1>15 DEF ReaderExit, InHand, ReaderStates
  <2>2. StreamInv'
    BY <1>2, <1>5, <2>1, StreamFrame
  <2> QED
    BY <2>2 DEF StreamInv
<1> QED
  BY <1>10, <1>11, <1>12, <1>13, <1>14, <1>15 DEF ReaderStep

LEMMA StreamModule ==
  ASSUME TypeInv, StreamInv, ModuleStep \/ SayUrc
  PROVE  StreamInv'
<1>1. todo \in Seq(Commands)
  BY TypeParts DEF TypeInv, LineType
<1>2. UNCHANGED <<pending, reader, port, caller, ctl>>
  BY DEF ModuleStep, SayData, SayFinal, SayNothing, SayUrc, modemOnly, threads, slot
<1> SUFFICES ASSUME Mine PROVE OnlyOwn' /\ InOrder' /\ NotYet' /\ NotLost'
  BY <1>2 DEF StreamInv, Mine
<1>3. Data' = Data /\ Final' = Final /\ Awake' = Awake
  BY <1>2 DEF Data, Final, Awake
<1>4. OnlyOwn /\ InOrder /\ NotYet /\ NotLost
  BY DEF StreamInv
<1>5. /\ Data # Final /\ Urc # Data /\ Urc # Final
      /\ Data.of = pending.id /\ Urc.of = 0 /\ pending.id # 0
  BY ThreeLines DEF Mine
<1>6. ASSUME todo # <<>>
      PROVE  /\ 1 \in DOMAIN todo /\ Head(todo) = todo[1]
             /\ todo[1].id = pending.id /\ todo[1].query = pending.query
             /\ port /\ Owed
  BY <1>4, <1>6, SaidLine DEF OnlyOwn, NotYet, Owed
<1>7. ASSUME todo # <<>>, todo' = Tail(todo) PROVE todo' = <<>> /\ DOMAIN todo' = {}
  <2>1. \A i \in DOMAIN todo' : i + 1 \in DOMAIN todo /\ i + 1 # 1
    BY <1>1, <1>7, Tailed
  <2>2. DOMAIN todo' = {}
    BY <1>4, <2>1 DEF OnlyOwn
  <2>3. todo' \in Seq(Commands)
    BY <1>1, <1>7, Tailed
  <2> QED
    BY <2>2, <2>3, SeqIndex
<1>8. ASSUME NEW line \in {Urc, Data, Final}, line \in Lines, Send(line), port
      PROVE  /\ \A i \in DOMAIN wire' : wire'[i] \in {Urc, Data, Final}
             /\ OnWire(Data)' <=> OnWire(Data) \/ line = Data
             /\ OnWire(Final)' <=> OnWire(Final) \/ line = Final
             /\ (line = Data => ~ OnWire(Data) /\ ~ OnWire(Final))
                /\ (line = Final => ~ OnWire(Final)) => InOrder'
  <2> DEFINE n == Len(wire) + 1
  <2>1. /\ \A i \in DOMAIN wire' : (i \in DOMAIN wire /\ wire'[i] = wire[i] /\ i < n)
                                   \/ (i = n /\ wire'[i] = line)
        /\ \A i \in DOMAIN wire : i \in DOMAIN wire' /\ wire'[i] = wire[i] /\ i < n
        /\ n \in DOMAIN wire' /\ wire'[n] = line
    BY <1>8, Sent
  <2> HIDE DEF n
  <2>2. \A i \in DOMAIN wire' : wire'[i] \in {Urc, Data, Final}
    BY <1>4, <2>1 DEF OnlyOwn
  <2>3. /\ OnWire(Data)' <=> OnWire(Data) \/ line = Data
        /\ OnWire(Final)' <=> OnWire(Final) \/ line = Final
    BY <1>3, <2>1 DEF OnWire
  <2>4. ASSUME line = Data => ~ OnWire(Data) /\ ~ OnWire(Final), line = Final => ~ OnWire(Final),
               NEW i \in DOMAIN wire', NEW k \in DOMAIN wire'
        PROVE  /\ wire'[i] = Data /\ wire'[k] = Data => i = k
               /\ wire'[i] = Final /\ wire'[k] = Final => i = k
               /\ wire'[i] = Data /\ wire'[k] = Final => i < k
    <3>1. CASE i \in DOMAIN wire /\ k \in DOMAIN wire
      BY <1>4, <2>1, <3>1 DEF InOrder
    <3>2. CASE i = n /\ k = n
      BY <1>5, <2>1, <3>2
    <3>3. CASE i = n /\ k \in DOMAIN wire
      BY <1>5, <2>1, <2>4, <3>3 DEF OnWire
    <3>4. CASE i \in DOMAIN wire /\ k = n
      BY <1>5, <2>1, <2>4, <3>4 DEF OnWire
    <3> QED
      BY <2>1, <3>1, <3>2, <3>3, <3>4
  <2>5. (line = Data => ~ OnWire(Data) /\ ~ OnWire(Final)) /\ (line = Final => ~ OnWire(Final))
          => InOrder'
    BY <1>3, <2>4 DEF InOrder
  <2> QED
    BY <2>2, <2>3, <2>5
<1>9. CASE SayData
  <2>1. /\ todo # <<>> /\ ~ todo[1].said /\ Send(Data) /\ Data \in Lines
        /\ todo[1].id = pending.id /\ todo[1].query = pending.query /\ port /\ Owed
    BY <1>6, <1>9, SaidLine DEF SayData, Data
  <2>2. /\ todo' # <<>> /\ DOMAIN todo' = DOMAIN todo /\ todo'[1].said
        /\ \A i \in DOMAIN todo : todo'[i].id = todo[i].id /\ todo'[i].query = todo[i].query
    BY <1>1, <1>9, Said DEF SayData
  <2>3. ~ OnWire(Data) /\ ~ OnWire(Final) /\ reader.line.of # pending.id
        /\ Data \notin pending.lines /\ \A c \in Callers : caller[c].pc # "write"
    BY <1>4, <2>1 DEF NotYet
  <2>4. InOrder' /\ OnWire(Data)' /\ ~ OnWire(Final)'
        /\ \A i \in DOMAIN wire' : wire'[i] \in {Urc, Data, Final}
    BY <1>5, <1>8, <2>1, <2>3
  <2>5. OnlyOwn'
    BY <1>2, <1>3, <1>4, <2>2, <2>4 DEF OnlyOwn, InHand
  <2>6. NotYet'
    BY <1>2, <1>3, <2>1, <2>2, <2>3, <2>4 DEF NotYet, Owed
  <2>7. NotLost'
    BY <1>2, <1>3, <1>4, <1>5, <2>1, <2>3, <2>4 DEF NotLost, InHand
  <2> QED
    BY <2>4, <2>5, <2>6, <2>7
<1>10. CASE SayFinal
  <2>1. /\ todo # <<>> /\ todo[1].said /\ Send(Final) /\ Final \in Lines /\ port /\ Owed
        /\ todo' = <<>> /\ DOMAIN todo' = {}
    BY <1>6, <1>7, <1>10, SaidLine DEF SayFinal, Final
  <2>2. ~ OnWire(Final) /\ \A c \in Callers : caller[c].pc # "write"
    BY <1>4, <2>1 DEF NotYet
  <2>3. /\ InOrder' /\ OnWire(Final)' /\ (OnWire(Data)' <=> OnWire(Data))
        /\ \A i \in DOMAIN wire' : wire'[i] \in {Urc, Data, Final}
    BY <1>5, <1>8, <2>1, <2>2
  <2>4. OnlyOwn'
    BY <1>2, <1>3, <1>4, <2>1, <2>3 DEF OnlyOwn, InHand
  <2>5. NotYet'
    BY <1>2, <2>1, <2>2 DEF NotYet, Owed
  <2>6. NotLost'
    BY <1>2, <1>3, <1>4, <2>1, <2>3 DEF NotLost, InHand
  <2> QED
    BY <2>3, <2>4, <2>5, <2>6
<1>11. CASE SayNothing
  <2>1. todo # <<>> /\ todo' = <<>> /\ DOMAIN todo' = {} /\ wire' = wire /\ Owed
    BY <1>7, <1>11 DEF SayNothing, Owed
  <2>2. \A c \in Callers : caller[c].pc # "write"
    BY <1>4, <2>1 DEF NotYet
  <2>3. OnWire(Data)' = OnWire(Data) /\ OnWire(Final)' = OnWire(Final)
    BY <1>3, <2>1 DEF OnWire
  <2>4. OnlyOwn' /\ InOrder'
    BY <1>2, <1>3, <1>4, <2>1 DEF OnlyOwn, InOrder, InHand
  <2>5. NotYet'
    BY <1>2, <2>1, <2>2 DEF NotYet, Owed
  <2>6. NotLost'
    BY <1>2, <1>3, <1>4, <2>1, <2>3 DEF NotLost, InHand, Owed
  <2> QED
    BY <2>4, <2>5, <2>6
<1>12. CASE SayUrc
  <2>1. Send(Urc) /\ Urc \in Lines /\ port /\ todo' = todo /\ Owed' = Owed
    BY <1>12, UrcLine DEF SayUrc, Urc, Owed
  <2>2. /\ InOrder' /\ (OnWire(Final)' <=> OnWire(Final)) /\ (OnWire(Data)' <=> OnWire(Data))
        /\ \A i \in DOMAIN wire' : wire'[i] \in {Urc, Data, Final}
    BY <1>5, <1>8, <2>1
  <2>3. OnlyOwn'
    BY <1>2, <1>3, <1>4, <2>1, <2>2 DEF OnlyOwn, InHand
  <2>4. NotYet'
    BY <1>2, <1>3, <1>4, <2>1, <2>2 DEF NotYet
  <2>5. NotLost'
    BY <1>2, <1>3, <1>4, <2>1, <2>2 DEF NotLost, InHand
  <2> QED
    BY <2>2, <2>3, <2>4, <2>5
<1> QED
  BY <1>9, <1>10, <1>11, <1>12 DEF ModuleStep

LEMMA StreamStep ==
  ASSUME Prompt, TypeInv, PhaseInv, SlotInv, FreshInv, UrcInv, StreamInv, [Next]_vars
  PROVE  StreamInv'
<1>1. ThreadType /\ LineType /\ SlotType
  BY TypeParts DEF TypeInv
<1>2. ASSUME NEW c \in Callers, NEW query \in BOOLEAN, Enter(c, query), Awake' => Awake
      PROVE  StreamInv'
  <2>1. /\ caller'[c] = [pc |-> "serial", id |-> calls + 1, query |-> query]
        /\ \A d \in Callers : d # c => caller'[d] = caller[d]
    BY <1>2, EnterType
  <2>2. \A d \in Callers : caller'[d].pc = "write" => caller[d].pc = "write"
    BY <2>1
  <2> QED
    BY <1>2, <2>2, StreamFrame DEF Enter, slot, module
<1>3. ASSUME NEW c \in Callers, CallStep(c) PROVE StreamInv'
  <2>1. CASE GiveUpSlot(c)
    <3>1. caller'[c] = Idle /\ \A d \in Callers : d # c => caller'[d] = caller[d]
      BY <1>1, <2>1, IdleState, CallerSet DEF ThreadType, GiveUpSlot
    <3>2. \A d \in Callers : caller'[d].pc = "write" => caller[d].pc = "write"
      BY <3>1 DEF Idle
    <3> QED
      BY <2>1, <3>2, StreamFrame DEF GiveUpSlot, slot, module, Awake
  <2>2. CASE WriteFails(c) \/ Return(c) \/ TimeOut(c)
    BY <2>2 DEF WriteFails, Return, TimeOut, Release, StreamInv, Mine
  <2>3. CASE Segfault(c)
    BY <2>3, HolderPending DEF Segfault, Holds
  <2> QED
    BY <1>3, <2>1, <2>2, <2>3, StreamTake, StreamWrite DEF CallStep
<1>4. ASSUME NEW c \in Callers, Call(c) PROVE StreamInv'
  BY <1>2, <1>4, AtAssumption DEF Call, AtAssumption, Awake
<1>5. CASE WorkerStep \/ DrainUrcLog
  <2>1. UNCHANGED <<pending, todo, wire, reader, caller, port, ctl>>
    BY <1>5 DEF WorkerStep, TakeUrc, HandledUrc, WorkerExit, DrainUrcLog, workerOnly, threads,
       slot, module
  <2> QED
    BY <2>1, StreamFrame DEF Awake
<1>6. CASE SendAte0
  BY <1>2, <1>6, AtAssumption DEF SendAte0, AtAssumption, Awake, Woken
<1>7. CASE OpenPort \/ StartThreads \/ Connected \/ Disconnect \/ JoinReader \/ StopUrc
           \/ JoinWorker
  <2>1. UNCHANGED <<pending, todo, wire, caller>> /\ (port => port') /\ (Awake' => Awake)
    BY <1>7 DEF OpenPort, StartThreads, Connected, Disconnect, JoinReader, StopUrc, JoinWorker,
       mainOnly, slot, Awake, Woken
  <2>2. StartThreads => reader.pc = "off"
    BY DEF StartThreads, PhaseInv, Reading
  <2>3. \/ reader' = reader
        \/ ~ InHand /\ ~ InHand' /\ reader'.line.of \in {0, reader.line.of}
    BY <1>7, <2>2 DEF OpenPort, StartThreads, Connected, Disconnect, JoinReader, StopUrc,
       JoinWorker, InHand, NoLine
  <2> QED
    BY <2>1, <2>3, StreamFrame
<1>8. CASE Reset
  BY <1>8 DEF Reset, StreamInv, Mine
<1>9. CASE ClosePort
  <2>1. pending' = NoPending \/ ~ pending'.clean
    BY <1>1, <1>9 DEF ClosePort, SlotType, Pendings
  <2> QED
    BY <2>1 DEF StreamInv, Mine
<1>10. CASE UNCHANGED vars
  <2>1. UNCHANGED <<pending, todo, wire, reader, caller, port, ctl>>
    BY <1>10 DEF vars, threads, slot, module
  <2> QED
    BY <2>1, StreamFrame DEF Awake
<1> QED
  BY <1>3, <1>4, <1>5, <1>6, <1>7, <1>8, <1>9, <1>10, StreamWake, StreamRead, StreamModule
  DEF Next, Opening, Closing

-----------------------------------------------------------------------------
(* The answers *)

AtInv == TypeInv /\ PhaseInv /\ SlotInv /\ FreshInv /\ UrcInv /\ StreamInv

LEMMA AtInvariant == Prompt /\ Spec => []AtInv
<1> SUFFICES ASSUME Prompt PROVE Spec => []AtInv
  OBVIOUS
<1>1. Init => AtInv
  <2> SUFFICES ASSUME Init PROVE AtInv
    OBVIOUS
  <2>1. TypeInv
    BY InitType
  <2>2. PhaseInv
    BY DEF Init, PhaseInv, Reading
  <2>3. SlotInv
    BY DEF Init, SlotInv, Holds, Idle
  <2>4. FreshInv
    BY DEF Init, FreshInv, Idle, NoPending, NoLine
  <2>5. UrcInv
    BY DEF Init, UrcInv, InHand
  <2>6. StreamInv
    BY DEF Init, StreamInv, Mine
  <2> QED
    BY <2>1, <2>2, <2>3, <2>4, <2>5, <2>6 DEF AtInv
<1>2. AtInv /\ [Next]_vars => AtInv'
  BY TypeStep, PhaseStep, SlotStep, FreshStep, UrcStep, StreamStep DEF AtInv
<1> QED
  BY <1>1, <1>2, PTL DEF Spec

\* At most one command is in flight, and pending_ is that command's: no thread
\* overwrites the pending command of another, across time-outs, failing writes
\* and disconnects, if those that a disconnect wakes return before its end.
THEOREM OneInFlight == Prompt /\ Spec => []SlotExclusive
<1>1. AtInv => SlotExclusive
  BY DEF AtInv, SlotInv, OwnSlot, SlotExclusive
<1> QED
  BY <1>1, AtInvariant, PTL

\* A command that took the slot with nothing of an earlier answer on the way is
\* completed by its own result, after its own data line, and no other command's
\* line gets into its answer.
THEOREM AnswersAreRight == Prompt /\ Spec => []RightAnswer
<1>1. AtInv => RightAnswer
  <2> SUFFICES ASSUME AtInv, pending.clean
               PROVE  /\ reading /\ pending.by # 0 =>
                           pending.by = pending.id /\ Data \in pending.lines
                      /\ \A line \in pending.lines :
                           line.of = pending.id \/ (line.of = 0 /\ pending.query)
    BY DEF RightAnswer, Data
  <2>1. CASE pending = NoPending
    BY <2>1 DEF NoPending
  <2>2. CASE pending # NoPending
    <3>1. OnlyOwn /\ NotLost
      BY <2>2 DEF AtInv, StreamInv, Mine
    <3>2. reading => Awake
      BY DEF AtInv, PhaseInv, Awake, Woken
    <3>3. Data.of = pending.id /\ Urc.of = 0
      BY <2>2, ThreeLines DEF AtInv
    <3> QED
      BY <3>1, <3>2, <3>3 DEF OnlyOwn, NotLost
  <2> QED
    BY <2>1, <2>2
<1> QED
  BY <1>1, AtInvariant, PTL

\* No line of such a command's answer goes to the handlers of unsolicited lines.
THEOREM AnswersAreKept == Prompt /\ Spec => []AnswerNotSwallowed
<1>1. AtInv => AnswerNotSwallowed
  <2> SUFFICES ASSUME AtInv, reading, pending.clean, reader.pc \in {"log", "dispatch"},
                      reader.line.of # 0
               PROVE  reader.line.of # pending.id
    BY DEF AnswerNotSwallowed
  <2>1. CASE pending = NoPending
    BY <2>1 DEF NoPending
  <2>2. CASE pending # NoPending
    <3>1. NotLost
      BY <2>2 DEF AtInv, StreamInv, Mine
    <3>2. Awake
      BY DEF AtInv, PhaseInv, Awake, Woken
    <3> QED
      BY <3>1, <3>2 DEF NotLost, Urc
  <2> QED
    BY <2>1, <2>2
<1> QED
  BY <1>1, AtInvariant, PTL

=============================================================================
