------------------------- MODULE OfflineCacheProofs -------------------------
(***************************************************************************)
(* Proofs about the offline cache: no record is handed over twice in one   *)
(* life of the process, the cache spans at most m_maxAgeMs, what is on     *)
(* disk leaves it only once it was handed over, and the cache implements   *)
(* StoreAndForward.  Each theorem names the failures it excludes; none of  *)
(* them bounds the number of cycles, flushes or restarts.                  *)
(***************************************************************************)
EXTENDS CacheRefinement, TLAPS

ProducerStates ==
  {IdleProducer} \cup [pc : {"try", "sent", "trigger", "push"}, rec : Records]
FlusherStates ==
  [pc : {"idle", "front", "end"}, rec : {None}] \cup [pc : {"send", "pop"}, rec : Records]

Distinct(q) == \A i, j \in DOMAIN q : q[i].id = q[j].id => i = j

\* The conjuncts of TypeOK, in a state and in the next.
LEMMA TypeParts ==
  /\ TypeOK <=> /\ clock \in Clock /\ restarts \in 0..MaxRestarts
                /\ producer \in [Producers -> ProducerStates]
                /\ queue \in Seq(Records) /\ file \in Seq(Records)
                /\ Distinct(queue) /\ Distinct(file)
                /\ flushing \in BOOLEAN /\ connected \in BOOLEAN /\ inflight \subseteq Ids
                /\ flusher \in [Flushers -> FlusherStates]
                /\ given \in [Ids -> {"no", "before", "now", "twice"}]
  /\ TypeOK' <=> /\ clock' \in Clock /\ restarts' \in 0..MaxRestarts
                 /\ producer' \in [Producers -> ProducerStates]
                 /\ queue' \in Seq(Records) /\ file' \in Seq(Records)
                 /\ Distinct(queue') /\ Distinct(file')
                 /\ flushing' \in BOOLEAN /\ connected' \in BOOLEAN /\ inflight' \subseteq Ids
                 /\ flusher' \in [Flushers -> FlusherStates]
                 /\ given' \in [Ids -> {"no", "before", "now", "twice"}]
BY DEF TypeOK, ProducerStates, FlusherStates, Distinct

\* The record of a cycle is its own: no other cycle has it and it is not yet
\* in the cache; until it is sent it was not handed over either.
OwnRecord ==
  \A p \in Producers : producer[p].pc # "idle" =>
    /\ producer[p].rec.id \notin IdsOf(queue)
    /\ producer[p].rec.id \notin IdsOf(file)
    /\ producer[p].pc \in {"try", "push"} => given[producer[p].rec.id] = "no"
    /\ \A r \in Producers :
         producer[r].pc # "idle" /\ producer[r].rec.id = producer[p].rec.id => r = p

\* What a flush sends or has sent is still the front of the queue when it comes
\* back for it: comparing the time stamp alone removes the right record.
HoldsFront ==
  \A f \in Flushers : flusher[f].pc \in {"send", "pop"} =>
    /\ queue # <<>>
    /\ flusher[f].rec = queue[1]
    /\ flusher[f].pc = "pop" => given[queue[1].id] = "now"

\* Of the queue only the front was handed over in this life of the process, and
\* only while the flush that did it is about to remove it.
SentIsPopping ==
  \A i \in DOMAIN queue : given[queue[i].id] = "now" =>
    i = 1 /\ \E f \in Flushers : flusher[f].pc = "pop"

CacheInv ==
  /\ TypeOK
  /\ FlushExclusive
  /\ OwnRecord
  /\ HoldsFront
  /\ SentIsPopping
  /\ NoRepeat

\* What the file holds and the queue no longer does was handed over.
FileBehind == \A i \in IdsOf(file) : i \in IdsOf(queue) \/ Handed(i)

\* The cache is in the order of time, spans at most m_maxAgeMs and is not ahead
\* of the clock or of a record on its way.
InOrder(q) ==
  /\ \A i, j \in DOMAIN q : i <= j => q[i].ts <= q[j].ts /\ q[j].ts <= q[i].ts + MaxAge
  /\ \A i \in DOMAIN q : q[i].ts <= clock

OrderInv ==
  /\ InOrder(queue) /\ InOrder(file)
  /\ \A p \in Producers : producer[p].pc # "idle" =>
       /\ producer[p].rec.ts <= clock
       /\ \A i \in DOMAIN queue : queue[i].ts <= producer[p].rec.ts

\* When no write fails the file is the queue, and a restart repeats at most the
\* front.
ExactInv ==
  /\ file = queue
  /\ \A i \in DOMAIN queue : i > 1 => ~ Handed(queue[i].id)

-----------------------------------------------------------------------------
(* Sequences of records *)

LEMMA SeqIndex ==
  ASSUME NEW q \in Seq(Records)
  PROVE  /\ Len(q) \in Nat
         /\ DOMAIN q = 1..Len(q)
         /\ \A i \in 1..Len(q) : q[i] \in Records
         /\ q # <<>> => Len(q) >= 1 /\ Head(q) = q[1]
OBVIOUS

LEMMA Appended ==
  ASSUME NEW q \in Seq(Records), NEW r \in Records, NEW a, a = Append(q, r)
  PROVE  /\ a \in Seq(Records)
         /\ DOMAIN a = 1..(Len(q) + 1)
         /\ a # <<>>
         /\ \A i \in 1..Len(q) : a[i] = q[i]
         /\ a[Len(q) + 1] = r
OBVIOUS

LEMMA Tailed ==
  ASSUME NEW q \in Seq(Records), q # <<>>, NEW t, t = Tail(q)
  PROVE  /\ t \in Seq(Records)
         /\ DOMAIN t = 1..(Len(q) - 1)
         /\ \A i \in 1..(Len(q) - 1) : t[i] = q[i + 1]
OBVIOUS

\* Whatever fails while it is written, the file is as it was or has a first part
\* of the queue.
LEMMA Persisted ==
  ASSUME NEW q \in Seq(Records), Persist(q)
  PROVE  \/ file' = file
         \/ /\ file' \in Seq(Records)
            /\ DOMAIN file' \subseteq DOMAIN q
            /\ \A i \in DOMAIN file' : file'[i] = q[i]
<1>1. CASE file' = q
  BY <1>1
<1>2. ASSUME NEW n \in 0..Len(q), file' = SubSeq(q, 1, n)
      PROVE  /\ file' \in Seq(Records)
             /\ DOMAIN file' \subseteq DOMAIN q
             /\ \A i \in DOMAIN file' : file'[i] = q[i]
  BY <1>2, SeqIndex
<1> QED
  BY <1>1, <1>2 DEF Persist

LEMMA PersistedIds ==
  ASSUME NEW q \in Seq(Records), Distinct(q), Persist(q),
         file \in Seq(Records), Distinct(file)
  PROVE  /\ file' \in Seq(Records)
         /\ Distinct(file')
         /\ IdsOf(file') \subseteq IdsOf(file) \cup IdsOf(q)
<1>1. CASE file' = file
  BY <1>1
<1>2. CASE /\ file' \in Seq(Records)
           /\ DOMAIN file' \subseteq DOMAIN q
           /\ \A i \in DOMAIN file' : file'[i] = q[i]
  BY <1>2 DEF Distinct, IdsOf
<1> QED
  BY <1>1, <1>2, Persisted

\* The queue with a new record behind it, and without its front.
LEMMA AppendedIds ==
  ASSUME NEW q \in Seq(Records), Distinct(q), NEW r \in Records, r.id \notin IdsOf(q),
         NEW a, a = Append(q, r)
  PROVE  /\ Distinct(a)
         /\ IdsOf(a) \subseteq IdsOf(q) \cup {r.id}
         /\ r.id \in IdsOf(a)
         /\ IdsOf(q) \subseteq IdsOf(a)
<1>1. /\ DOMAIN q = 1..Len(q) /\ DOMAIN a = 1..(Len(q) + 1) /\ Len(q) \in Nat
      /\ \A i \in 1..Len(q) : a[i] = q[i]
      /\ a[Len(q) + 1] = r
  BY SeqIndex, Appended
<1>2. \A i \in DOMAIN a : (i \in DOMAIN q /\ a[i] = q[i]) \/ (i = Len(q) + 1 /\ a[i] = r)
  BY <1>1
<1>3. \A i \in DOMAIN q : q[i].id # r.id /\ i \in DOMAIN a /\ a[i] = q[i]
  BY <1>1 DEF IdsOf
<1>4. Len(q) + 1 \in DOMAIN a
  BY <1>1
<1>5. Distinct(a)
  <2> SUFFICES ASSUME NEW i \in DOMAIN a, NEW j \in DOMAIN a, a[i].id = a[j].id
               PROVE  i = j
    BY DEF Distinct
  <2> QED
    BY <1>2, <1>3 DEF Distinct
<1>6. IdsOf(a) \subseteq IdsOf(q) \cup {r.id}
  BY <1>2 DEF IdsOf
<1>7. r.id \in IdsOf(a) /\ IdsOf(q) \subseteq IdsOf(a)
  <2>1. r.id = a[Len(q) + 1].id
    BY <1>1
  <2>2. r.id \in IdsOf(a)
    BY <1>4, <2>1 DEF IdsOf
  <2>3. IdsOf(q) \subseteq IdsOf(a)
    BY <1>3 DEF IdsOf
  <2> QED
    BY <2>2, <2>3
<1> QED
  BY <1>5, <1>6, <1>7

LEMMA TailedIds ==
  ASSUME NEW q \in Seq(Records), Distinct(q), q # <<>>, NEW t, t = Tail(q)
  PROVE  /\ Distinct(t)
         /\ IdsOf(t) \subseteq IdsOf(q)
         /\ q[1].id \notin IdsOf(t)
         /\ IdsOf(q) \subseteq IdsOf(t) \cup {q[1].id}
<1>1. /\ DOMAIN q = 1..Len(q) /\ DOMAIN t = 1..(Len(q) - 1) /\ Len(q) \in Nat
      /\ 1 \in DOMAIN q
      /\ \A i \in 1..(Len(q) - 1) : t[i] = q[i + 1]
  BY SeqIndex, Tailed
<1>2. \A i \in DOMAIN t : i + 1 \in DOMAIN q /\ i + 1 # 1 /\ t[i] = q[i + 1]
  BY <1>1
<1>3. \A i, j \in DOMAIN t : i + 1 = j + 1 => i = j
  BY <1>1
<1>4. \A i \in DOMAIN q : i = 1 \/ (i - 1 \in DOMAIN t /\ t[i - 1] = q[i])
  BY <1>1
<1>5. Distinct(t)
  <2> SUFFICES ASSUME NEW i \in DOMAIN t, NEW j \in DOMAIN t, t[i].id = t[j].id
               PROVE  i = j
    BY DEF Distinct
  <2>1. q[i + 1].id = q[j + 1].id /\ i + 1 \in DOMAIN q /\ j + 1 \in DOMAIN q
    BY <1>2
  <2>2. i + 1 = j + 1
    BY <2>1 DEF Distinct
  <2> QED
    BY <1>3, <2>2
<1>6. IdsOf(t) \subseteq IdsOf(q)
  BY <1>2 DEF IdsOf
<1>7. q[1].id \notin IdsOf(t)
  <2> SUFFICES ASSUME NEW i \in DOMAIN t, t[i].id = q[1].id
               PROVE  FALSE
    BY DEF IdsOf
  <2>1. i + 1 \in DOMAIN q /\ q[i + 1].id = q[1].id
    BY <1>2
  <2>2. i + 1 = 1
    BY <1>1, <2>1 DEF Distinct
  <2> QED
    BY <1>2, <2>2
<1>8. IdsOf(q) \subseteq IdsOf(t) \cup {q[1].id}
  <2> SUFFICES ASSUME NEW i \in DOMAIN q, i # 1
               PROVE  q[i].id \in IdsOf(t)
    BY DEF IdsOf
  <2>1. i - 1 \in DOMAIN t /\ t[i - 1].id = q[i].id
    BY <1>4
  <2> QED
    BY <2>1 DEF IdsOf
<1> QED
  BY <1>5, <1>6, <1>7, <1>8

-----------------------------------------------------------------------------
(* Threads *)

LEMMA ActiveProducer ==
  ASSUME TypeOK, NEW p \in Producers, producer[p].pc # "idle"
  PROVE  /\ producer[p].pc \in {"try", "sent", "trigger", "push"}
         /\ producer[p].rec \in Records
         /\ producer[p].rec.id \in Ids
         /\ producer[p].rec.ts \in Clock
BY TypeParts DEF ProducerStates, IdleProducer, Records

\* A producer goes on with its record.
LEMMA ProducerGoesTo ==
  ASSUME TypeOK, NEW p \in Producers, producer[p].pc # "idle",
         NEW c \in {"try", "sent", "trigger", "push"},
         producer' = [producer EXCEPT ![p] = [producer[p] EXCEPT !.pc = c]]
  PROVE  /\ producer' \in [Producers -> ProducerStates]
         /\ producer'[p].pc = c /\ producer'[p].rec = producer[p].rec
         /\ \A r \in Producers : r # p => producer'[r] = producer[r]
<1>1. producer[p] \in [pc : {"try", "sent", "trigger", "push"}, rec : Records]
  BY TypeParts DEF ProducerStates, IdleProducer
<1> QED
  BY <1>1, TypeParts DEF ProducerStates

LEMMA ProducerEnds ==
  ASSUME TypeOK, NEW p \in Producers, producer' = [producer EXCEPT ![p] = IdleProducer]
  PROVE  /\ producer' \in [Producers -> ProducerStates]
         /\ producer'[p].pc = "idle"
         /\ \A r \in Producers : r # p => producer'[r] = producer[r]
BY TypeParts DEF ProducerStates, IdleProducer

\* A flusher goes on, with a record or without one.
LEMMA FlusherGoesTo ==
  ASSUME TypeOK, NEW f \in Flushers, NEW s \in FlusherStates,
         flusher' = [flusher EXCEPT ![f] = s]
  PROVE  /\ flusher' \in [Flushers -> FlusherStates]
         /\ flusher'[f] = s
         /\ \A g \in Flushers : g # f => flusher'[g] = flusher[g]
BY TypeParts

-----------------------------------------------------------------------------
(* Nothing is handed over twice *)

LEMMA InitInv == Init => CacheInv
<1> SUFFICES ASSUME Init PROVE CacheInv
  OBVIOUS
<1>1. TypeOK
  <2>1. producer \in [Producers -> ProducerStates]
    BY DEF Init, ProducerStates
  <2>2. flusher \in [Flushers -> FlusherStates]
    BY DEF Init, FlusherStates, IdleFlusher
  <2>3. clock \in Clock /\ restarts \in 0..MaxRestarts
    BY CacheAssumption DEF Init, CacheAssumption, Clock
  <2>4. given \in [Ids -> {"no", "before", "now", "twice"}]
    BY DEF Init
  <2>5. flushing \in BOOLEAN /\ connected \in BOOLEAN /\ inflight \subseteq Ids
    BY DEF Init
  <2>6. queue \in Seq(Records) /\ file \in Seq(Records) /\ Distinct(queue) /\ Distinct(file)
    BY DEF Init, Distinct
  <2> QED
    BY <2>1, <2>2, <2>3, <2>4, <2>5, <2>6, TypeParts
<1>2. FlushExclusive /\ OwnRecord /\ HoldsFront /\ SentIsPopping /\ NoRepeat
  BY DEF Init, FlushExclusive, OwnRecord, HoldsFront, SentIsPopping, NoRepeat,
         IdleProducer, IdleFlusher
<1> QED
  BY <1>1, <1>2 DEF CacheInv

\* Time, the connection and the delivery touch nothing that the invariant is about.
LEMMA WorldInv ==
  ASSUME CacheInv, Reconnect \/ ConnLost \/ (\E i \in Ids : Deliver(i)) \/ Tick
  PROVE  CacheInv'
<1>1. TypeOK'
  <2>1. clock' \in Clock
    BY CacheAssumption
       DEF CacheAssumption, CacheInv, TypeOK, Reconnect, ConnLost, Deliver, Tick, Clock
  <2>2. connected' \in BOOLEAN
    BY Zenon DEF CacheInv, TypeOK, Reconnect, ConnLost, Deliver, Tick
  <2>3. inflight' \subseteq Ids
    BY DEF CacheInv, TypeOK, Reconnect, ConnLost, Deliver, Tick
  <2>4. UNCHANGED <<producer, queue, file, flushing, flusher, given, restarts>>
    BY DEF Reconnect, ConnLost, Deliver, Tick
  <2> QED
    BY <2>1, <2>2, <2>3, <2>4, TypeParts DEF CacheInv
<1>2. UNCHANGED <<queue, file, producer, flusher, flushing, given>>
  BY DEF Reconnect, ConnLost, Deliver, Tick
<1> QED
  BY <1>1, <1>2 DEF CacheInv, FlushExclusive, OwnRecord, HoldsFront, SentIsPopping, NoRepeat, IdsOf

LEMMA RestartInv ==
  ASSUME CacheInv, Restart
  PROVE  CacheInv'
<1>1. TypeOK'
  <2>1. producer' \in [Producers -> ProducerStates]
    BY DEF Restart, ProducerStates
  <2>2. flusher' \in [Flushers -> FlusherStates]
    BY DEF Restart, FlusherStates, IdleFlusher
  <2>3. restarts' \in 0..MaxRestarts
    BY CacheAssumption DEF CacheAssumption, CacheInv, TypeOK, Restart
  <2>4. given' \in [Ids -> {"no", "before", "now", "twice"}]
    BY DEF Restart
  <2>5. flushing' \in BOOLEAN /\ connected' \in BOOLEAN /\ inflight' \subseteq Ids
    BY DEF Restart
  <2> QED
    BY <2>1, <2>2, <2>3, <2>4, <2>5, TypeParts DEF CacheInv, Restart
<1>2. \A i \in Ids : given'[i] \in {"no", "before"}
  BY DEF Restart
<1>3. \A i \in DOMAIN queue' : queue'[i].id \in Ids
  BY <1>1, SeqIndex DEF TypeOK, Records
<1>4. FlushExclusive' /\ OwnRecord' /\ HoldsFront'
  BY DEF Restart, FlushExclusive, OwnRecord, HoldsFront, IdleProducer, IdleFlusher
<1>5. SentIsPopping' /\ NoRepeat'
  BY <1>2, <1>3 DEF SentIsPopping, NoRepeat
<1> QED
  BY <1>1, <1>4, <1>5 DEF CacheInv

\* A step that leaves the cache alone.
LEMMA SameCache ==
  ASSUME UNCHANGED <<queue, file>>
  PROVE  /\ IdsOf(queue)' = IdsOf(queue) /\ IdsOf(file)' = IdsOf(file)
         /\ IdsOf(queue') = IdsOf(queue) /\ IdsOf(file') = IdsOf(file)
BY DEF IdsOf

LEMMA QueueIds ==
  ASSUME TypeOK
  PROVE  /\ \A n \in DOMAIN queue : queue[n].id \in Ids /\ queue[n].id \in IdsOf(queue)
         /\ queue # <<>> => 1 \in DOMAIN queue
         /\ queue # <<>> => queue[1].id \in IdsOf(queue)
<1>1. queue \in Seq(Records)
  BY TypeParts
<1>2. queue # <<>> => 1 \in DOMAIN queue
  BY <1>1, SeqIndex
<1>3. \A n \in DOMAIN queue : queue[n].id \in Ids
  BY <1>1, SeqIndex DEF Records
<1> QED
  BY <1>2, <1>3 DEF IdsOf

\* A step about a record that is not in the queue.
LEMMA OtherRecord ==
  ASSUME TypeOK, HoldsFront, SentIsPopping, UNCHANGED <<queue, flusher>>,
         NEW i \in Ids, i \notin IdsOf(queue), NEW g, given' = [given EXCEPT ![i] = g]
  PROVE  HoldsFront' /\ SentIsPopping'
<1>1. \A n \in DOMAIN queue : given'[queue[n].id] = given[queue[n].id]
  BY QueueIds, TypeParts
<1> QED
  BY <1>1, QueueIds DEF HoldsFront, SentIsPopping

LEMMA StampInv ==
  ASSUME CacheInv, NEW p \in Producers, Stamp(p)
  PROVE  CacheInv'
<1> USE DEF CacheInv
<1>1. PICK i \in Ids :
        /\ ~ InUse(i)
        /\ producer' = [producer EXCEPT ![p] = [pc |-> "try", rec |-> [id |-> i, ts |-> clock]]]
        /\ given' = [given EXCEPT ![i] = "no"]
  BY DEF Stamp
<1>2. UNCHANGED <<clock, queue, file, flushing, flusher, connected, inflight, restarts>>
  BY DEF Stamp
<1>3. [id |-> i, ts |-> clock] \in Records
  BY DEF TypeOK, Records
<1>4. TypeOK'
  <2>1. producer' \in [Producers -> ProducerStates]
    BY <1>1, <1>3, TypeParts DEF ProducerStates
  <2>2. given' \in [Ids -> {"no", "before", "now", "twice"}]
    BY <1>1, TypeParts
  <2> QED
    BY <1>2, <2>1, <2>2, TypeParts
<1>5. i \notin IdsOf(queue) /\ i \notin IdsOf(file)
  BY <1>1 DEF InUse
<1>7. OwnRecord'
  <2>1. /\ producer'[p].pc = "try" /\ producer'[p].rec.id = i /\ given'[i] = "no"
        /\ \A r \in Producers : r # p => producer'[r] = producer[r]
    BY <1>1, TypeParts
  <2>2. \A r \in Producers : producer[r].pc # "idle" => producer[r].rec.id # i
    BY <1>1 DEF InUse
  <2>3. \A r \in Producers : r # p /\ producer[r].pc # "idle" =>
          given'[producer[r].rec.id] = given[producer[r].rec.id]
    BY <1>1, <2>2, ActiveProducer, TypeParts
  <2> QED
    BY <1>2, <1>5, <2>1, <2>2, <2>3, SameCache DEF OwnRecord
<1>8. HoldsFront' /\ SentIsPopping'
  BY <1>1, <1>2, <1>5, OtherRecord
<1>9. FlushExclusive' /\ NoRepeat'
  BY <1>1, <1>2 DEF FlushExclusive, NoRepeat, TypeOK
<1> QED
  BY <1>4, <1>7, <1>8, <1>9


LEMMA TrySendInv ==
  ASSUME CacheInv, NEW p \in Producers, TrySend(p)
  PROVE  CacheInv'
<1> USE DEF CacheInv
<1> DEFINE id == producer[p].rec.id
<1>1. UNCHANGED <<clock, queue, file, flushing, flusher, connected, restarts>>
  BY DEF TrySend
<1>2. producer[p].pc = "try" /\ id \in Ids /\ given[id] = "no"
  BY ActiveProducer DEF TrySend, OwnRecord
<1>3. PICK c \in {"sent", "push"} :
        /\ producer' = [producer EXCEPT ![p] = [producer[p] EXCEPT !.pc = c]]
        /\ IF c = "sent" THEN SendOnce(id) ELSE UNCHANGED <<inflight, given>>
  BY DEF TrySend
<1>30. /\ producer' \in [Producers -> ProducerStates]
       /\ producer'[p].pc = c /\ producer'[p].rec = producer[p].rec
       /\ \A r \in Producers : r # p => producer'[r] = producer[r]
  BY <1>2, <1>3, ProducerGoesTo
<1>4. \/ /\ inflight' = inflight \cup {id}
         /\ given' = [given EXCEPT ![id] = "now"]
         /\ c = "sent"
      \/ UNCHANGED <<inflight, given>>
  BY <1>2, <1>3, TypeParts DEF SendOnce
<1>5. TypeOK'
  <2>1. producer' \in [Producers -> ProducerStates]
    BY <1>30
  <2>2. given' \in [Ids -> {"no", "before", "now", "twice"}] /\ inflight' \subseteq Ids
    BY <1>2, <1>4, TypeParts
  <2> QED
    BY <1>1, <2>1, <2>2, TypeParts
<1>6. id \notin IdsOf(queue) /\ id \notin IdsOf(file)
  BY <1>2 DEF OwnRecord
<1>8. OwnRecord'
  <2>1. \A r \in Producers : /\ producer'[r].rec = producer[r].rec
                             /\ producer'[r].pc # "idle" <=> producer[r].pc # "idle"
    BY <1>2, <1>30
  <2>2. ASSUME NEW r \in Producers, producer'[r].pc \in {"try", "push"}
        PROVE  given'[producer'[r].rec.id] = "no"
    <3>1. CASE r = p
      BY <1>2, <1>30, <1>4, <2>2, <3>1
    <3>2. CASE r # p
      <4>1. producer[r].rec.id # id /\ producer[r].rec.id \in Ids
            /\ given[producer[r].rec.id] = "no"
        BY <1>2, <1>30, <2>2, <3>2, ActiveProducer DEF OwnRecord
      <4> QED
        BY <1>4, <1>30, <3>2, <4>1, TypeParts
    <3> QED
      BY <3>1, <3>2
  <2> QED
    BY <1>1, <2>1, <2>2, SameCache DEF OwnRecord
<1>9. HoldsFront' /\ SentIsPopping'
  <2>1. CASE UNCHANGED given
    BY <1>1, <2>1 DEF HoldsFront, SentIsPopping
  <2>2. CASE given' = [given EXCEPT ![id] = "now"]
    BY <1>1, <1>2, <1>6, <2>2, OtherRecord
  <2> QED
    BY <1>4, <2>1, <2>2
<1>10. FlushExclusive' /\ NoRepeat'
  BY <1>1, <1>2, <1>4, TypeParts DEF FlushExclusive, NoRepeat
<1> QED
  BY <1>5, <1>8, <1>9, <1>10

\* A cycle that goes on after it has sent its record, or ends.
LEMMA AfterSentInv ==
  ASSUME CacheInv, NEW p \in Producers, LookForBacklog(p) \/ Trigger(p)
  PROVE  CacheInv'
<1> USE DEF CacheInv
<1>1. UNCHANGED <<clock, queue, file, connected, inflight, given, restarts>>
  BY DEF LookForBacklog, Trigger
<1>2. producer[p].pc \in {"sent", "trigger"}
  BY DEF LookForBacklog, Trigger
<1>3. \/ producer' = [producer EXCEPT ![p] = IdleProducer]
      \/ producer' = [producer EXCEPT ![p] = [producer[p] EXCEPT !.pc = "trigger"]]
  BY DEF LookForBacklog, Trigger
<1>4. \/ UNCHANGED <<flushing, flusher>>
      \/ /\ ~ flushing /\ flushing' = TRUE
         /\ \E f \in Flushers :
              /\ flusher[f].pc = "idle"
              /\ flusher' = [flusher EXCEPT ![f] = [pc |-> "front", rec |-> None]]
  BY DEF LookForBacklog, Trigger
<1>5. TypeOK'
  <2>1. producer' \in [Producers -> ProducerStates]
    BY <1>2, <1>3, ProducerGoesTo, ProducerEnds
  <2>2. flusher' \in [Flushers -> FlusherStates]
    BY <1>4, TypeParts DEF FlusherStates
  <2>3. flushing' \in BOOLEAN
    BY <1>4, Zenon DEF TypeOK
  <2> QED
    BY <1>1, <2>1, <2>2, <2>3, TypeParts
<1>6. OwnRecord'
  <2>1. \A r \in Producers : producer'[r].pc # "idle" =>
          /\ producer[r].pc # "idle" /\ producer'[r].rec = producer[r].rec
          /\ producer'[r].pc \in {"try", "push"} => producer[r].pc \in {"try", "push"}
    BY <1>2, <1>3, ProducerGoesTo, ProducerEnds
  <2> QED
    BY <1>1, <2>1, SameCache DEF OwnRecord
<1>7. \A f \in Flushers : flusher'[f].pc \in {"send", "pop"} \/ flusher[f].pc \in {"send", "pop"}
        => flusher'[f] = flusher[f]
  BY <1>4, TypeParts
<1>8. HoldsFront' /\ SentIsPopping'
  BY <1>1, <1>7 DEF HoldsFront, SentIsPopping
<1>9. FlushExclusive'
  BY <1>4, TypeParts DEF FlushExclusive
<1>10. NoRepeat'
  BY <1>1 DEF NoRepeat
<1> QED
  BY <1>5, <1>6, <1>8, <1>9, <1>10

LEMMA PushInv ==
  ASSUME CacheInv, NEW p \in Producers, Push(p)
  PROVE  CacheInv'
<1> USE DEF CacheInv
<1> DEFINE rec == producer[p].rec
<1>1. UNCHANGED <<clock, flushing, flusher, connected, inflight, given, restarts>>
      /\ producer' = [producer EXCEPT ![p] = IdleProducer]
  BY DEF Push
<1>2. /\ producer' \in [Producers -> ProducerStates]
      /\ producer'[p].pc = "idle"
      /\ \A r \in Producers : r # p => producer'[r] = producer[r]
  BY <1>1, ProducerEnds
<1>3. /\ rec \in Records /\ rec.id \in Ids
      /\ rec.id \notin IdsOf(queue) /\ rec.id \notin IdsOf(file)
      /\ given[rec.id] = "no"
  BY ActiveProducer DEF Push, OwnRecord
<1>4. FlushExclusive' /\ NoRepeat'
  BY <1>1 DEF FlushExclusive, NoRepeat
<1>5. CASE UNCHANGED <<queue, file>>
  <2>1. TypeOK'
    BY <1>1, <1>2, <1>5, TypeParts
  <2>2. OwnRecord'
    BY <1>1, <1>2, <1>5, SameCache DEF OwnRecord
  <2> QED
    BY <1>1, <1>4, <1>5, <2>1, <2>2 DEF HoldsFront, SentIsPopping
<1>6. CASE queue' = Append(queue, rec) /\ Persist(queue')
  <2>1. /\ queue' \in Seq(Records) /\ queue' # <<>>
        /\ DOMAIN queue = 1..Len(queue) /\ DOMAIN queue' = 1..(Len(queue) + 1)
        /\ Len(queue) \in Nat
        /\ \A i \in 1..Len(queue) : queue'[i] = queue[i]
        /\ queue'[Len(queue) + 1] = rec
    BY <1>3, <1>6, SeqIndex, Appended, TypeParts
  <2>2. Distinct(queue') /\ IdsOf(queue') \subseteq IdsOf(queue) \cup {rec.id}
    <3>1. queue \in Seq(Records) /\ Distinct(queue)
      BY TypeParts
    <3> HIDE DEF rec
    <3> QED
      BY <1>3, <1>6, <3>1, AppendedIds
  <2>3. /\ file' \in Seq(Records) /\ Distinct(file')
        /\ IdsOf(file') \subseteq IdsOf(file) \cup IdsOf(queue) \cup {rec.id}
    BY <1>6, <2>1, <2>2, PersistedIds, TypeParts
  <2>4. TypeOK'
    BY <1>1, <1>2, <2>1, <2>2, <2>3, TypeParts
  <2>5. OwnRecord'
    <3>1. ASSUME NEW r \in Producers, producer'[r].pc # "idle"
          PROVE  /\ r # p /\ producer'[r] = producer[r]
                 /\ producer[r].rec.id # rec.id
      BY <1>2, <3>1 DEF OwnRecord, Push
    <3>2. IdsOf(queue)' = IdsOf(queue') /\ IdsOf(file)' = IdsOf(file')
      BY DEF IdsOf
    <3> QED
      BY <1>1, <2>2, <2>3, <3>1, <3>2 DEF OwnRecord
  <2>6. HoldsFront'
    BY <1>1, <2>1, QueueIds DEF HoldsFront
  <2>7. SentIsPopping'
    <3> SUFFICES ASSUME NEW i \in DOMAIN queue', given[queue'[i].id] = "now"
                 PROVE  i = 1 /\ \E f \in Flushers : flusher[f].pc = "pop"
      BY <1>1 DEF SentIsPopping
    <3>1. i # Len(queue) + 1
      BY <1>3, <2>1
    <3>2. i \in DOMAIN queue /\ queue'[i] = queue[i]
      BY <2>1, <3>1
    <3> QED
      BY <3>2 DEF SentIsPopping
  <2> QED
    BY <1>4, <2>4, <2>5, <2>6, <2>7
<1> QED
  BY <1>5, <1>6 DEF Push, Pushed

LEMMA FlushFrontInv ==
  ASSUME CacheInv, NEW f \in Flushers, FlushFront(f)
  PROVE  CacheInv'
<1> USE DEF CacheInv
<1> DEFINE next == IF queue = <<>> THEN [pc |-> "end", rec |-> None]
                                    ELSE [pc |-> "send", rec |-> queue[1]]
<1>1. UNCHANGED <<clock, producer, queue, file, flushing, connected, inflight, given, restarts>>
      /\ flusher[f].pc = "front"
  BY DEF FlushFront
<1>2. flusher' = [flusher EXCEPT ![f] = next]
  BY SeqIndex, TypeParts DEF FlushFront
<1>3. next \in FlusherStates
  BY SeqIndex, QueueIds, TypeParts DEF FlusherStates
<1>4. /\ flusher' \in [Flushers -> FlusherStates]
      /\ flusher'[f] = next
      /\ \A g \in Flushers : g # f => flusher'[g] = flusher[g]
  BY <1>2, <1>3, FlusherGoesTo
<1>5. next.pc \notin {"idle", "pop"}
  OBVIOUS
<1>6. TypeOK' /\ OwnRecord' /\ NoRepeat'
  BY <1>1, <1>4, SameCache, TypeParts DEF OwnRecord, NoRepeat
<1>7. FlushExclusive'
  BY <1>1, <1>4, <1>5 DEF FlushExclusive
<1>8. HoldsFront' /\ SentIsPopping'
  BY <1>1, <1>4, <1>5 DEF HoldsFront, SentIsPopping
<1> QED
  BY <1>6, <1>7, <1>8

LEMMA FlushSendInv ==
  ASSUME CacheInv, NEW f \in Flushers, FlushSend(f)
  PROVE  CacheInv'
<1> USE DEF CacheInv
<1> DEFINE rec == flusher[f].rec
<1>1. UNCHANGED <<clock, producer, queue, file, flushing, connected, restarts>>
      /\ flusher[f].pc = "send"
  BY DEF FlushSend
<1>2. /\ flusher[f] = [pc |-> "send", rec |-> rec]
      /\ queue # <<>> /\ rec = queue[1] /\ 1 \in DOMAIN queue
      /\ rec \in Records /\ rec.id \in Ids /\ rec.id \in IdsOf(queue)
  BY <1>1, SeqIndex, QueueIds, TypeParts DEF FlusherStates, HoldsFront
<1>3. given[rec.id] \notin {"now", "twice"}
  BY <1>1, <1>2 DEF SentIsPopping, FlushExclusive, NoRepeat
<1>4. CASE SendOnce(rec.id) /\ flusher' = [flusher EXCEPT ![f].pc = "pop"]
  <2>1. /\ flusher' = [flusher EXCEPT ![f] = [pc |-> "pop", rec |-> rec]]
        /\ [pc |-> "pop", rec |-> rec] \in FlusherStates
    <3>1. [flusher[f] EXCEPT !.pc = "pop"] = [pc |-> "pop", rec |-> rec]
      BY <1>2
    <3>2. flusher' = [flusher EXCEPT ![f] = [flusher[f] EXCEPT !.pc = "pop"]]
      BY <1>4
    <3> QED
      BY <1>2, <3>1, <3>2 DEF FlusherStates
  <2>2. /\ flusher' \in [Flushers -> FlusherStates]
        /\ flusher'[f] = [pc |-> "pop", rec |-> rec]
        /\ \A g \in Flushers : g # f => flusher'[g] = flusher[g]
    BY <2>1, FlusherGoesTo
  <2>3. given' = [given EXCEPT ![rec.id] = "now"] /\ inflight' = inflight \cup {rec.id}
    BY <1>2, <1>3, <1>4, TypeParts DEF SendOnce
  <2>4. TypeOK' /\ NoRepeat'
    BY <1>1, <1>2, <2>2, <2>3, TypeParts DEF NoRepeat
  <2>5. OwnRecord'
    <3>1. \A p \in Producers : producer[p].pc # "idle" =>
            given'[producer[p].rec.id] = given[producer[p].rec.id]
      BY <1>2, <2>3, ActiveProducer, TypeParts DEF OwnRecord
    <3> QED
      BY <1>1, <3>1, SameCache DEF OwnRecord
  <2>6. FlushExclusive'
    BY <1>1, <2>2 DEF FlushExclusive
  <2>7. HoldsFront'
    <3>1. given'[queue[1].id] = "now"
      BY <1>2, <2>3, TypeParts
    <3>2. \A g \in Flushers : g # f => flusher'[g].pc = "idle"
      BY <1>1, <2>2 DEF FlushExclusive
    <3> QED
      BY <1>1, <1>2, <2>2, <3>1, <3>2 DEF HoldsFront
  <2>8. SentIsPopping'
    <3>1. ASSUME NEW i \in DOMAIN queue, given'[queue[i].id] = "now"
          PROVE  i = 1
      <4>1. CASE queue[i].id = rec.id
        BY <1>2, <4>1, TypeParts DEF Distinct
      <4>2. CASE queue[i].id # rec.id
        BY <2>3, <3>1, <4>2, QueueIds, TypeParts DEF SentIsPopping
      <4> QED
        BY <4>1, <4>2
    <3> QED
      BY <1>1, <2>2, <3>1 DEF SentIsPopping
  <2> QED
    BY <2>4, <2>5, <2>6, <2>7, <2>8
<1>5. CASE /\ flusher' = [flusher EXCEPT ![f] = [pc |-> "end", rec |-> None]]
           /\ UNCHANGED <<inflight, given>>
  <2>1. [pc |-> "end", rec |-> None] \in FlusherStates
    BY DEF FlusherStates
  <2>2. /\ flusher' \in [Flushers -> FlusherStates]
        /\ flusher'[f] = [pc |-> "end", rec |-> None]
        /\ \A g \in Flushers : g # f => flusher'[g] = flusher[g]
    BY <1>5, <2>1, FlusherGoesTo
  <2>3. TypeOK' /\ OwnRecord' /\ NoRepeat'
    BY <1>1, <1>5, <2>2, SameCache, TypeParts DEF OwnRecord, NoRepeat
  <2>4. FlushExclusive'
    BY <1>1, <2>2 DEF FlushExclusive
  <2>5. HoldsFront' /\ SentIsPopping'
    BY <1>1, <1>5, <2>2 DEF HoldsFront, SentIsPopping
  <2> QED
    BY <2>3, <2>4, <2>5
<1> QED
  BY <1>4, <1>5 DEF FlushSend

LEMMA FlushPopInv ==
  ASSUME CacheInv, NEW f \in Flushers, FlushPop(f)
  PROVE  /\ CacheInv'
         /\ queue # <<>> /\ queue' = Tail(queue) /\ Persist(queue')
         /\ given[queue[1].id] = "now"
<1> USE DEF CacheInv
<1>1. /\ UNCHANGED <<clock, producer, flushing, connected, inflight, given, restarts>>
      /\ flusher[f].pc = "pop"
      /\ flusher' = [flusher EXCEPT ![f] = [pc |-> "front", rec |-> None]]
  BY DEF FlushPop
<1>2. queue # <<>> /\ flusher[f].rec = queue[1] /\ given[queue[1].id] = "now"
      /\ Head(queue) = queue[1] /\ 1 \in DOMAIN queue
  BY <1>1, SeqIndex, QueueIds, TypeParts DEF HoldsFront
<1>3. queue' = Tail(queue) /\ Persist(queue')
  BY <1>2 DEF FlushPop
<1>4. /\ queue' \in Seq(Records)
      /\ DOMAIN queue = 1..Len(queue) /\ DOMAIN queue' = 1..(Len(queue) - 1)
      /\ Len(queue) \in Nat
      /\ \A i \in 1..(Len(queue) - 1) : queue'[i] = queue[i + 1]
  BY <1>2, <1>3, SeqIndex, Tailed, TypeParts
<1>5. Distinct(queue') /\ IdsOf(queue') \subseteq IdsOf(queue)
  BY <1>2, <1>3, TailedIds, TypeParts
<1>6. /\ file' \in Seq(Records) /\ Distinct(file')
      /\ IdsOf(file') \subseteq IdsOf(file) \cup IdsOf(queue)
  BY <1>3, <1>4, <1>5, PersistedIds, TypeParts
<1>7. /\ flusher' \in [Flushers -> FlusherStates]
      /\ flusher'[f] = [pc |-> "front", rec |-> None]
      /\ \A g \in Flushers : g # f => flusher'[g] = flusher[g]
  <2>1. [pc |-> "front", rec |-> None] \in FlusherStates
    BY DEF FlusherStates
  <2> QED
    BY <1>1, <2>1, FlusherGoesTo
<1>8. TypeOK' /\ NoRepeat'
  BY <1>1, <1>4, <1>5, <1>6, <1>7, TypeParts DEF NoRepeat
<1>9. OwnRecord'
  <2>1. IdsOf(queue)' = IdsOf(queue') /\ IdsOf(file)' = IdsOf(file')
    BY DEF IdsOf
  <2> QED
    BY <1>1, <1>5, <1>6, <2>1 DEF OwnRecord
<1>10. FlushExclusive'
  BY <1>1, <1>7 DEF FlushExclusive
<1>11. HoldsFront'
  BY <1>1, <1>7 DEF HoldsFront, FlushExclusive
<1>12. SentIsPopping'
  <2>1. ASSUME NEW i \in DOMAIN queue', given[queue'[i].id] = "now"
        PROVE  FALSE
    <3>1. i + 1 \in DOMAIN queue /\ i + 1 # 1 /\ queue'[i] = queue[i + 1]
      BY <1>4
    <3> QED
      BY <2>1, <3>1 DEF SentIsPopping
  <2> QED
    BY <1>1, <2>1 DEF SentIsPopping
<1> QED
  BY <1>2, <1>3, <1>8, <1>9, <1>10, <1>11, <1>12

LEMMA FlushEndInv ==
  ASSUME CacheInv, NEW f \in Flushers, FlushEnd(f)
  PROVE  CacheInv'
<1> USE DEF CacheInv
<1>1. /\ UNCHANGED <<clock, producer, queue, file, connected, inflight, given, restarts>>
      /\ flusher[f].pc = "end" /\ flushing' = FALSE
      /\ flusher' = [flusher EXCEPT ![f] = IdleFlusher]
  BY DEF FlushEnd
<1>2. /\ flusher' \in [Flushers -> FlusherStates]
      /\ flusher'[f].pc = "idle"
      /\ \A g \in Flushers : g # f => flusher'[g] = flusher[g]
  <2>1. IdleFlusher \in FlusherStates /\ IdleFlusher.pc = "idle"
    BY DEF FlusherStates, IdleFlusher
  <2> QED
    BY <1>1, <2>1, FlusherGoesTo
<1>3. TypeOK' /\ OwnRecord' /\ NoRepeat'
  BY <1>1, <1>2, SameCache, TypeParts DEF OwnRecord, NoRepeat
<1>4. FlushExclusive'
  BY <1>1, <1>2 DEF FlushExclusive
<1>5. HoldsFront' /\ SentIsPopping'
  BY <1>1, <1>2 DEF HoldsFront, SentIsPopping
<1> QED
  BY <1>3, <1>4, <1>5

LEMMA CacheStep == CacheInv /\ [Next]_vars => CacheInv'
<1> SUFFICES ASSUME CacheInv, [Next]_vars PROVE CacheInv'
  OBVIOUS
<1>1. CASE Reconnect \/ ConnLost \/ (\E i \in Ids : Deliver(i)) \/ Tick
  BY <1>1, WorldInv
<1>2. CASE Restart
  BY <1>2, RestartInv
<1>3. ASSUME NEW p \in Producers, PublishStep(p)
      PROVE  CacheInv'
  BY <1>3, StampInv, TrySendInv, AfterSentInv, PushInv DEF PublishStep
<1>4. ASSUME NEW f \in Flushers, FlushStep(f)
      PROVE  CacheInv'
  BY <1>4, FlushFrontInv, FlushSendInv, FlushPopInv, FlushEndInv DEF FlushStep
<1>5. CASE UNCHANGED vars
  BY <1>5 DEF CacheInv, TypeOK, FlushExclusive, OwnRecord, HoldsFront, SentIsPopping,
              NoRepeat, IdsOf, vars
<1> QED
  BY <1>1, <1>2, <1>3, <1>4, <1>5 DEF Next

LEMMA CacheInvariant == Spec => []CacheInv
BY InitInv, CacheStep, PTL DEF Spec

\* The state of the cache and of its users has its type; in particular no record
\* is in the queue or in the file twice.
THEOREM TypeCorrect == Spec => []TypeOK
<1>1. CacheInv => TypeOK
  BY DEF CacheInv
<1> QED
  BY <1>1, CacheInvariant, PTL

\* compare_exchange on m_flushing admits one flush at a time, and m_flushing is
\* set exactly while it runs, whatever overlaps, fails or restarts.
THEOREM FlushesAlone == Spec => []FlushExclusive
<1>1. CacheInv => FlushExclusive
  BY DEF CacheInv
<1> QED
  BY <1>1, CacheInvariant, PTL

\* Within one life of the process no record is handed to the client library
\* twice: with overlapping cycles, a clock that is set back, refused messages
\* and a file that cannot be written.
THEOREM NothingTwice == Spec => []NoRepeat
<1>1. CacheInv => NoRepeat
  BY DEF CacheInv
<1> QED
  BY <1>1, CacheInvariant, PTL

-----------------------------------------------------------------------------
(* Nothing cached is lost *)

\* A file that is written as a whole or not at all.
LEMMA FilePersisted ==
  ASSUME ~ ShortWrite, NEW q, Persist(q)
  PROVE  file' = q \/ file' = file
BY DEF Persist

\* A new record changes the cache only by joining it.
LEMMA PushIds ==
  ASSUME CacheInv, ~ ShortWrite, NEW p \in Producers, Push(p)
  PROVE  /\ UNCHANGED given
         /\ IdsOf(queue) \subseteq IdsOf(queue')
         /\ IdsOf(file') = IdsOf(file) \/ IdsOf(file') = IdsOf(queue')
<1> DEFINE rec == producer[p].rec
<1>1. CASE UNCHANGED <<queue, file>>
  BY <1>1 DEF Push
<1>2. CASE queue' = Append(queue, rec) /\ Persist(queue')
  <2>1. queue \in Seq(Records) /\ Distinct(queue) /\ rec \in Records /\ rec.id \notin IdsOf(queue)
    BY ActiveProducer, TypeParts DEF CacheInv, Push, OwnRecord
  <2>2. IdsOf(queue) \subseteq IdsOf(queue')
    <3> HIDE DEF rec
    <3> QED
      BY <1>2, <2>1, AppendedIds
  <2> QED
    BY <1>2, <2>2, FilePersisted DEF Push
<1> QED
  BY <1>1, <1>2 DEF Push, Pushed

\* A flush takes out of the cache only what it has handed over.
LEMMA PopIds ==
  ASSUME CacheInv, ~ ShortWrite, NEW f \in Flushers, FlushPop(f)
  PROVE  /\ UNCHANGED given
         /\ \A i \in IdsOf(queue) : i \in IdsOf(queue') \/ Handed(i)
         /\ IdsOf(file') = IdsOf(file) \/ IdsOf(file') = IdsOf(queue')
<1>1. queue # <<>> /\ queue' = Tail(queue) /\ Persist(queue') /\ given[queue[1].id] = "now"
  BY FlushPopInv
<1>2. queue \in Seq(Records) /\ Distinct(queue)
  BY TypeParts DEF CacheInv
<1>3. IdsOf(queue) \subseteq IdsOf(queue') \cup {queue[1].id}
  BY <1>1, <1>2, TailedIds
<1> QED
  BY <1>1, <1>3, FilePersisted DEF FlushPop, Handed

\* An id that is used again is neither cached nor handed over; nothing else is
\* forgotten.
LEMMA HandedStays ==
  ASSUME CacheInv, [Next]_vars, NEW i \in IdsOf(queue) \cup IdsOf(file), i \in Ids, Handed(i)
  PROVE  Handed(i)'
<1> USE DEF CacheInv
<1>1. ASSUME NEW n \in Ids, n # i, given' = [given EXCEPT ![n] = "no"]
      PROVE  given'[i] # "no"
  BY <1>1, TypeParts DEF Handed
<1>2. ASSUME NEW n \in Ids, SendOnce(n)
      PROVE  given'[i] # "no"
  BY <1>2, TypeParts DEF Handed, SendOnce
<1>3. ASSUME NEW p \in Producers, PublishStep(p)
      PROVE  given'[i] # "no"
  <2>1. CASE Stamp(p)
    BY <2>1, <1>1 DEF Stamp, InUse
  <2>2. CASE TrySend(p)
    BY <2>2, <1>2, ActiveProducer DEF TrySend, Handed
  <2> QED
    BY <1>3, <2>1, <2>2 DEF PublishStep, LookForBacklog, Trigger, Push, Handed
<1>4. ASSUME NEW f \in Flushers, FlushStep(f)
      PROVE  given'[i] # "no"
  <2>1. CASE FlushSend(f)
    <3>1. flusher[f].rec.id \in Ids
      BY <2>1, TypeParts DEF FlushSend, FlusherStates, Records
    <3> QED
      BY <2>1, <3>1, <1>2 DEF FlushSend, Handed
  <2> QED
    BY <1>4, <2>1 DEF FlushStep, FlushFront, FlushPop, FlushEnd, Handed
<1>5. CASE Restart
  BY <1>5 DEF Restart, Handed
<1> QED
  BY <1>3, <1>4, <1>5
     DEF Next, Reconnect, ConnLost, Deliver, Tick, vars, Handed

LEMMA FileBehindStep ==
  ASSUME CacheInv, ~ ShortWrite, FileBehind, [Next]_vars
  PROVE  /\ FileBehind'
         /\ \A i \in IdsOf(file) \ IdsOf(file') : Handed(i)
<1>1. IdsOf(queue)' = IdsOf(queue') /\ IdsOf(file)' = IdsOf(file')
  BY DEF IdsOf
<1>2. IdsOf(file) \subseteq Ids
  BY SeqIndex, TypeParts DEF CacheInv, IdsOf, Records
<1>3. \A i \in IdsOf(file) : Handed(i) => Handed(i)'
  BY <1>2, HandedStays
<1>4. CASE UNCHANGED <<queue, file>>
  BY <1>1, <1>3, <1>4 DEF FileBehind
<1>5. CASE queue' = file /\ file' = file
  BY <1>1, <1>5 DEF FileBehind
<1>6. ASSUME NEW p \in Producers, Push(p)
      PROVE  /\ FileBehind'
             /\ \A i \in IdsOf(file) \ IdsOf(file') : Handed(i)
  BY <1>1, <1>6, PushIds DEF FileBehind, Handed
<1>7. ASSUME NEW f \in Flushers, FlushPop(f)
      PROVE  /\ FileBehind'
             /\ \A i \in IdsOf(file) \ IdsOf(file') : Handed(i)
  BY <1>1, <1>7, PopIds DEF FileBehind, Handed
<1> QED
  BY <1>4, <1>5, <1>6, <1>7
     DEF Next, PublishStep, FlushStep, Reconnect, ConnLost, Deliver, Tick, Restart, Stamp,
         TrySend, LookForBacklog, Trigger, FlushFront, FlushSend, FlushEnd, vars

\* With writes that are whole or fail at once, however often they fail: a record
\* leaves the file only after it was handed to the client library, also when the
\* process ends at any point and the clock is set back.
THEOREM CachedIsHanded == ~ ShortWrite /\ Spec => CachedUntilHanded
<1> SUFFICES ASSUME ~ ShortWrite PROVE Spec => CachedUntilHanded
  OBVIOUS
<1>1. Init => FileBehind
  BY DEF Init, FileBehind, IdsOf
<1>2. CacheInv /\ FileBehind /\ [Next]_vars => FileBehind'
  BY FileBehindStep
<1>3. CacheInv /\ FileBehind /\ [Next]_vars
        => [\A i \in IdsOf(file) \ IdsOf(file') : Handed(i)]_vars
  BY FileBehindStep
<1> QED
  BY <1>1, <1>2, <1>3, CacheInvariant, PTL DEF Spec, CachedUntilHanded

-----------------------------------------------------------------------------
(* The order and the span of the cache *)

OneCycle == \A p, r \in Producers : p = r

LEMMA RecordTimes ==
  ASSUME NEW q \in Seq(Records)
  PROVE  /\ \A i \in DOMAIN q : q[i].ts \in Nat
         /\ \A r \in Records : r.ts \in Nat
<1>1. \A r \in Records : r.ts \in Nat
  BY CacheAssumption DEF Records, Clock, CacheAssumption
<1>2. \A i \in DOMAIN q : q[i] \in Records
  BY SeqIndex
<1> QED
  BY <1>1, <1>2

\* A first part of a cache in order is in order, at a later time too.
LEMMA InOrderPart ==
  ASSUME NEW q, NEW s, InOrder(q), DOMAIN s \subseteq DOMAIN q,
         \A i \in DOMAIN s : s[i] = q[i]
  PROVE  InOrder(s)
BY DEF InOrder

LEMMA InOrderTail ==
  ASSUME NEW q \in Seq(Records), q # <<>>, InOrder(q), NEW t, t = Tail(q)
  PROVE  InOrder(t)
<1>1. \A i \in DOMAIN t : i \in Nat /\ i + 1 \in DOMAIN q /\ t[i] = q[i + 1]
  BY SeqIndex, Tailed
<1>2. \A i, j \in DOMAIN t : i <= j => i + 1 <= j + 1
  BY <1>1
<1> QED
  BY <1>1, <1>2 DEF InOrder

LEMMA InOrderAppend ==
  ASSUME NEW q \in Seq(Records), InOrder(q), NEW r \in Records, ~ (q # <<>> /\ r.ts > Head(q).ts + MaxAge),
         r.ts <= clock, \A i \in DOMAIN q : q[i].ts <= r.ts, clock \in Clock,
         NEW a, a = Append(q, r)
  PROVE  InOrder(a)
<1> DEFINE n == Len(q) + 1
<1>1. /\ n \in Nat /\ DOMAIN q = 1..(n - 1) /\ DOMAIN a = 1..n
      /\ \A i \in DOMAIN q : a[i] = q[i]
      /\ a[n] = r
  BY SeqIndex, Appended
<1>2. MaxAge \in Nat /\ r.ts \in Nat /\ \A i \in DOMAIN q : q[i].ts \in Nat
  BY RecordTimes, CacheAssumption DEF CacheAssumption
<1>3. \A i \in DOMAIN q : r.ts <= q[i].ts + MaxAge
  <2> SUFFICES ASSUME NEW i \in DOMAIN q PROVE r.ts <= q[i].ts + MaxAge
    OBVIOUS
  <2>1. q # <<>> /\ 1 \in DOMAIN q /\ 1 <= i /\ Head(q) = q[1]
    BY <1>1, SeqIndex
  <2>2. q[1].ts <= q[i].ts
    BY <2>1 DEF InOrder
  <2>3. Head(q).ts \in Nat /\ Head(q).ts <= q[i].ts /\ q[i].ts \in Nat
    BY <2>1, <2>2, <1>2
  <2>4. r.ts <= Head(q).ts + MaxAge
    BY <2>1, <2>3, <1>2
  <2> QED
    BY <2>3, <2>4, <1>2
<1>4. \A i \in DOMAIN a : i = n \/ i \in DOMAIN q
  BY <1>1
<1>5. ASSUME NEW i \in DOMAIN a, NEW j \in DOMAIN a, i <= j
      PROVE  a[i].ts <= a[j].ts /\ a[j].ts <= a[i].ts + MaxAge
  <2>1. CASE i \in DOMAIN q /\ j \in DOMAIN q
    BY <1>1, <1>5, <2>1 DEF InOrder
  <2>2. CASE i \in DOMAIN q /\ j = n
    BY <1>1, <1>3, <2>2
  <2>3. CASE i = n
    <3>1. j = n
      BY <1>1, <1>5, <2>3
    <3> QED
      BY <1>1, <1>2, <2>3, <3>1
  <2> QED
    BY <1>4, <2>1, <2>2, <2>3
<1>6. \A i \in DOMAIN a : a[i].ts <= clock
  BY <1>1, <1>4 DEF InOrder
<1> QED
  BY <1>5, <1>6 DEF InOrder

LEMMA OrderStep ==
  ASSUME CacheInv, OrderInv, ~ ClockSetBack, OneCycle, [Next]_vars
  PROVE  OrderInv'
<1> USE DEF CacheInv
<1>1. /\ queue \in Seq(Records) /\ file \in Seq(Records) /\ clock \in Nat
      /\ \A p \in Producers : producer[p].pc # "idle" => producer[p].rec.ts \in Nat
  BY TypeParts, ActiveProducer, CacheAssumption DEF CacheAssumption, Clock
<1>2. CASE Tick
  <2>1. clock' = clock + 1 /\ UNCHANGED <<producer, queue, file>>
    BY <1>2 DEF Tick
  <2>2. ASSUME NEW q \in {queue, file}
        PROVE  \A i \in DOMAIN q : q[i].ts <= clock'
    BY <1>1, <2>1, RecordTimes DEF OrderInv, InOrder
  <2>3. \A p \in Producers : producer[p].pc # "idle" => producer[p].rec.ts <= clock'
    BY <1>1, <2>1 DEF OrderInv
  <2> QED
    BY <2>1, <2>2, <2>3 DEF OrderInv, InOrder
<1>3. CASE Restart
  BY <1>3 DEF Restart, OrderInv, InOrder, IdleProducer
<1>4. ASSUME NEW p \in Producers, Stamp(p)
      PROVE  OrderInv'
  <2>1. UNCHANGED <<clock, queue, file>>
        /\ \E i \in Ids : producer' = [producer EXCEPT ![p] = [pc |-> "try", rec |-> [id |-> i, ts |-> clock]]]
    BY <1>4 DEF Stamp
  <2>2. \A r \in Producers : r = p /\ producer'[r].rec.ts = clock
    BY <2>1, TypeParts DEF OneCycle
  <2> QED
    BY <1>1, <2>1, <2>2 DEF OrderInv, InOrder
<1>5. ASSUME NEW p \in Producers, TrySend(p) \/ LookForBacklog(p) \/ Trigger(p)
      PROVE  OrderInv'
  <2>1. UNCHANGED <<clock, queue, file>> /\ producer[p].pc # "idle"
    BY <1>5 DEF TrySend, LookForBacklog, Trigger
  <2>2. \/ \E c \in {"sent", "push", "trigger"} :
             producer' = [producer EXCEPT ![p] = [producer[p] EXCEPT !.pc = c]]
        \/ producer' = [producer EXCEPT ![p] = IdleProducer]
    BY <1>5 DEF TrySend, LookForBacklog, Trigger
  <2>3. \A r \in Producers : producer'[r].pc # "idle" =>
          producer[r].pc # "idle" /\ producer'[r].rec = producer[r].rec
    BY <2>1, <2>2, ProducerGoesTo, ProducerEnds
  <2> QED
    BY <2>1, <2>3 DEF OrderInv, InOrder
<1>6. ASSUME NEW p \in Producers, Push(p)
      PROVE  OrderInv'
  <2> DEFINE rec == producer[p].rec
  <2>1. /\ clock' = clock
        /\ \A r \in Producers : producer'[r].pc = "idle"
    BY <1>6, ProducerEnds DEF Push, OneCycle
  <2>2. CASE UNCHANGED <<queue, file>>
    BY <2>1, <2>2 DEF OrderInv, InOrder
  <2>3. CASE /\ queue' = Append(queue, rec) /\ Persist(queue')
             /\ ~ (queue # <<>> /\ rec.ts > Head(queue).ts + MaxAge)
    <3>1. /\ rec \in Records /\ rec.ts <= clock /\ clock \in Clock
          /\ \A i \in DOMAIN queue : queue[i].ts <= rec.ts
      BY <1>6, ActiveProducer, TypeParts DEF Push, OrderInv
    <3>2. InOrder(queue') /\ queue' \in Seq(Records)
      <4> HIDE DEF rec
      <4> QED
        BY <1>1, <2>3, <3>1, InOrderAppend, Appended DEF OrderInv
    <3>3. InOrder(file')
      BY <2>3, <3>2, Persisted, InOrderPart DEF OrderInv
    <3> QED
      BY <2>1, <3>2, <3>3 DEF OrderInv, InOrder
  <2> QED
    BY <1>6, <2>2, <2>3 DEF Push, Pushed, TooOld
<1>7. ASSUME NEW f \in Flushers, FlushPop(f)
      PROVE  OrderInv'
  <2>1. queue # <<>> /\ queue' = Tail(queue) /\ Persist(queue')
    BY <1>7, FlushPopInv
  <2>2. clock' = clock /\ UNCHANGED producer
    BY <1>7 DEF FlushPop
  <2>3. InOrder(queue') /\ queue' \in Seq(Records)
    BY <1>1, <2>1, InOrderTail, Tailed DEF OrderInv
  <2>4. InOrder(file')
    BY <2>1, <2>3, Persisted, InOrderPart DEF OrderInv
  <2>5. \A p \in Producers : producer[p].pc # "idle" =>
          \A i \in DOMAIN queue' : queue'[i].ts <= producer[p].rec.ts
    <3>1. \A i \in DOMAIN queue' : i + 1 \in DOMAIN queue /\ queue'[i] = queue[i + 1]
      BY <1>1, <2>1, SeqIndex, Tailed
    <3> QED
      BY <3>1 DEF OrderInv
  <2> QED
    BY <2>2, <2>3, <2>4, <2>5 DEF OrderInv, InOrder
<1>8. CASE UNCHANGED <<clock, producer, queue, file>>
  BY <1>8 DEF OrderInv, InOrder
<1> QED
  BY <1>2, <1>3, <1>4, <1>5, <1>6, <1>7, <1>8
     DEF Next, PublishStep, FlushStep, Reconnect, ConnLost, Deliver,
         FlushFront, FlushSend, FlushEnd, vars

LEMMA OrderInvariant == ~ ClockSetBack /\ OneCycle /\ Spec => []OrderInv
<1> SUFFICES ASSUME ~ ClockSetBack, OneCycle PROVE Spec => []OrderInv
  OBVIOUS
<1>1. Init => OrderInv
  BY DEF Init, OrderInv, InOrder, IdleProducer
<1>2. CacheInv /\ OrderInv /\ [Next]_vars => OrderInv'
  BY OrderStep
<1> QED
  BY <1>1, <1>2, CacheInvariant, PTL DEF Spec

\* With one cycle at a time and a clock that is not set back the cache spans at
\* most m_maxAgeMs, also when it was loaded from a file whose last write failed
\* or was cut short.
THEOREM SpansMaxAge == ~ ClockSetBack /\ OneCycle /\ Spec => []SpanBounded
<1>1. CacheInv /\ OrderInv => SpanBounded
  <2> SUFFICES ASSUME CacheInv, OrderInv, NEW i \in DOMAIN queue, NEW j \in DOMAIN queue
               PROVE  queue[j].ts <= queue[i].ts + MaxAge
    BY DEF SpanBounded
  <2>1. queue \in Seq(Records)
    BY TypeParts DEF CacheInv
  <2>2. i \in Nat /\ j \in Nat /\ queue[i].ts \in Nat /\ queue[j].ts \in Nat /\ MaxAge \in Nat
    BY <2>1, SeqIndex, RecordTimes, CacheAssumption DEF CacheAssumption
  <2>3. CASE i <= j
    BY <2>3 DEF OrderInv, InOrder
  <2>4. CASE j <= i
    <3>1. queue[j].ts <= queue[i].ts
      BY <2>4 DEF OrderInv, InOrder
    <3> QED
      BY <2>2, <3>1
  <2> QED
    BY <2>2, <2>3, <2>4
<1> QED
  BY <1>1, CacheInvariant, OrderInvariant, PTL

\* Under the same conditions what a flush hands over is the oldest record of the
\* cache.
THEOREM FlushesOldest == ~ ClockSetBack /\ OneCycle /\ Spec => OldestFirst
<1>1. CacheInv /\ OrderInv =>
        \A f \in Flushers : flusher[f].pc = "send" /\ flusher'[f].pc = "pop" =>
          \A i \in DOMAIN queue : flusher[f].rec.ts <= queue[i].ts
  <2> SUFFICES ASSUME CacheInv, OrderInv, NEW f \in Flushers, flusher[f].pc = "send",
                      NEW i \in DOMAIN queue
               PROVE  flusher[f].rec.ts <= queue[i].ts
    OBVIOUS
  <2>1. queue \in Seq(Records)
    BY TypeParts DEF CacheInv
  <2>2. flusher[f].rec = queue[1] /\ 1 \in DOMAIN queue /\ 1 <= i
    BY <2>1, SeqIndex DEF CacheInv, HoldsFront
  <2> QED
    BY <2>2 DEF OrderInv, InOrder
<1>2. CacheInv /\ OrderInv =>
        [\A f \in Flushers : flusher[f].pc = "send" /\ flusher'[f].pc = "pop" =>
           \A i \in DOMAIN queue : flusher[f].rec.ts <= queue[i].ts]_vars
  BY <1>1
<1> QED
  BY <1>2, CacheInvariant, OrderInvariant, PTL DEF Spec, OldestFirst

-----------------------------------------------------------------------------
(* The cache as a store that forwards *)

WritesWork == ~ ShortWrite /\ ~ PersistFails

\* Whoever hands a record over that is not in the queue leaves its records as
\* they are.
LEMMA QueueStaysNew ==
  ASSUME TypeOK, ExactInv, UNCHANGED <<queue, file>>, NEW i \in Ids, i \notin IdsOf(queue),
         NEW g, given' = [given EXCEPT ![i] = g]
  PROVE  ExactInv'
<1>1. \A n \in DOMAIN queue : given'[queue[n].id] = given[queue[n].id]
  BY QueueIds, TypeParts
<1> QED
  BY <1>1 DEF ExactInv, Handed

LEMMA ExactStep ==
  ASSUME CacheInv, ExactInv, WritesWork, [Next]_vars
  PROVE  ExactInv'
<1> USE DEF CacheInv
<1>1. queue \in Seq(Records)
  BY TypeParts
<1>2. ASSUME NEW p \in Producers, Stamp(p)
      PROVE  ExactInv'
  BY <1>2, QueueStaysNew DEF Stamp, InUse
<1>3. ASSUME NEW p \in Producers, TrySend(p)
      PROVE  ExactInv'
  <2>1. /\ producer[p].rec.id \in Ids /\ producer[p].rec.id \notin IdsOf(queue)
        /\ UNCHANGED <<queue, file>>
    BY <1>3, ActiveProducer DEF TrySend, OwnRecord
  <2>2. CASE SendOnce(producer[p].rec.id)
    BY <2>1, <2>2, QueueStaysNew DEF SendOnce
  <2>3. CASE UNCHANGED given
    BY <2>1, <2>3 DEF ExactInv, Handed
  <2> QED
    BY <1>3, <2>2, <2>3 DEF TrySend
<1>4. ASSUME NEW p \in Producers, Push(p)
      PROVE  ExactInv'
  <2> DEFINE rec == producer[p].rec
  <2>1. UNCHANGED given /\ rec \in Records /\ given[rec.id] = "no"
    BY <1>4, ActiveProducer DEF Push, OwnRecord
  <2>2. CASE UNCHANGED <<queue, file>>
    BY <2>1, <2>2 DEF ExactInv, Handed
  <2>3. CASE queue' = Append(queue, rec) /\ file' = queue'
    <3>1. \A i \in DOMAIN queue' : \/ i \in DOMAIN queue /\ queue'[i] = queue[i]
                                   \/ queue'[i] = rec
      <4> HIDE DEF rec
      <4> QED
        BY <1>1, <2>1, <2>3, SeqIndex, Appended
    <3> QED
      BY <2>1, <2>3, <3>1 DEF ExactInv, Handed
  <2> QED
    BY <1>4, <2>2, <2>3 DEF Push, Pushed, Persist, WritesWork
<1>5. ASSUME NEW f \in Flushers, FlushSend(f)
      PROVE  ExactInv'
  <2>1. /\ UNCHANGED <<queue, file>> /\ flusher[f].rec = queue[1]
        /\ 1 \in DOMAIN queue
    BY <1>5, QueueIds DEF FlushSend, HoldsFront
  <2>2. \A i \in DOMAIN queue : i > 1 => queue[i].id # queue[1].id
    BY <1>1, <2>1, SeqIndex, TypeParts DEF Distinct
  <2>3. ASSUME NEW i \in DOMAIN queue, i > 1
        PROVE  given'[queue[i].id] = given[queue[i].id]
    BY <1>5, <2>1, <2>2, <2>3, QueueIds, TypeParts DEF FlushSend, SendOnce
  <2> QED
    BY <2>1, <2>3 DEF ExactInv, Handed
<1>6. ASSUME NEW f \in Flushers, FlushPop(f)
      PROVE  ExactInv'
  <2>1. queue # <<>> /\ queue' = Tail(queue) /\ file' = queue' /\ UNCHANGED given
    BY <1>6, FlushPopInv DEF Persist, WritesWork, FlushPop
  <2>2. \A i \in DOMAIN queue' : i + 1 \in DOMAIN queue /\ i + 1 > 1 /\ queue'[i] = queue[i + 1]
    BY <1>1, <2>1, SeqIndex, Tailed
  <2> QED
    BY <2>1, <2>2 DEF ExactInv, Handed
<1>7. CASE Restart
  <2>1. file' = file /\ queue' = queue
    BY <1>7 DEF Restart, ExactInv
  <2>2. \A i \in Ids : given[i] = "no" => given'[i] = "no"
    BY <1>7 DEF Restart, Handed
  <2> QED
    BY <2>1, <2>2, QueueIds DEF ExactInv, Handed
<1>8. CASE UNCHANGED <<queue, file, given>>
  BY <1>8 DEF ExactInv, Handed
<1> QED
  BY <1>2, <1>3, <1>4, <1>5, <1>6, <1>7, <1>8
     DEF Next, PublishStep, FlushStep, Reconnect, ConnLost, Deliver, Tick,
         LookForBacklog, Trigger, FlushFront, FlushEnd, vars

LEMMA ExactInvariant == WritesWork /\ Spec => []ExactInv
<1> SUFFICES ASSUME WritesWork PROVE Spec => []ExactInv
  OBVIOUS
<1>1. Init => ExactInv
  BY DEF Init, ExactInv
<1>2. CacheInv /\ ExactInv /\ [Next]_vars => ExactInv'
  BY ExactStep
<1> QED
  BY <1>1, <1>2, CacheInvariant, PTL DEF Spec

\* When no write fails a restart repeats at most one record: of the queue and of
\* the file only the oldest can have been handed over already.
THEOREM RepeatsOne == WritesWork /\ Spec => []OnlyFrontHanded
<1>1. ExactInv => OnlyFrontHanded
  BY DEF ExactInv, OnlyFrontHanded
<1> QED
  BY <1>1, ExactInvariant, PTL

\* The ids of a sequence of records.
IdSeq(q) == [n \in DOMAIN q |-> q[n].id]

LEMMA IdSeqType ==
  ASSUME NEW q \in Seq(Records)
  PROVE  /\ IdSeq(q) \in Seq(Ids)
         /\ Len(IdSeq(q)) = Len(q)
         /\ \A n \in 1..Len(q) : IdSeq(q)[n] = q[n].id
         /\ IdSeq(q) = <<>> <=> q = <<>>
<1>1. Len(q) \in Nat /\ DOMAIN q = 1..Len(q) /\ \A n \in 1..Len(q) : q[n].id \in Ids
  BY SeqIndex DEF Records
<1>2. IdSeq(q) = [n \in 1..Len(q) |-> q[n].id]
  BY <1>1 DEF IdSeq
<1>3. IdSeq(q) \in Seq(Ids) /\ Len(IdSeq(q)) = Len(q)
  BY <1>1, <1>2
<1>4. IdSeq(q) = <<>> <=> q = <<>>
  BY <1>1, <1>3
<1> QED
  BY <1>2, <1>3, <1>4

\* Sequences with the same elements are equal.
LEMMA SameSeq ==
  ASSUME NEW s \in Seq(Ids), NEW t \in Seq(Ids), Len(s) = Len(t),
         \A n \in 1..Len(s) : s[n] = t[n]
  PROVE  s = t
OBVIOUS

LEMMA AppendedId ==
  ASSUME NEW s \in Seq(Ids), NEW i \in Ids
  PROVE  /\ Append(s, i) \in Seq(Ids) /\ Append(s, i) # <<>>
         /\ Len(s) \in Nat /\ Len(Append(s, i)) = Len(s) + 1
         /\ \A n \in 1..Len(s) : Append(s, i)[n] = s[n]
         /\ Append(s, i)[Len(s) + 1] = i
OBVIOUS

LEMMA IdSeqAppend ==
  ASSUME NEW q \in Seq(Records), NEW r \in Records
  PROVE  IdSeq(Append(q, r)) = Append(IdSeq(q), r.id)
<1> DEFINE a == Append(q, r)
<1>1. /\ a \in Seq(Records) /\ Len(q) \in Nat /\ Len(a) = Len(q) + 1
      /\ \A n \in 1..Len(q) : a[n] = q[n]
      /\ a[Len(q) + 1] = r
  OBVIOUS
<1>2. r.id \in Ids
  BY DEF Records
<1>3. /\ Append(IdSeq(q), r.id) \in Seq(Ids)
      /\ Len(Append(IdSeq(q), r.id)) = Len(q) + 1
      /\ \A n \in 1..Len(q) : Append(IdSeq(q), r.id)[n] = q[n].id
      /\ Append(IdSeq(q), r.id)[Len(q) + 1] = r.id
  BY <1>2, IdSeqType, AppendedId
<1>4. IdSeq(a) \in Seq(Ids) /\ Len(IdSeq(a)) = Len(q) + 1
  BY <1>1, IdSeqType
<1>5. ASSUME NEW n \in 1..(Len(q) + 1)
      PROVE  IdSeq(a)[n] = Append(IdSeq(q), r.id)[n]
  <2>1. IdSeq(a)[n] = a[n].id
    BY <1>1, IdSeqType
  <2>2. CASE n \in 1..Len(q)
    BY <1>1, <1>3, <2>1, <2>2
  <2>3. CASE n = Len(q) + 1
    BY <1>1, <1>3, <2>1, <2>3
  <2>4. n \in 1..Len(q) \/ n = Len(q) + 1
    OBVIOUS
  <2> QED
    BY <2>2, <2>3, <2>4
<1> QED
  BY <1>3, <1>4, <1>5, SameSeq

LEMMA IdSeqTail ==
  ASSUME NEW q \in Seq(Records), q # <<>>
  PROVE  IdSeq(Tail(q)) = Tail(IdSeq(q))
<1> DEFINE t == Tail(q)
<1>1. /\ t \in Seq(Records) /\ Len(q) \in Nat /\ Len(q) >= 1 /\ Len(t) = Len(q) - 1
      /\ \A n \in 1..(Len(q) - 1) : t[n] = q[n + 1]
  OBVIOUS
<1>2. IdSeq(q) \in Seq(Ids) /\ IdSeq(q) # <<>> /\ Len(IdSeq(q)) = Len(q)
  BY IdSeqType
<1>3. /\ Tail(IdSeq(q)) \in Seq(Ids) /\ Len(Tail(IdSeq(q))) = Len(q) - 1
      /\ \A n \in 1..(Len(q) - 1) : Tail(IdSeq(q))[n] = IdSeq(q)[n + 1]
  BY <1>1, <1>2
<1>4. IdSeq(t) \in Seq(Ids) /\ Len(IdSeq(t)) = Len(q) - 1
  BY <1>1, IdSeqType
<1>5. ASSUME NEW n \in 1..(Len(q) - 1)
      PROVE  IdSeq(t)[n] = Tail(IdSeq(q))[n]
  <2>1. IdSeq(t)[n] = t[n].id
    BY <1>1, IdSeqType
  <2>2. IdSeq(q)[n + 1] = q[n + 1].id
    BY <1>1, IdSeqType
  <2> QED
    BY <1>1, <1>3, <2>1, <2>2
<1> QED
  BY <1>3, <1>4, <1>5, SameSeq

LEMMA TailAppend ==
  ASSUME NEW s \in Seq(Ids), s # <<>>, NEW i \in Ids
  PROVE  Tail(Append(s, i)) = Append(Tail(s), i)
<1>1. /\ Len(s) \in Nat /\ Len(s) >= 1
      /\ Append(s, i) \in Seq(Ids) /\ Append(s, i) # <<>> /\ Len(Append(s, i)) = Len(s) + 1
      /\ \A n \in 1..Len(s) : Append(s, i)[n] = s[n]
      /\ Append(s, i)[Len(s) + 1] = i
  OBVIOUS
<1>2. /\ Tail(s) \in Seq(Ids) /\ Len(Tail(s)) = Len(s) - 1
      /\ \A n \in 1..(Len(s) - 1) : Tail(s)[n] = s[n + 1]
  BY <1>1
<1>3. /\ Tail(Append(s, i)) \in Seq(Ids) /\ Len(Tail(Append(s, i))) = Len(s)
      /\ \A n \in 1..Len(s) : Tail(Append(s, i))[n] = Append(s, i)[n + 1]
  BY <1>1
<1>4. /\ Append(Tail(s), i) \in Seq(Ids) /\ Len(Append(Tail(s), i)) = Len(s)
      /\ \A n \in 1..(Len(s) - 1) : Append(Tail(s), i)[n] = Tail(s)[n]
      /\ Append(Tail(s), i)[Len(s)] = i
  BY <1>1, <1>2
<1>5. ASSUME NEW n \in 1..Len(s)
      PROVE  Tail(Append(s, i))[n] = Append(Tail(s), i)[n]
  <2>1. CASE n = Len(s)
    BY <1>1, <1>3, <1>4, <2>1
  <2>2. CASE n \in 1..(Len(s) - 1)
    BY <1>1, <1>2, <1>3, <1>4, <2>2
  <2> QED
    BY <1>1, <2>1, <2>2
<1> QED
  BY <1>3, <1>4, <1>5, SameSeq

\* The store: its ids, in a state and in the next.
LEMMA StoreIs ==
  /\ ToForward = IF file # <<>> /\ given[file[1].id] # "no"
                   THEN Tail(IdSeq(file)) ELSE IdSeq(file)
  /\ ToForward' = IF file' # <<>> /\ given'[file'[1].id] # "no"
                    THEN Tail(IdSeq(file')) ELSE IdSeq(file')
BY DEF ToForward, IdSeq, Handed

LEMMA StoreType ==
  ASSUME CacheInv
  PROVE  /\ ToForward \in Seq(Ids)
         /\ \A i : Store!InStore(i) => i \in IdsOf(file)
<1>1. file \in Seq(Records) /\ Len(file) \in Nat /\ DOMAIN file = 1..Len(file)
  BY SeqIndex, TypeParts DEF CacheInv
<1>2. /\ IdSeq(file) \in Seq(Ids) /\ Len(IdSeq(file)) = Len(file)
      /\ \A n \in 1..Len(file) : IdSeq(file)[n] = file[n].id
      /\ IdSeq(file) = <<>> <=> file = <<>>
  BY <1>1, IdSeqType
<1>3. \A n \in 1..Len(file) : file[n].id \in IdsOf(file)
  BY <1>1 DEF IdsOf
<1>4. CASE ToForward = IdSeq(file)
  <2>1. DOMAIN ToForward = 1..Len(file)
    BY <1>1, <1>2, <1>4
  <2> QED
    BY <1>2, <1>3, <1>4, <2>1 DEF Store!InStore
<1>5. CASE file # <<>> /\ ToForward = Tail(IdSeq(file))
  <2>1. /\ ToForward \in Seq(Ids) /\ DOMAIN ToForward = 1..(Len(file) - 1)
        /\ \A n \in 1..(Len(file) - 1) : ToForward[n] = IdSeq(file)[n + 1]
    BY <1>1, <1>2, <1>5
  <2>2. \A n \in 1..(Len(file) - 1) : n + 1 \in 1..Len(file)
    BY <1>1
  <2> QED
    BY <1>2, <1>3, <2>1, <2>2 DEF Store!InStore
<1> QED
  BY <1>4, <1>5, StoreIs

\* Every step of the cache is one of the store or leaves it alone.
LEMMA StoreStep ==
  ASSUME CacheInv, ExactInv, WritesWork, [Next]_vars
  PROVE  [Store!SFNext]_Store!sfVars
<1> USE DEF CacheInv
<1> DEFINE fwd == {i \in Ids : given[i] # "no"}
           fwdNext == {i \in Ids : given'[i] # "no"}
<1>1. {i \in Ids : Handed(i)} = fwd /\ {i \in Ids : Handed(i)}' = fwdNext
  BY DEF Handed
<1>2. queue \in Seq(Records) /\ file = queue /\ IdsOf(file) = IdsOf(queue)
  BY TypeParts DEF ExactInv
<1>3. queue # <<>> => 1 \in DOMAIN queue /\ queue[1].id \in Ids /\ queue[1].id \in IdsOf(queue)
  BY QueueIds
\* A step about a record that is not in the cache leaves the store as it is.
<1>4. ASSUME file' = file,
             NEW i \in Ids, i \notin IdsOf(queue), NEW g, given' = [given EXCEPT ![i] = g]
      PROVE  ToForward' = ToForward /\ ~ Store!InStore(i)
  <2>1. queue # <<>> => given'[queue[1].id] = given[queue[1].id]
    BY <1>3, <1>4, TypeParts
  <2> QED
    BY <1>2, <1>4, <2>1, StoreIs, StoreType
<1>5. ASSUME UNCHANGED <<file, given>>
      PROVE  UNCHANGED Store!sfVars
  BY <1>1, <1>5, StoreIs DEF Store!sfVars
<1>6. ASSUME NEW p \in Producers, Stamp(p)
      PROVE  Store!SFNext
  <2>1. PICK i \in Ids : ~ InUse(i) /\ given' = [given EXCEPT ![i] = "no"]
    BY <1>6 DEF Stamp
  <2>2. i \notin IdsOf(queue) /\ file' = file
    BY <1>6, <2>1 DEF InUse, Stamp
  <2>3. fwdNext = fwd \ {i}
    BY <2>1, TypeParts
  <2>4. Store!Produce(i)
    BY <1>1, <1>4, <2>1, <2>2, <2>3 DEF Store!Produce
  <2> QED
    BY <2>4 DEF Store!SFNext
<1>7. ASSUME NEW p \in Producers, TrySend(p)
      PROVE  [Store!SFNext]_Store!sfVars
  <2> DEFINE i == producer[p].rec.id
  <2>1. /\ i \in Ids /\ i \notin IdsOf(queue) /\ given[i] = "no" /\ file' = file
    BY <1>7, ActiveProducer DEF TrySend, OwnRecord
  <2>2. CASE SendOnce(i)
    <3>1. given' = [given EXCEPT ![i] = "now"]
      BY <2>1, <2>2, TypeParts DEF SendOnce
    <3>2. fwdNext = fwd \cup {i} /\ i \notin fwd
      BY <2>1, <3>1, TypeParts
    <3>3. ToForward' = ToForward /\ ~ Store!InStore(i)
      BY <1>4, <2>1, <3>1
    <3>4. Store!ForwardNew(i)
      BY <1>1, <3>2, <3>3 DEF Store!ForwardNew
    <3> QED
      BY <2>1, <3>4 DEF Store!SFNext
  <2>3. CASE UNCHANGED given
    BY <1>5, <2>1, <2>3
  <2> QED
    BY <1>7, <2>2, <2>3 DEF TrySend
<1>8. ASSUME NEW p \in Producers, Push(p)
      PROVE  [Store!SFNext]_Store!sfVars
  <2> DEFINE rec == producer[p].rec
  <2>1. /\ UNCHANGED given /\ rec \in Records /\ rec.id \in Ids /\ given[rec.id] = "no"
        /\ rec.id \notin IdsOf(queue)
    BY <1>8, ActiveProducer DEF Push, OwnRecord
  <2>2. CASE UNCHANGED <<queue, file>>
    BY <1>5, <2>1, <2>2
  <2>3. CASE file' = Append(queue, rec)
    <3>1. ToForward' = Append(ToForward, rec.id)
      <4>1. IdSeq(file') = Append(IdSeq(file), rec.id)
        BY <1>2, <2>1, <2>3, IdSeqAppend
      <4>2. /\ file' # <<>>
            /\ queue # <<>> => file'[1] = queue[1]
            /\ queue = <<>> => file'[1] = rec
        <5> HIDE DEF rec
        <5>1. /\ file' # <<>> /\ Len(queue) \in Nat /\ file'[Len(queue) + 1] = rec
              /\ \A n \in 1..Len(queue) : file'[n] = queue[n]
          BY <1>2, <2>1, <2>3, SeqIndex, Appended
        <5>2. queue # <<>> => 1 \in 1..Len(queue)
          BY <1>2, SeqIndex
        <5>3. queue = <<>> => Len(queue) + 1 = 1
          BY <1>2
        <5> QED
          BY <5>1, <5>2, <5>3
      <4>3. CASE queue # <<>> /\ given[queue[1].id] # "no"
        <5>1. ToForward = Tail(IdSeq(file)) /\ ToForward' = Tail(Append(IdSeq(file), rec.id))
          BY <1>2, <2>1, <4>1, <4>2, <4>3, StoreIs
        <5>2. IdSeq(file) \in Seq(Ids) /\ IdSeq(file) # <<>>
          BY <1>2, <4>3, IdSeqType
        <5> QED
          BY <2>1, <5>1, <5>2, TailAppend
      <4>4. CASE queue = <<>> \/ given[queue[1].id] = "no"
        BY <1>2, <2>1, <4>1, <4>2, <4>4, StoreIs
      <4> QED
        BY <4>3, <4>4
    <3>2. rec.id \notin fwd /\ ~ Store!InStore(rec.id) /\ fwdNext = fwd
      BY <1>2, <2>1, StoreType
    <3>3. Store!Store(rec.id)
      BY <1>1, <3>1, <3>2 DEF Store!Store
    <3> QED
      BY <2>1, <3>3 DEF Store!SFNext
  <2> QED
    BY <1>8, <2>2, <2>3 DEF Push, Pushed, Persist, WritesWork
<1>9. ASSUME NEW f \in Flushers, FlushSend(f)
      PROVE  [Store!SFNext]_Store!sfVars
  <2> DEFINE i == queue[1].id
  <2>1. flusher[f].rec = queue[1] /\ queue # <<>> /\ file' = file /\ i \in Ids
    BY <1>3, <1>9 DEF FlushSend, HoldsFront
  <2>2. CASE SendOnce(i)
    <3>1. given'[i] # "no" /\ fwdNext = fwd \cup {i}
      BY <2>1, <2>2, TypeParts DEF SendOnce
    <3>2. ToForward' = Tail(IdSeq(file))
      BY <1>2, <2>1, <3>1, StoreIs
    <3>3. CASE given[i] # "no"
      <4>1. ToForward' = ToForward /\ fwdNext = fwd
        BY <1>2, <2>1, <3>1, <3>2, <3>3, StoreIs
      <4> QED
        BY <1>1, <4>1 DEF Store!sfVars
    <3>4. CASE given[i] = "no"
      <4>1. ToForward = IdSeq(file)
        BY <1>2, <2>1, <3>4, StoreIs
      <4>2. IdSeq(file) \in Seq(Ids) /\ IdSeq(file) # <<>> /\ Head(IdSeq(file)) = i
        <5>1. /\ IdSeq(file) \in Seq(Ids) /\ IdSeq(file) # <<>> /\ IdSeq(file)[1] = i
          BY <1>2, <1>3, <2>1, IdSeqType, SeqIndex
        <5> QED
          BY <5>1
      <4>3. Store!ForwardStored
        BY <1>1, <3>1, <3>2, <4>1, <4>2 DEF Store!ForwardStored
      <4> QED
        BY <4>3 DEF Store!SFNext
    <3> QED
      BY <3>3, <3>4
  <2>3. CASE UNCHANGED given
    BY <1>5, <2>1, <2>3
  <2> QED
    BY <1>9, <2>1, <2>2, <2>3 DEF FlushSend
<1>10. ASSUME NEW f \in Flushers, FlushPop(f)
       PROVE  UNCHANGED Store!sfVars
  <2>1. /\ queue # <<>> /\ file' = Tail(queue) /\ UNCHANGED given
        /\ given[queue[1].id] = "now"
    BY <1>10, FlushPopInv DEF Persist, WritesWork, FlushPop
  <2>2. ToForward = Tail(IdSeq(file)) /\ IdSeq(file') = Tail(IdSeq(file))
    BY <1>2, <2>1, StoreIs, IdSeqTail
  <2>3. file' # <<>> => given[file'[1].id] = "no"
    <3>1. SUFFICES ASSUME file' # <<>> PROVE given[file'[1].id] = "no"
      OBVIOUS
    <3>2. 1 + 1 \in DOMAIN queue /\ file'[1] = queue[1 + 1]
      <4>1. /\ file' \in Seq(Records) /\ DOMAIN file' = 1..(Len(queue) - 1)
            /\ DOMAIN queue = 1..Len(queue) /\ Len(queue) \in Nat
            /\ \A n \in 1..(Len(queue) - 1) : file'[n] = queue[n + 1]
        BY <1>2, <2>1, SeqIndex, Tailed
      <4>2. 1 \in DOMAIN file'
        BY <3>1, <4>1, SeqIndex
      <4> QED
        BY <4>1, <4>2
    <3> QED
      BY <3>2 DEF ExactInv, Handed
  <2>4. ToForward' = IdSeq(file')
    BY <2>1, <2>3, StoreIs
  <2> QED
    BY <1>1, <2>1, <2>2, <2>4 DEF Store!sfVars
<1>11. CASE Restart
  <2>1. file' = file /\ \A i \in Ids : given'[i] # "no" <=> given[i] # "no"
    BY <1>11 DEF Restart, Handed
  <2>2. fwdNext = fwd
    BY <2>1
  <2>3. ToForward' = ToForward
    BY <1>2, <1>3, <2>1, StoreIs
  <2> QED
    BY <1>1, <2>2, <2>3 DEF Store!sfVars
<1> HIDE DEF fwd, fwdNext
<1> QED
  BY <1>5, <1>6, <1>7, <1>8, <1>9, <1>10, <1>11
     DEF Next, PublishStep, FlushStep, Reconnect, ConnLost, Deliver, Tick,
         LookForBacklog, Trigger, FlushFront, FlushEnd, vars

\* When no write fails the cache and its users forward every record at once,
\* store it or drop it, and forward what is stored once and in its order, with
\* overlapping cycles, connection losses, clock steps and restarts.
THEOREM CacheImplementsStore == WritesWork /\ Spec => ImplementsStoreAndForward
<1> SUFFICES ASSUME WritesWork PROVE Spec => Store!SFSpec
  BY DEF ImplementsStoreAndForward
<1>1. Init => Store!SFInit
  <2> SUFFICES ASSUME Init PROVE Store!SFInit
    OBVIOUS
  <2>1. ToForward = <<>>
    BY StoreIs DEF Init, IdSeq
  <2>2. {i \in Ids : Handed(i)} = {}
    BY DEF Init, Handed
  <2> QED
    BY <2>1, <2>2 DEF Store!SFInit
<1>2. CacheInv /\ ExactInv /\ [Next]_vars => [Store!SFNext]_Store!sfVars
  BY StoreStep
<1> QED
  BY <1>1, <1>2, CacheInvariant, ExactInvariant, PTL DEF Spec, Store!SFSpec

=============================================================================
