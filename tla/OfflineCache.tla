---------------------------- MODULE OfflineCache ----------------------------
(***************************************************************************)
(* The offline cache of the periodic data (src/src/offline_cache.cpp) and  *)
(* its two users in ProbeManager: publishData, run by the collection timer *)
(* once per cycle, and the detached thread of flushOfflineCache.           *)
(*                                                                         *)
(* A record is a payload (its id) with its time stamp.  An operation under *)
(* OfflineCache's mutex is one step: a kill in the middle of it leaves the *)
(* file as it was, because the file is replaced by a rename.  The client   *)
(* library accepts a message at QoS 0 and delivers it later, or drops it   *)
(* when the connection is lost; ids that are used nowhere are used again.  *)
(***************************************************************************)
EXTENDS Naturals, Sequences, FiniteSets

CONSTANTS
  Ids,          \* payloads
  Producers,    \* threads in publishData: one, or more when cycles overlap
  Flushers,     \* names for the detached threads
  None,         \* no record
  MaxAge,       \* m_maxAgeMs
  MaxClock,     \* bound: the highest time
  MaxQueue,     \* bound: with so many records cached no cycle is offline
  MaxRestarts,  \* bound: ends of the process
  ClockSetBack, \* may the wall clock be set back?
  SendErrors,   \* may the client library refuse a message while it is connected?
  PersistFails, \* may the temporary file be impossible to open or rename?
  ShortWrite    \* may its writes be cut short (disk full)?

ASSUME CacheAssumption ==
  /\ None \notin Ids
  /\ MaxAge \in Nat
  /\ MaxClock \in Nat
  /\ MaxQueue \in Nat
  /\ MaxRestarts \in Nat
  /\ ClockSetBack \in BOOLEAN
  /\ SendErrors \in BOOLEAN
  /\ PersistFails \in BOOLEAN
  /\ ShortWrite \in BOOLEAN

VARIABLES
  clock,      \* BaseTimer::GetMilliTime
  producer,   \* where each publishData is, with its record
  queue,      \* m_queue
  file,       \* the records in data_cache.json
  flushing,   \* m_flushing
  flusher,    \* the threads of flushOfflineCache
  connected,  \* MQTTAsync_isConnected
  inflight,   \* ids accepted by MQTTAsync_sendMessage, not yet delivered
  given,      \* history: was the id handed to the client library, and when?
  restarts    \* bound

vars == <<clock, producer, queue, file, flushing, flusher, connected, inflight,
          given, restarts>>

Clock == 0..MaxClock
Records == [id : Ids, ts : Clock]

IdleProducer == [pc |-> "idle", rec |-> None]
IdleFlusher == [pc |-> "idle", rec |-> None]

IdsOf(q) == {q[i].id : i \in DOMAIN q}

TypeOK ==
  /\ clock \in Clock
  /\ producer \in
       [Producers -> {IdleProducer} \cup [pc : {"try", "sent", "trigger", "push"}, rec : Records]]
  /\ queue \in Seq(Records)
  /\ file \in Seq(Records)
  /\ \A q \in {queue, file} : \A i, j \in DOMAIN q : q[i].id = q[j].id => i = j
  /\ flushing \in BOOLEAN
  /\ flusher \in
       [Flushers -> [pc : {"idle", "front", "end"}, rec : {None}]
                    \cup [pc : {"send", "pop"}, rec : Records]]
  /\ connected \in BOOLEAN
  /\ inflight \subseteq Ids
  /\ given \in [Ids -> {"no", "before", "now", "twice"}]
  /\ restarts \in 0..MaxRestarts

Init ==
  /\ clock = 0
  /\ producer = [p \in Producers |-> IdleProducer]
  /\ queue = <<>>
  /\ file = <<>>
  /\ flushing = FALSE
  /\ flusher = [f \in Flushers |-> IdleFlusher]
  /\ connected = FALSE
  /\ inflight = {}
  /\ given = [i \in Ids |-> "no"]
  /\ restarts = 0

-----------------------------------------------------------------------------
(* The client library *)

Handed(i) == given[i] # "no"

\* sendOnce: MQTTAsync_sendMessage accepts a message while it is connected.
SendOnce(i) ==
  /\ connected
  /\ inflight' = inflight \cup {i}
  /\ given' = [given EXCEPT ![i] = IF @ \in {"now", "twice"} THEN "twice" ELSE "now"]

Refused == ~ connected \/ SendErrors

Reconnect ==
  /\ ~ connected
  /\ connected' = TRUE
  /\ UNCHANGED <<clock, producer, queue, file, flushing, flusher, inflight, given, restarts>>

\* The loss of the connection is noticed; cleansession drops what is queued.
ConnLost ==
  /\ connected
  /\ Len(queue) < MaxQueue \/ \A p \in Producers : producer[p].pc # "try"
  /\ connected' = FALSE
  /\ inflight' = {}
  /\ UNCHANGED <<clock, producer, queue, file, flushing, flusher, given, restarts>>

Deliver(i) ==
  /\ connected
  /\ i \in inflight
  /\ inflight' = inflight \ {i}
  /\ UNCHANGED <<clock, producer, queue, file, flushing, flusher, connected, given, restarts>>

-----------------------------------------------------------------------------
(* OfflineCache *)

\* persistLocked: the file gets the queue, unless writing it fails.
Persist(q) ==
  \/ file' = q
  \/ PersistFails /\ UNCHANGED file
  \/ ShortWrite /\ \E n \in 0..Len(q) : file' = SubSeq(q, 1, n)

\* Mutant: the age is measured from the newest record.
BugTooOld(ts) == queue # <<>> /\ ts > queue[Len(queue)].ts + MaxAge

\* The cache is full when it spans more than m_maxAgeMs.
TooOld(ts) == queue # <<>> /\ ts > Head(queue).ts + MaxAge

Pushed(r) == Append(queue, r)

-----------------------------------------------------------------------------
(* publishData, on a thread of the collection timer *)

InUse(i) ==
  \/ \E p \in Producers : producer[p].pc # "idle" /\ producer[p].rec.id = i
  \/ \E f \in Flushers : flusher[f].pc \in {"send", "pop"} /\ flusher[f].rec.id = i
  \/ i \in inflight \cup IdsOf(queue) \cup IdsOf(file)

\* The payload is collected and its time taken.
Stamp(p) ==
  /\ producer[p].pc = "idle"
  /\ connected \/ Len(queue) < MaxQueue
  /\ \E i \in Ids :
       /\ ~ InUse(i)
       /\ producer' = [producer EXCEPT ![p] = [pc |-> "try", rec |-> [id |-> i, ts |-> clock]]]
       /\ given' = [given EXCEPT ![i] = "no"]
  /\ UNCHANGED <<clock, queue, file, flushing, flusher, connected, inflight, restarts>>

TrySend(p) ==
  /\ producer[p].pc = "try"
  /\ \/ /\ SendOnce(producer[p].rec.id)
        /\ producer' = [producer EXCEPT ![p].pc = "sent"]
     \/ /\ Refused
        /\ producer' = [producer EXCEPT ![p].pc = "push"]
        /\ UNCHANGED <<inflight, given>>
  /\ UNCHANGED <<clock, queue, file, flushing, flusher, connected, restarts>>

\* Sent: is there a backlog to send after it?
LookForBacklog(p) ==
  /\ producer[p].pc = "sent"
  /\ producer' = [producer EXCEPT ![p] =
                    IF queue = <<>> THEN IdleProducer ELSE [@ EXCEPT !.pc = "trigger"]]
  /\ UNCHANGED <<clock, queue, file, flushing, flusher, connected, inflight, given, restarts>>

\* Mutant: m_flushing is set and not looked at.
BugTrigger(p) ==
  /\ producer[p].pc = "trigger"
  /\ producer' = [producer EXCEPT ![p] = IdleProducer]
  /\ \E f \in Flushers :
       /\ flusher[f].pc = "idle"
       /\ flusher' = [flusher EXCEPT ![f] = [pc |-> "front", rec |-> None]]
  /\ flushing' = TRUE
  /\ UNCHANGED <<clock, queue, file, connected, inflight, given, restarts>>

\* flushOfflineCache: m_flushing.compare_exchange_strong, then a new thread.
Trigger(p) ==
  /\ producer[p].pc = "trigger"
  /\ producer' = [producer EXCEPT ![p] = IdleProducer]
  /\ \/ /\ ~ flushing
        /\ flushing' = TRUE
        /\ \E f \in Flushers :
             /\ flusher[f].pc = "idle"
             /\ flusher' = [flusher EXCEPT ![f] = [pc |-> "front", rec |-> None]]
     \/ flushing /\ UNCHANGED <<flushing, flusher>>
  /\ UNCHANGED <<clock, queue, file, connected, inflight, given, restarts>>

\* OfflineCache::push
Push(p) ==
  /\ producer[p].pc = "push"
  /\ \/ /\ TooOld(producer[p].rec.ts)
        /\ UNCHANGED <<queue, file>>
     \/ /\ ~ TooOld(producer[p].rec.ts)
        /\ queue' = Pushed(producer[p].rec)
        /\ Persist(queue')
  /\ producer' = [producer EXCEPT ![p] = IdleProducer]
  /\ UNCHANGED <<clock, flushing, flusher, connected, inflight, given, restarts>>

-----------------------------------------------------------------------------
(* OfflineCache::flush, on a detached thread *)

\* Mutant: the record is taken out of the queue before it is sent.
BugFlushFront(f) ==
  /\ flusher[f].pc = "front"
  /\ queue # <<>>
  /\ flusher' = [flusher EXCEPT ![f] = [pc |-> "send", rec |-> Head(queue)]]
  /\ queue' = Tail(queue)
  /\ Persist(queue')
  /\ UNCHANGED <<clock, producer, flushing, connected, inflight, given, restarts>>

FlushFront(f) ==
  /\ flusher[f].pc = "front"
  /\ flusher' = [flusher EXCEPT ![f] =
                   IF queue = <<>> THEN [pc |-> "end", rec |-> None]
                   ELSE [pc |-> "send", rec |-> Head(queue)]]
  /\ UNCHANGED <<clock, producer, queue, file, flushing, connected, inflight, given, restarts>>

\* Outside the lock.
FlushSend(f) ==
  /\ flusher[f].pc = "send"
  /\ \/ /\ SendOnce(flusher[f].rec.id)
        /\ flusher' = [flusher EXCEPT ![f].pc = "pop"]
     \/ /\ Refused
        /\ flusher' = [flusher EXCEPT ![f] = [pc |-> "end", rec |-> None]]
        /\ UNCHANGED <<inflight, given>>
  /\ UNCHANGED <<clock, producer, queue, file, flushing, connected, restarts>>

\* The front is looked at again: it is removed if it has the same time.
FlushPop(f) ==
  /\ flusher[f].pc = "pop"
  /\ \/ /\ queue # <<>> /\ Head(queue).ts = flusher[f].rec.ts
        /\ queue' = Tail(queue)
        /\ Persist(queue')
     \/ /\ ~ (queue # <<>> /\ Head(queue).ts = flusher[f].rec.ts)
        /\ UNCHANGED <<queue, file>>
  /\ flusher' = [flusher EXCEPT ![f] = [pc |-> "front", rec |-> None]]
  /\ UNCHANGED <<clock, producer, flushing, connected, inflight, given, restarts>>

\* Mutant: m_flushing is only reset when everything was sent.
BugFlushEnd(f) ==
  /\ flusher[f].pc = "end"
  /\ flushing' = (queue # <<>>)
  /\ flusher' = [flusher EXCEPT ![f] = IdleFlusher]
  /\ UNCHANGED <<clock, producer, queue, file, connected, inflight, given, restarts>>

FlushEnd(f) ==
  /\ flusher[f].pc = "end"
  /\ flushing' = FALSE
  /\ flusher' = [flusher EXCEPT ![f] = IdleFlusher]
  /\ UNCHANGED <<clock, producer, queue, file, connected, inflight, given, restarts>>

-----------------------------------------------------------------------------
(* The environment *)

\* The process ends, is started again, and init loads the file.
Restart ==
  /\ restarts < MaxRestarts
  /\ restarts' = restarts + 1
  /\ producer' = [p \in Producers |-> IdleProducer]
  /\ queue' = file
  /\ flushing' = FALSE
  /\ flusher' = [f \in Flushers |-> IdleFlusher]
  /\ connected' = FALSE
  /\ inflight' = {}
  /\ given' = [i \in Ids |-> IF Handed(i) THEN "before" ELSE "no"]
  /\ UNCHANGED <<clock, file>>

Tick ==
  /\ \/ clock < MaxClock /\ clock' = clock + 1
     \/ ClockSetBack /\ clock' \in 0..clock /\ clock' # clock
  /\ UNCHANGED <<producer, queue, file, flushing, flusher, connected, inflight, given, restarts>>

PublishStep(p) ==
  Stamp(p) \/ TrySend(p) \/ LookForBacklog(p) \/ Trigger(p) \/ Push(p)

FlushStep(f) == FlushFront(f) \/ FlushSend(f) \/ FlushPop(f) \/ FlushEnd(f)

Next ==
  \/ Reconnect \/ ConnLost \/ \E i \in Ids : Deliver(i)
  \/ \E p \in Producers : PublishStep(p)
  \/ \E f \in Flushers : FlushStep(f)
  \/ Restart \/ Tick

Spec == Init /\ [][Next]_vars

-----------------------------------------------------------------------------
(* Properties *)

\* One flush at a time, and m_flushing is set for exactly as long as it runs
\* ("防重入"): it is neither left set, which would end all flushing, nor shared.
FlushExclusive ==
  /\ \A f, g \in Flushers : flusher[f].pc # "idle" /\ flusher[g].pc # "idle" => f = g
  /\ flushing <=> \E f \in Flushers : flusher[f].pc # "idle"

\* Within one life of the process no record is handed to the client library
\* twice, by whichever thread.
NoRepeat == \A i \in Ids : given[i] # "twice"

\* Of the records in the queue, and of those on disk, only the oldest can have
\* been handed over already: a restart repeats at most one record.
OnlyFrontHanded ==
  \A q \in {queue, file} : \A i \in DOMAIN q : i > 1 => ~ Handed(q[i].id)

\* A record that was cached leaves the disk only after it was handed over
\* ("成功即出队并落盘").
CachedUntilHanded == [][\A i \in IdsOf(file) \ IdsOf(file') : Handed(i)]_vars

\* One cycle at a time, with a clock that is never set back: what is flushed is
\* always the oldest record of the cache ("按时间顺序（旧->新）逐条回传").
OldestFirst ==
  [][\A f \in Flushers : flusher[f].pc = "send" /\ flusher'[f].pc = "pop" =>
       \A i \in DOMAIN queue : flusher[f].rec.ts <= queue[i].ts]_vars

\* ... and the cache never spans more than m_maxAgeMs ("最多缓存 maxAgeMs 时长").
SpanBounded == \A i, j \in DOMAIN queue : queue[j].ts <= queue[i].ts + MaxAge

-----------------------------------------------------------------------------
(* Liveness *)

\* Timers and threads go on; the client library delivers while it is connected.
CacheFairness ==
  /\ \A p \in Producers : WF_vars(PublishStep(p))
  /\ \A f \in Flushers : WF_vars(FlushStep(f))
  /\ \A i \in Ids : WF_vars(Deliver(i))

FairSpec == Spec /\ CacheFairness

\* Once the connection stays up, every backlog is sent: no trigger is lost for
\* good between the flush that ends and the record that is pushed just then.
BacklogDrains == <>[]connected => []<>(queue = <<>>)

=============================================================================
