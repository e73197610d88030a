-------------------------- MODULE StoreAndForward --------------------------
(***************************************************************************)
(* What the offline cache promises the platform: a record is forwarded at  *)
(* once, or stored, or dropped because the store spans too much; what is   *)
(* stored is forwarded once, in the order in which it was stored, whatever *)
(* happens to the process and to the connection in between.                *)
(***************************************************************************)
EXTENDS Naturals, Sequences

CONSTANTS Ids

VARIABLES
  store,      \* the ids that are stored and not yet forwarded
  forwarded   \* the ids that were forwarded

sfVars == <<store, forwarded>>

InStore(i) == \E n \in DOMAIN store : store[n] = i

SFInit == store = <<>> /\ forwarded = {}

\* A new record; an id may be used again for another one.
Produce(i) ==
  /\ ~ InStore(i)
  /\ forwarded' = forwarded \ {i}
  /\ UNCHANGED store

ForwardNew(i) ==
  /\ i \notin forwarded
  /\ ~ InStore(i)
  /\ forwarded' = forwarded \cup {i}
  /\ UNCHANGED store

Store(i) ==
  /\ i \notin forwarded
  /\ ~ InStore(i)
  /\ store' = Append(store, i)
  /\ UNCHANGED forwarded

ForwardStored ==
  /\ store # <<>>
  /\ store' = Tail(store)
  /\ forwarded' = forwarded \cup {Head(store)}

SFNext ==
  \/ \E i \in Ids : Produce(i) \/ ForwardNew(i) \/ Store(i)
  \/ ForwardStored

SFSpec == SFInit /\ [][SFNext]_sfVars

=============================================================================
