--------------------------- MODULE CacheRefinement ---------------------------
(***************************************************************************)
(* The offline cache implements StoreAndForward.  The store is the file,   *)
(* without its first record once that was handed to the client library:    *)
(* handing it over is what forwards it, removing it and repeating it after *)
(* a restart are not steps of the store.                                   *)
(***************************************************************************)
EXTENDS OfflineCache

\* The ids in the file that are still to be forwarded.
ToForward ==
  LET ids == [n \in DOMAIN file |-> file[n].id]
  IN  IF file # <<>> /\ Handed(file[1].id) THEN Tail(ids) ELSE ids

Store == INSTANCE StoreAndForward
           WITH store <- ToForward, forwarded <- {i \in Ids : Handed(i)}

\* Every behaviour in which the file can be written is one of the store.
ImplementsStoreAndForward == Store!SFSpec

=============================================================================
