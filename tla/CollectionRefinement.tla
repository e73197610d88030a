------------------------ MODULE CollectionRefinement ------------------------
(***************************************************************************)
(* The error_code stream implements Debounce, also while cycles interleave *)
(* step by step: what the last cycle found is what it gave to the filter,  *)
(* and the filter holds what was put into a message last.                  *)
(***************************************************************************)
EXTENDS CollectionCycle

Stream == INSTANCE Debounce WITH Clear <- "NONE", found <- fed, held <- filter.last

\* Every cycle reports as the comment on ErrorCodeEdgeFilter promises.
ImplementsDebounce == Stream!DebounceSpec

-----------------------------------------------------------------------------
(* Values for TLC *)

NotThere == [ps |-> "none", cs |-> "none", nr |-> "none", cause |-> "none",
             nrCause |-> "none", pdp |-> FALSE]
Home == [NotThere EXCEPT !.ps = "home"]
Refused == [NotThere EXCEPT !.ps = "denied", !.cause = "congestion"]

FewRegs == {Home, Refused}

=============================================================================
