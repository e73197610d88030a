------------------------------ MODULE Debounce ------------------------------
(***************************************************************************)
(* What the error_code stream promises the platform (the comment on        *)
(* ErrorCodeEdgeFilter in src/include/cellular_diagnosis.h): the first     *)
(* state is reported, the end of an error at once, a new error when two    *)
(* cycles in a row find it, and a state that does not change never again.  *)
(***************************************************************************)
CONSTANTS
  States,  \* what a cycle can find
  Clear,   \* the state without an error
  None     \* no state yet

VARIABLES
  found,   \* what the last cycle found
  held     \* the state that was reported last

debounceVars == <<found, held>>

DebounceInit == found = None /\ held = None

Find(s) ==
  /\ found' = s
  /\ held' = IF s \in {Clear, found} \/ held = None THEN s ELSE held

DebounceSpec == DebounceInit /\ [][\E s \in States : Find(s)]_debounceVars

=============================================================================
