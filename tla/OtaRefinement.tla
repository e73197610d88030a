--------------------------- MODULE OtaRefinement ---------------------------
(***************************************************************************)
(* OtaManager implements UpgradeSlot from every confirmed image on until a *)
(* mishap, when commands wait for the trial before them to be decided.     *)
(*                                                                         *)
(* An installation takes effect when the pending file is complete: until   *)
(* then the slot still holds the image that was confirmed before.  A boot  *)
(* is counted when the pending file is opened to be rewritten, and a       *)
(* rollback takes effect when the backup gets the program's name: while    *)
(* there is no program (for good, after a kill just then) the slot still   *)
(* holds the image on trial.                                               *)
(***************************************************************************)
EXTENDS OtaManager

slotOfDisk ==
  IF Installing THEN committed
  ELSE IF file["exe"] = None THEN pending.image
  ELSE file["exe"]

trialOnDisk == proc = "bumped" \/ pending.st = "set"

bootsOnDisk ==
  IF proc = "bumped" THEN trial.attempts ELSE pending.attempts

Slot == INSTANCE UpgradeSlot WITH
  slot <- slotOfDisk,
  good <- committed,
  onTrial <- trialOnDisk,
  boots <- bootsOnDisk

\* The agent keeps the promise of UpgradeSlot: every step of its threads, of
\* the boot and of a kill is a step of the abstract upgrade, or none at all,
\* except while the record of a trial is lost by a mishap; the next confirmed
\* image ends that, and the promise holds again.
ImplementsUpgradeSlot ==
  Slot!SlotInit /\ [][mishap \/ mishap' \/ Slot!SlotNext]_(Slot!slotVars)

=============================================================================
