---------------------------- MODULE UpgradeSlot ----------------------------
(***************************************************************************)
(* What the upgrade of the agent promises (src/include/ota_manager.h): the *)
(* device runs the last confirmed firmware, or a new one that is on trial. *)
(* A trial counts its boots; it ends by confirming the new firmware or, at *)
(* the limit, by going back to the confirmed one.                          *)
(***************************************************************************)
EXTENDS Naturals

CONSTANTS
  Firmware,        \* the images that exist
  Factory,         \* the image the device is delivered with
  MaxBootAttempts  \* boots a trial may count

VARIABLES
  slot,     \* the firmware the next boot runs
  good,     \* the last firmware that was confirmed
  onTrial,  \* is the firmware in the slot on trial?
  boots     \* the boots the trial has counted, up to the limit

slotVars == <<slot, good, onTrial, boots>>

SlotInit ==
  /\ slot = Factory
  /\ good = Factory
  /\ onTrial = FALSE
  /\ boots = 0

Install(f) ==
  /\ ~ onTrial
  /\ slot' = f
  /\ onTrial' = TRUE
  /\ UNCHANGED <<good, boots>>

CountBoot ==
  /\ onTrial
  /\ boots < MaxBootAttempts
  /\ boots' = boots + 1
  /\ UNCHANGED <<slot, good, onTrial>>

Confirm ==
  /\ onTrial
  /\ boots \in 1..MaxBootAttempts - 1
  /\ good' = slot
  /\ onTrial' = FALSE
  /\ boots' = 0
  /\ UNCHANGED slot

Revert ==
  /\ onTrial
  /\ boots = MaxBootAttempts
  /\ slot' = good
  /\ UNCHANGED <<good, onTrial, boots>>

GiveUp ==
  /\ onTrial
  /\ boots = MaxBootAttempts
  /\ slot = good
  /\ onTrial' = FALSE
  /\ boots' = 0
  /\ UNCHANGED <<slot, good>>

SlotNext ==
  \/ \E f \in Firmware : Install(f)
  \/ CountBoot \/ Confirm \/ Revert \/ GiveUp

SlotSpec == SlotInit /\ [][SlotNext]_slotVars

=============================================================================
