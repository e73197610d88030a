----------------------------- MODULE SimAccess -----------------------------
(***************************************************************************)
(* Access to the two SIM slots of the cellular module:                     *)
(* RPIModuleInterface (boards/rpi/rpi_module_interface.cpp) and what it    *)
(* calls of AtClient (boards/rpi/rpi_at_client.cpp).  The module works on  *)
(* one slot at a time; a query about a slot selects it, reads, and selects *)
(* the slot that was active before.  Each command has the AT channel to    *)
(* itself, the sequence of an operation does not.                          *)
(*                                                                         *)
(* An operation is the sequence of the commands it has still to send.  A   *)
(* command may go unanswered, carried out by the module or not.            *)
(***************************************************************************)
EXTENDS Integers, Sequences

CONSTANTS
  Callers, \* threads that use the interface
  Modules, \* does a module have two slots? one or both answers
  MaxOps,  \* bound: operations begun
  MaxLost  \* bound: commands that go unanswered

ASSUME SimAssumption ==
  /\ Modules \subseteq BOOLEAN
  /\ MaxOps \in Nat
  /\ MaxLost \in Nat

VARIABLES
  twoSlots,    \* what the module has
  slot,        \* the slot that the module works on
  home,        \* the slot that was last chosen for its own sake
  initialized, \* m_initialized
  connected,   \* m_atClient.is_connected()
  checked,     \* m_dualSimChecked
  supported,   \* m_dualSimSupported
  ids,         \* m_cachedImsi and m_cachedIccid
  device,      \* m_cachedDeviceInfo
  op,          \* what each caller is doing
  alone,       \* operations never overlapped
  steady,      \* nor was one told another slot than the module's, or nothing
  ops,
  lost

vars == <<twoSlots, slot, home, initialized, connected, checked, supported,
          ids, device, op, alone, steady, ops, lost>>

Slots == IF twoSlots THEN {0, 1} ELSE {0}
Unknown == -1

(***************************************************************************)
(* The commands of an operation, each for a slot:                          *)
(*   remember  get_active_sim_slot, kept for restore                       *)
(*   enter     SimSlotGuard's query; the slot is selected if not active    *)
(*   select    select_sim_slot, without which the next step is skipped     *)
(*   require   select_sim_slot, without which the operation returns        *)
(*   read      up to n queries, until one has an answer                    *)
(*   ids       AT+CIMI and AT+ICCID, kept whatever they answer             *)
(*   device    the queries of get_module_info, kept if the first answer    *)
(*   restore   select_sim_slot of what was remembered                      *)
(*   reselect  the same, unless it is the step's own slot                  *)
(*   leave     ~SimSlotGuard's query, and back its select_sim_slot         *)
(*   ask       get_active_sim_slot, to be reported                         *)
(*   choose    select_sim_slot for its own sake                            *)
(***************************************************************************)
Step(name, x) == [do |-> name, of |-> x, n |-> 1]
Read(n, x) == [do |-> "read", of |-> x, n |-> n]
Guarded(n, x) == <<Step("enter", x), Read(n, x), Step("leave", x)>>

Idle == [todo |-> <<>>, outer |-> Unknown, inner |-> Unknown, blind |-> FALSE]
Resting(c) == op[c].todo = <<>>

TypeOK ==
  /\ twoSlots \in BOOLEAN
  /\ slot \in Slots /\ home \in Slots
  /\ initialized \in BOOLEAN /\ connected \in BOOLEAN
  /\ checked \in BOOLEAN /\ supported \in BOOLEAN
  /\ ids \in {"none", "empty", "known"}
  /\ device \in {"none", "part", "full"}
  /\ \A c \in Callers :
       /\ op[c].outer \in {Unknown, 0, 1} /\ op[c].inner \in {Unknown, 0, 1}
       /\ op[c].blind \in BOOLEAN
       /\ \A i \in DOMAIN op[c].todo : op[c].todo[i].of \in {0, 1}
  /\ alone \in BOOLEAN /\ steady \in BOOLEAN
  /\ ops \in 0..MaxOps /\ lost \in 0..MaxLost

Init ==
  /\ twoSlots \in Modules
  /\ slot \in Slots /\ home = slot
  /\ initialized = FALSE /\ connected = FALSE
  /\ checked = FALSE /\ supported = FALSE
  /\ ids = "none" /\ device = "none"
  /\ op = [c \in Callers |-> Idle]
  /\ alone = TRUE /\ steady = TRUE
  /\ ops = 0 /\ lost = 0

----------------------------------------------------------------------------
(***************************************************************************)
(* Operations                                                              *)
(***************************************************************************)
Begin(c, program, misled) ==
  /\ Resting(c)
  /\ ops < MaxOps
  /\ ops' = ops + 1
  /\ op' = [op EXCEPT ![c] = [Idle EXCEPT !.todo = program,
                                            !.blind = misled]]
  /\ alone' = (alone /\ \A d \in Callers : Resting(d))
  /\ steady' = (steady /\ alone')

Ask(c, program) ==
  /\ connected
  /\ Begin(c, program, FALSE)
  /\ UNCHANGED <<slot, home, initialized, connected, checked, supported, ids,
                 device, lost>>

\* getNetworkServiceStatus, getNetworkSignalInfo and getNetworkWirelessInfo
\* have a second query; getNetworkCellInfo has one.
Query(c, x, n) == Ask(c, IF supported THEN Guarded(n, x) ELSE <<Read(n, x)>>)

BugGetSimInfo(c, x) ==
  Ask(c, IF supported
         THEN <<Step("remember", x), Step("require", x), Read(1, x),
                Step("reselect", x)>>
         ELSE <<Read(1, x), Step("ids", x)>>)

\* get_sim_status_slot; with one slot get_sim_status and the kept identities.
GetSimInfo(c, x) ==
  Ask(c, CASE supported -> <<Step("remember", x), Step("require", x),
                             Read(1, x), Step("reselect", x)>>
           [] ~supported /\ ids = "none" -> <<Read(1, x), Step("ids", x)>>
           [] ~supported /\ ids # "none" -> <<Read(1, x)>>)

GetAllSimSignalInfo(c) ==
  Ask(c, IF supported
         THEN <<Step("remember", 0)>> \o Guarded(2, 0) \o Guarded(2, 1)
                \o <<Step("restore", 0)>>
         ELSE <<Read(2, 0)>>)

\* get_dual_sim_status asks again whether there are two slots.
GetDualSimInfo(c) ==
  \E two \in {twoSlots, FALSE} :
    /\ connected
    /\ two # twoSlots => lost < MaxLost
    /\ lost' = IF two # twoSlots THEN lost + 1 ELSE lost
    /\ Begin(c, IF two
                THEN <<Step("remember", 0), Step("select", 0), Read(1, 0),
                       Step("select", 1), Read(1, 1), Step("restore", 0),
                       Step("ask", 0)>>
                ELSE <<Read(1, 0)>>, two # twoSlots)
    /\ UNCHANGED <<slot, home, initialized, connected, checked, supported,
                   ids, device>>

GetDeviceInfo(c) ==
  /\ device = "none"
  /\ Ask(c, <<Step("device", 0)>>)

\* On a module with one slot this only sets m_current_sim_id.
SelectSimSlot(c, x) == supported /\ Ask(c, <<Step("choose", x)>>)

GetActiveSimSlot(c) == supported /\ Ask(c, <<Step("ask", 0)>>)

\* connect() and the check for two slots, whose lost answer means one slot.
Connect(first) ==
  \/ /\ connected' = FALSE
     /\ UNCHANGED <<checked, supported, lost>>
  \/ /\ connected' = TRUE
     /\ checked' = TRUE
     /\ \/ supported' = (IF first THEN twoSlots ELSE supported) /\ lost' = lost
        \/ /\ first /\ twoSlots /\ lost < MaxLost
           /\ supported' = FALSE
           /\ lost' = lost + 1

\* A second init returns at once, connected or not.
InitModule(c) ==
  /\ Resting(c) /\ ~initialized
  /\ initialized' = TRUE
  /\ Connect(TRUE)
  /\ UNCHANGED <<slot, home, ids, device, op, alone, steady, ops>>

\* setAtPort of an initialized module.
SetAtPort(c) ==
  /\ Begin(c, <<>>, FALSE)
  /\ initialized
  /\ Connect(~checked)
  /\ UNCHANGED <<slot, home, initialized, ids, device>>

Deinit(c) ==
  /\ Begin(c, <<>>, FALSE)
  /\ initialized
  /\ initialized' = FALSE /\ connected' = FALSE
  /\ checked' = FALSE /\ supported' = FALSE
  /\ UNCHANGED <<slot, home, ids, device, lost>>

----------------------------------------------------------------------------
(***************************************************************************)
(* Commands                                                                *)
(***************************************************************************)
Now(c) == Head(op[c].todo)
At(c, name) == op[c].todo # <<>> /\ Now(c).do = name
Then(c, todo) == [op EXCEPT ![c] = IF todo = <<>> THEN Idle
                                  ELSE [@ EXCEPT !.todo = todo]]
Rest(c) == Tail(op[c].todo)

\* No answer: always so when the port is closed.
Unanswered ==
  IF connected THEN lost < MaxLost /\ lost' = lost + 1 ELSE lost' = lost

\* get_active_sim_slot takes the first line of the answer for the active
\* slot, and the first slot if there is no line.  A module may list the
\* active slot first, or its first slot whichever is active.
ActiveSlot(answer) ==
  \/ /\ connected /\ answer \in {slot, 0}
     /\ steady' = (steady /\ answer = slot)
     /\ lost' = lost
  \/ /\ answer = Unknown /\ Unanswered
     /\ steady' = FALSE

\* select_sim_slot
SelectSlot(x, done) ==
  \/ /\ connected /\ done
     /\ slot' = x
     /\ UNCHANGED <<steady, lost>>
  \/ /\ ~done /\ Unanswered
     /\ slot' \in IF connected THEN {slot, x} ELSE {slot}
     /\ steady' = FALSE

Kept == UNCHANGED <<initialized, connected, checked, supported, alone, ops>>
Cached == UNCHANGED <<ids, device>>

AskActive(c) ==
  /\ At(c, "ask")
  /\ \E answer \in {Unknown, 0, 1} : ActiveSlot(answer)
  /\ op' = Then(c, Rest(c))
  /\ UNCHANGED <<slot, home>> /\ Kept /\ Cached

Remember(c) ==
  /\ At(c, "remember")
  /\ \E answer \in {Unknown, 0, 1} :
       /\ ActiveSlot(answer)
       /\ op' = [op EXCEPT ![c] = [@ EXCEPT !.todo = Rest(c),
                                           !.outer = answer]]
  /\ UNCHANGED <<slot, home>> /\ Kept /\ Cached

BugEnter(c) ==
  /\ At(c, "enter")
  /\ \E answer \in {Unknown, 0, 1} :
       /\ ActiveSlot(answer)
       /\ op' = [op EXCEPT ![c] = [@ EXCEPT !.todo = Rest(c),
                                           !.inner = answer]]
  /\ UNCHANGED <<slot, home>> /\ Kept /\ Cached

\* An unknown slot counts as the first.
Enter(c) ==
  /\ At(c, "enter")
  /\ \E answer \in {Unknown, 0, 1} :
       LET original == IF answer = Unknown THEN 0 ELSE answer
           x == Now(c).of
       IN
       /\ ActiveSlot(answer)
       /\ op' = [op EXCEPT ![c] =
                   [@ EXCEPT !.todo = IF original = x THEN Rest(c)
                                      ELSE <<Step("select", x)>> \o Rest(c),
                             !.inner = original,
                             !.blind = (answer # slot)]]
  /\ UNCHANGED <<slot, home>> /\ Kept /\ Cached

Select(c) ==
  /\ \/ At(c, "select")
        /\ \E done \in BOOLEAN :
             /\ SelectSlot(Now(c).of, done)
             /\ op' = Then(c, IF done THEN Rest(c) ELSE Tail(Rest(c)))
     \/ At(c, "require")
        /\ \E done \in BOOLEAN :
             /\ SelectSlot(Now(c).of, done)
             /\ op' = Then(c, IF done THEN Rest(c) ELSE <<>>)
  /\ UNCHANGED home /\ Kept /\ Cached

Choose(c) ==
  /\ At(c, "choose")
  /\ \E done \in BOOLEAN : SelectSlot(Now(c).of, done)
  /\ home' = Now(c).of
  /\ op' = Then(c, Rest(c))
  /\ Kept /\ Cached

\* A query that is answered, of which the caller takes that it is about
\* Now(c).of.
Answered(c) ==
  /\ At(c, "read")
  /\ connected
  /\ op' = Then(c, Rest(c))
  /\ UNCHANGED <<slot, home, steady, lost>> /\ Kept /\ Cached

Missed(c) ==
  /\ At(c, "read")
  /\ Unanswered
  /\ op' = Then(c, IF Now(c).n = 1 THEN Rest(c)
                   ELSE <<Read(Now(c).n - 1, Now(c).of)>> \o Rest(c))
  /\ UNCHANGED <<slot, home, steady>> /\ Kept /\ Cached

ReadIds(c) ==
  /\ At(c, "ids")
  /\ \/ connected /\ ids' = "known" /\ lost' = lost
     \/ Unanswered /\ ids' = "empty"
  /\ op' = Then(c, Rest(c))
  /\ UNCHANGED <<slot, home, device, steady>> /\ Kept

\* The manufacturer or the model is enough for the rest to be kept.
ReadDevice(c) ==
  /\ At(c, "device")
  /\ \/ connected /\ device' = "full" /\ lost' = lost
     \/ connected /\ Unanswered /\ device' = "part"
     \/ Unanswered /\ device' = device
  /\ op' = Then(c, Rest(c))
  /\ UNCHANGED <<slot, home, ids, steady>> /\ Kept

BugLeave(c) ==
  /\ At(c, "leave")
  /\ op' = Then(c, Rest(c))
  /\ UNCHANGED <<slot, home, steady, lost>> /\ Kept /\ Cached

Leave(c) ==
  /\ At(c, "leave")
  /\ \E answer \in {Unknown, 0, 1} :
       /\ ActiveSlot(answer)
       /\ op' = Then(c, IF answer \notin {Unknown, op[c].inner}
                        THEN <<Step("back", op[c].inner)>> \o Rest(c)
                        ELSE Rest(c))
  /\ UNCHANGED <<slot, home>> /\ Kept /\ Cached

\* ~SimSlotGuard's selection and that of a query for both slots or for one.
\* Nobody looks whether it succeeded.
Back(c) ==
  /\ \/ /\ At(c, "back")
        /\ \E done \in BOOLEAN : SelectSlot(Now(c).of, done)
     \/ /\ At(c, "restore") \/ At(c, "reselect")
        /\ IF op[c].outer = Unknown
              \/ (At(c, "reselect") /\ op[c].outer = Now(c).of)
           THEN UNCHANGED <<slot, steady, lost>>
           ELSE \E done \in BOOLEAN : SelectSlot(op[c].outer, done)
  /\ op' = Then(c, Rest(c))
  /\ UNCHANGED home /\ Kept /\ Cached

----------------------------------------------------------------------------
Operation(c) ==
  \/ \E x \in Slots : Query(c, x, 1) \/ Query(c, x, 2) \/ GetSimInfo(c, x)
                      \/ SelectSimSlot(c, x)
  \/ GetAllSimSignalInfo(c) \/ GetDualSimInfo(c) \/ GetActiveSimSlot(c)
  \/ GetDeviceInfo(c)
  \/ InitModule(c) \/ SetAtPort(c) \/ Deinit(c)

Command(c) ==
  \/ AskActive(c) \/ Remember(c) \/ Enter(c) \/ Select(c) \/ Choose(c)
  \/ Answered(c) \/ Missed(c) \/ ReadIds(c) \/ ReadDevice(c) \/ Leave(c) \/ Back(c)

Next == UNCHANGED twoSlots /\ \E c \in Callers : Operation(c) \/ Command(c)

Spec == Init /\ [][Next]_vars

----------------------------------------------------------------------------
(***************************************************************************)
(* Properties                                                              *)
(***************************************************************************)
\* SimSlotGuard "restores on destruction": after operations one at a time
\* that were always told the slot that the module was on, and whose
\* selections were answered, it works on the slot that was chosen last.
SlotRestored == steady /\ (\A c \in Callers : Resting(c)) => slot = home

\* What is reported of the second slot was read while the module worked on
\* it, whatever slot the module had said to be active; of the first, if
\* SimSlotGuard was told the slot that was active.  Operations that overlap
\* and a module that counts as one with a single slot are excepted.
DataFromSlot ==
  [][\A c \in Callers :
       /\ Answered(c)
       /\ alone /\ supported = twoSlots
       /\ Now(c).of = 0 => ~op[c].blind
       => slot = Now(c).of]_vars

\* Identities and device data that were read once are not replaced: not by a
\* later query without an answer, nor by another slot's.
KnownStays ==
  [][alone' => (ids = "known" => ids' = "known")
              /\ (device = "full" => device' = "full")]_vars
=============================================================================
