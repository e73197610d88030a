----------------------------- MODULE JsonObject -----------------------------
(***************************************************************************)
(* One JSON document and the calls that may be made on it: CJsonObject     *)
(* (basetools/base_json_object.cpp) on the item lists of basetools/cJSON.c.*)
(* obj["k"] and obj[i] return a wrapper that the object keeps for later    *)
(* calls; the wrapper points into the document, so every change of the     *)
(* document has to drop the wrappers it makes wrong.  Only the changes     *)
(* whose value is another CJsonObject do.                                  *)
(*                                                                         *)
(* A pointer to an item is the place of the item in the list, and moves    *)
(* with it.  An integer is stored as in the code, by its 64 bits and a     *)
(* sign flag; Top stands for 2^31, and whatever it is the types have the   *)
(* ranges of as many numbers.  A double with a fraction is a number of     *)
(* steps so small that they make up those of its text, which has six       *)
(* decimals; this stands for doubles below 10^9, which lie closer to each  *)
(* other than the numbers with six decimals.                               *)
(***************************************************************************)
EXTENDS Integers, Sequences, Functions, FiniteSetsExt

CONSTANTS
  Names,     \* member names, compared without regard to case
  Respelled, \* the names that are used in a second spelling
  Top,       \* 2^31: one more than the greatest int32
  Digits,    \* a long double has every integer up to this: 2^64, or 2^53
             \* where it is a double (ARM with 32 bits)
  DoubleDigits, \* a double has every integer below this: 2^53
  Decimals,  \* 10^6: the numbers with six decimals from 0 to 1
  Half,      \* the small steps that are less than half of 10^-6
  Slip,      \* the small steps by which parse_number may be off
  MaxItems,  \* bound: items of the document
  MaxOps     \* bound: calls

ASSUME JsonAssumption ==
  /\ Respelled \subseteq Names
  /\ Digits \in Nat /\ DoubleDigits \in Nat \ {0} /\ Decimals \in Nat \ {0}
  /\ Half \in Nat /\ Slip \in 0 .. Half
  /\ Top \in Nat \ {0} /\ MaxItems \in Nat \ {0} /\ MaxOps \in Nat

VARIABLES
  kind,      \* what m_pJsonData is, "none" when there is none
  items,     \* the list of its children
  objectRef, \* m_mapJsonObjectRef: the item of the wrapper under a key
  arrayRef,  \* m_mapJsonArrayRef: the item of the wrapper under an index
  keyList,   \* m_listKeys
  at,        \* m_itKey
  careful,   \* the caller changed nothing that a wrapper or list was about
  ops

vars == <<kind, items, objectRef, arrayRef, keyList, at, careful, ops>>

Keys == {<<n, FALSE>> : n \in Names} \cup {<<n, TRUE>> : n \in Respelled}
Indices == 0 .. MaxItems
SameKey(j, k) == j[1] = k[1]

Orphan == 0     \* a wrapper of nothing, or of a value of its own
Dangling == -1  \* a wrapper of an item that was freed

(***************************************************************************)
(* Values.  Only properties look at given and drift: given is the number   *)
(* that the caller passed, and when a double became a whole number in a    *)
(* copy, that number, drift being how far it is from what was passed.      *)
(***************************************************************************)
Widths == {"int32", "uint32", "int64", "uint64"}
Top64 == 2 * Top * Top  \* 2^63
Least(w) == CASE w = "int32" -> -Top
              [] w = "int64" -> -Top64
              [] OTHER -> 0
Greatest(w) == CASE w = "int32" -> Top - 1
                 [] w = "uint32" -> 2 * Top - 1
                 [] w = "int64" -> Top64 - 1
                 [] w = "uint64" -> 2 * Top64 - 1
Edges(w) == {Least(w), Greatest(w)}

Bits(n) == n % (2 * Top64)
Value(k, num, sign, given, drift) ==
  [kind |-> k, num |-> num, sign |-> sign, given |-> given, drift |-> drift]
Plain(k) == Value(k, 0, 0, 0, 0)
Integer(n, sign) == Value("int", Bits(n), sign, n, 0)

Fine == 2 * Half + 1        \* the small steps of 10^-6
Unit == Decimals * Fine     \* the small steps of 1
Whole(n) == Value("whole", n, 0, n, 0)
Fraction(n) == Value("fraction", n, 0, n, 0)
SignOf(w) == IF w \in {"int32", "int64"} THEN -1 ELSE 1

Struct == Plain("object")
Texts == {Plain("text")}
IntegerValues == UNION {{Integer(n, SignOf(w)) : n \in Edges(w)} : w \in Widths}
HeadIntegers == {Integer(v.given, -1) : v \in IntegerValues}
Bools == {Plain("bool")}
Reals == {Whole(-1), Fraction(Unit - Half), Fraction(Fine + Half)}

(***************************************************************************)
(* Reading an integer: the low bits, taken as the type that is asked for.  *)
(* Reading a double: what it may be, in small steps; nothing when Get      *)
(* returns false.  By key an integer is turned into a double, which has 53 *)
(* of its bits; by index it is refused.                                    *)
(***************************************************************************)
AsSigned(x, top) == IF x >= top THEN x - 2 * top ELSE x
ReadsInteger(v, w) ==
  CASE w = "int32" -> AsSigned(v.num % (2 * Top), Top)
    [] w = "uint32" -> v.num % (2 * Top)
    [] w = "int64" -> AsSigned(v.num, Top64)
    [] w = "uint64" -> v.num
ToDouble(n) == LET off == n \div DoubleDigits
               IN  {m * Unit : m \in n - off .. n + off}
ReadsDouble(v) ==
  CASE v.kind = "fraction" -> {v.num}
    [] v.kind = "whole" -> {v.num * Unit}
    [] v.kind = "int" /\ kind = "object" -> ToDouble(v.num)
    [] OTHER -> {}

(***************************************************************************)
(* Printing and parsing.  The text of an integer is the number its sign    *)
(* flag makes of the bits.  A double without a fraction is printed without *)
(* one, and is an integer when it is parsed; one with a fraction has six   *)
(* decimals in its text, and parsing may be off by the last bits.  An      *)
(* integer that a long double or 64 bits do not have is "lost": what it is *)
(* when it is parsed is left open.  (-0 is taken as 0.)                    *)
(***************************************************************************)
Nearest(n) == (n + Half) \div Fine
Printed(v) ==
  CASE v.kind = "int" -> IF v.sign = -1 THEN AsSigned(v.num, Top64) ELSE v.num
    [] v.kind = "fraction" -> Nearest(v.num)
    [] OTHER -> v.num
Exact(n) == n \in -Digits .. Digits /\ n \in -Top64 .. 2 * Top64 - 1

BugParsed(n, given, drift) ==
  Value("int", IF n < 0 THEN -n ELSE n, IF n < 0 THEN -1 ELSE 1, given, drift)
Parsed(n, given, drift) ==
  Value("int", Bits(n), IF n < 0 THEN -1 ELSE 1, given, drift)
ParsedFraction(n, given) ==
  IF n % Unit = 0
  THEN Value("whole", n \div Unit, 0, n \div Unit, n - given)
  ELSE Value("fraction", n, 0, given, 0)
Reparsed(v, slip) ==
  CASE v.kind \in {"int", "whole"} ->
         IF Exact(Printed(v)) THEN Parsed(Printed(v), v.given, v.drift)
         ELSE Value("lost", 0, 0, v.given, v.drift)
    [] v.kind = "fraction" -> ParsedFraction(Fine * Printed(v) + slip, v.given)
    [] OTHER -> v

(***************************************************************************)
(* The item lists of cJSON.c.  A key finds the first item with that name.  *)
(***************************************************************************)
FirstOf(k) ==
  LET found == {p \in 1 .. Len(items) : SameKey(items[p].key, k)}
  IN  IF kind = "object" /\ found # {} THEN Min(found) ELSE 0
ItemAt(i) == IF kind # "array" \/ i >= Len(items) THEN 0
             ELSE IF i < 0 THEN (IF items = <<>> THEN 0 ELSE 1) ELSE i + 1

NoKey == <<>>
MemberKeys(k) == CASE k = "object" -> Keys
                   [] k = "array" -> {NoKey}
                   [] OTHER -> {}
Item(k, v) == [key |-> k, val |-> v]
Without(p) == SubSeq(items, 1, p - 1) \o SubSeq(items, p + 1, Len(items))

\* Where the wrappers point after a change of the list.
AfterHead(ref) == [x \in DOMAIN ref |-> IF ref[x] >= 1 THEN ref[x] + 1 ELSE ref[x]]
AfterReplace(ref, p) ==
  [x \in DOMAIN ref |-> IF ref[x] = p THEN Dangling ELSE ref[x]]
AfterRemove(ref, p) ==
  [x \in DOMAIN ref |->
     IF ref[x] = p THEN Dangling
     ELSE IF ref[x] > p THEN ref[x] - 1 ELSE ref[x]]
Drop(ref, S) == Restrict(ref, DOMAIN ref \ S)

(***************************************************************************)
(* What the caller knows: the keys and indices it has looked up with [].   *)
(***************************************************************************)
Present(k) == FirstOf(k) # 0
LookedUp(k) == \E j \in DOMAIN objectRef : SameKey(j, k)
LookedUpAs(k, j) == j \in DOMAIN objectRef /\ j # k /\ SameKey(j, k)
OtherSpelling(k) == \E j \in Keys : LookedUpAs(k, j)

Call == ops < MaxOps /\ ops' = ops + 1
Fits == Len(items) < MaxItems
Focus(new) == IF kind = "none" THEN new ELSE kind

ForgetKeys == keyList' = <<>> /\ at' = 1
KeepKeys == UNCHANGED <<keyList, at>>
KeepRefs == UNCHANGED <<objectRef, arrayRef>>

Init ==
  /\ kind = "none" /\ items = <<>>
  /\ objectRef = <<>> /\ arrayRef = <<>>
  /\ keyList = <<>> /\ at = 1
  /\ careful = TRUE /\ ops = 0

----------------------------------------------------------------------------
(***************************************************************************)
(* Adding under a key.  An object that is not there is created first; in a *)
(* document of another kind nothing is added.                              *)
(***************************************************************************)
AppendMember(k, v) ==
  /\ Fits
  /\ kind' = Focus("object")
  /\ IF kind' = "object" THEN items' = Append(items, Item(k, v)) /\ ForgetKeys
                         ELSE UNCHANGED items /\ KeepKeys

AddScalar(k, v) ==
  /\ Call /\ AppendMember(k, v) /\ KeepRefs
  /\ careful' = (careful /\ ~(kind' = "object" /\ LookedUp(k) /\ ~Present(k)))

BugAddObject(k) ==
  /\ Call /\ AppendMember(k, Struct)
  /\ UNCHANGED <<objectRef, arrayRef>>
  /\ careful' = (careful /\ ~(OtherSpelling(k) /\ ~Present(k)))
AddObject(k) ==
  /\ Call /\ AppendMember(k, Struct)
  /\ objectRef' = IF kind' = "object" THEN Drop(objectRef, {k}) ELSE objectRef
  /\ UNCHANGED arrayRef
  /\ careful' = (careful /\ ~(OtherSpelling(k) /\ ~Present(k)))

\* The text of an empty CJsonObject does not parse: nothing is added, but a
\* document that was missing has been created.
AddNothing(new) ==
  /\ Call /\ kind' = Focus(new)
  /\ UNCHANGED <<items, careful>> /\ KeepRefs /\ KeepKeys

AddText(k) == \E v \in Texts : AddScalar(k, v)
AddInteger(k) == \E v \in IntegerValues : AddScalar(k, v)
AddBool(k) == \E v \in Bools : AddScalar(k, v)
AddReal(k) == \E v \in Reals : AddScalar(k, v)
AddEmptySubObject(k) == AddScalar(k, Plain("object"))
AddEmptySubArray(k) == AddScalar(k, Plain("array"))

(***************************************************************************)
(* Replacing and deleting under a key.  The item takes the spelling of the *)
(* call, and the list of keys is kept.  A call on something absent, or in  *)
(* a document of another kind, returns false and changes nothing: it is no *)
(* step here.                                                              *)
(***************************************************************************)
ReplaceMember(k, v) ==
  /\ Call /\ Present(k)
  /\ items' = [items EXCEPT ![FirstOf(k)] = Item(k, v)]
  /\ UNCHANGED <<kind, arrayRef>> /\ KeepKeys
Respells(k) == keyList # <<>> /\ items[FirstOf(k)].key # k

ReplaceScalar(k, v) ==
  /\ ReplaceMember(k, v)
  /\ objectRef' = AfterReplace(objectRef, FirstOf(k))
  /\ careful' = (careful /\ ~LookedUp(k) /\ ~Respells(k))

ReplaceObject(k) ==
  /\ ReplaceMember(k, Struct)
  /\ objectRef' = Drop(AfterReplace(objectRef, FirstOf(k)), {k})
  /\ careful' = (careful /\ ~OtherSpelling(k) /\ ~Respells(k))

ReplaceText(k) == \E v \in Texts : ReplaceScalar(k, v)
ReplaceInteger(k) == \E v \in IntegerValues : ReplaceScalar(k, v)
ReplaceBool(k) == \E v \in Bools : ReplaceScalar(k, v)
ReplaceReal(k) == \E v \in Reals : ReplaceScalar(k, v)

BugDeleteKey(k) ==
  /\ Call /\ kind = "object"
  /\ IF Present(k)
     THEN /\ items' = Without(FirstOf(k))
          /\ objectRef' = Drop(AfterRemove(objectRef, FirstOf(k)), {k})
     ELSE /\ UNCHANGED items
          /\ objectRef' = Drop(objectRef, {k})
  /\ KeepKeys /\ UNCHANGED <<kind, arrayRef>>
  /\ careful' = (careful /\ ~(Present(k) /\ OtherSpelling(k)))
DeleteKey(k) ==
  /\ Call /\ kind = "object"
  /\ IF Present(k)
     THEN /\ items' = Without(FirstOf(k))
          /\ objectRef' = Drop(AfterRemove(objectRef, FirstOf(k)), {k})
     ELSE /\ UNCHANGED items
          /\ objectRef' = Drop(objectRef, {k})
  /\ ForgetKeys /\ UNCHANGED <<kind, arrayRef>>
  /\ careful' = (careful /\ ~(Present(k) /\ OtherSpelling(k)))

----------------------------------------------------------------------------
(***************************************************************************)
(* The same for an array, at its end, at its head and at an index.  An     *)
(* index below zero means the first item, but to the wrappers it is one    *)
(* that is larger than any of theirs.                                      *)
(***************************************************************************)
Grown(v, i) ==
  /\ Fits
  /\ kind' = Focus("array")
  /\ items' = IF kind' # "array" THEN items
              ELSE IF i = 0 THEN <<Item(NoKey, v)>> \o items
              ELSE Append(items, Item(NoKey, v))
  /\ UNCHANGED objectRef /\ KeepKeys

AppendScalar(v) ==
  /\ Call /\ Grown(v, -1) /\ UNCHANGED arrayRef
  /\ careful' = (careful /\ ~(kind' = "array" /\ Len(items) \in DOMAIN arrayRef))
AppendObject ==
  /\ Call /\ Grown(Struct, -1)
  /\ arrayRef' = IF kind' # "array" THEN arrayRef
                 ELSE Drop(arrayRef, {i \in Indices : i >= Len(items)})
  /\ UNCHANGED careful
AppendText == \E v \in Texts : AppendScalar(v)
AppendInteger == \E v \in IntegerValues : AppendScalar(v)
AppendBool == \E v \in Bools : AppendScalar(v)
AppendReal == \E v \in Reals : AppendScalar(v)

PushScalar(v) ==
  /\ Call /\ Grown(v, 0)
  /\ arrayRef' = IF kind' = "array" THEN AfterHead(arrayRef) ELSE arrayRef
  /\ careful' = (careful /\ ~(kind' = "array" /\ DOMAIN arrayRef # {}))
PushObject ==
  /\ Call /\ Grown(Struct, 0)
  /\ arrayRef' = IF kind' = "array" THEN <<>> ELSE arrayRef
  /\ UNCHANGED careful
PushText == \E v \in Texts : PushScalar(v)
PushInteger == \E v \in HeadIntegers : PushScalar(v)
PushBool == \E v \in Bools : PushScalar(v)
PushReal == \E v \in Reals : PushScalar(v)

ReplaceItem(i, v) ==
  /\ Call /\ ItemAt(i) # 0
  /\ items' = [items EXCEPT ![ItemAt(i)] = Item(NoKey, v)]
  /\ UNCHANGED <<kind, objectRef>> /\ KeepKeys
SetScalar(i, v) ==
  /\ ReplaceItem(i, v)
  /\ arrayRef' = AfterReplace(arrayRef, ItemAt(i))
  /\ careful' = (careful /\ ItemAt(i) - 1 \notin DOMAIN arrayRef)
SetObject(i) ==
  /\ ReplaceItem(i, Struct)
  /\ arrayRef' = Drop(AfterReplace(arrayRef, ItemAt(i)), {i})
  /\ careful' = (careful /\ ~(i < 0 /\ 0 \in DOMAIN arrayRef))
SetText(i) == \E v \in Texts : SetScalar(i, v)
SetInteger(i) == \E v \in IntegerValues : SetScalar(i, v)
SetBool(i) == \E v \in Bools : SetScalar(i, v)
SetReal(i) == \E v \in Reals : SetScalar(i, v)

DeleteIndex(i) ==
  /\ Call /\ kind = "array"
  /\ IF ItemAt(i) # 0
     THEN /\ items' = Without(ItemAt(i))
          /\ arrayRef' = Drop(AfterRemove(arrayRef, ItemAt(i)),
                              {x \in Indices : i >= 0 /\ x >= i})
     ELSE /\ UNCHANGED items
          /\ arrayRef' = Drop(arrayRef, {x \in Indices : i >= 0 /\ x >= i})
  /\ UNCHANGED <<kind, objectRef>> /\ KeepKeys
  /\ careful' = (careful /\ ~(i < 0 /\ DOMAIN arrayRef # {}))

----------------------------------------------------------------------------
(***************************************************************************)
(* Looking up.  A key or index that is missing gets a wrapper too, of      *)
(* nothing.  obj["k"] = other parses into the wrapper, which lets go of    *)
(* the document.                                                           *)
(***************************************************************************)
RefKey(k) ==
  /\ Call
  /\ k \notin DOMAIN objectRef
  /\ objectRef' = [j \in DOMAIN objectRef \cup {k} |->
                     IF j = k THEN FirstOf(k) ELSE objectRef[j]]
  /\ UNCHANGED <<kind, items, arrayRef, careful>> /\ KeepKeys

RefIndex(i) ==
  /\ Call
  /\ i \notin DOMAIN arrayRef
  /\ arrayRef' = [j \in DOMAIN arrayRef \cup {i} |->
                    IF j = i THEN ItemAt(i) ELSE arrayRef[j]]
  /\ UNCHANGED <<kind, items, objectRef, careful>> /\ KeepKeys

AssignRef(k) ==
  /\ Call
  /\ objectRef' = [j \in DOMAIN objectRef \cup {k} |->
                     IF j = k THEN Orphan ELSE objectRef[j]]
  /\ careful' = (careful /\ ~Present(k))
  /\ UNCHANGED <<kind, items, arrayRef>> /\ KeepKeys

GetKey ==
  /\ Call
  /\ kind \notin {"none", "array"}
  /\ LET list == IF keyList # <<>> THEN keyList
                 ELSE IF kind = "object" THEN [p \in DOMAIN items |-> items[p].key]
                 ELSE <<>>
         pos  == IF keyList # <<>> THEN at ELSE 1
     IN  /\ keyList' = list
         /\ at' = IF pos > Len(list) THEN 1 ELSE pos + 1
  /\ UNCHANGED <<kind, items, careful>> /\ KeepRefs

(***************************************************************************)
(* Clear and Parse.  A copy is the text of the original, parsed.           *)
(***************************************************************************)
Clear ==
  /\ objectRef' = <<>> /\ arrayRef' = <<>> /\ ForgetKeys
  /\ careful' = TRUE
Parse ==
  \E k \in {"none", "object", "array", "scalar"} :
    /\ Call /\ Clear
    /\ kind' = k
    /\ \E n \in 0 .. MaxItems :
         items' \in [1 .. n -> {Item(j, Plain("null")) : j \in MemberKeys(k)}]
Copy ==
  /\ Call /\ Clear
  /\ \E slip \in [DOMAIN items -> -Slip .. Slip] :
       items' = [p \in DOMAIN items |->
                   Item(items[p].key, Reparsed(items[p].val, slip[p]))]
  /\ UNCHANGED kind

----------------------------------------------------------------------------
ByKey(k) ==
  \/ AddObject(k) \/ AddText(k) \/ AddInteger(k) \/ AddBool(k) \/ AddReal(k)
  \/ AddEmptySubObject(k) \/ AddEmptySubArray(k)
  \/ ReplaceObject(k) \/ ReplaceText(k) \/ ReplaceInteger(k)
  \/ ReplaceBool(k) \/ ReplaceReal(k) \/ DeleteKey(k)
  \/ RefKey(k) \/ AssignRef(k)
AtEnds ==
  \/ AppendObject \/ AppendText \/ AppendInteger \/ AppendBool \/ AppendReal
  \/ PushObject \/ PushText \/ PushInteger \/ PushBool \/ PushReal
ByIndex(i) ==
  \/ SetObject(i) \/ SetText(i) \/ SetInteger(i) \/ SetBool(i) \/ SetReal(i)
  \/ DeleteIndex(i)

Next ==
  \/ \E k \in Keys : ByKey(k)
  \/ AtEnds
  \/ \E i \in Indices \cup {-1} : ByIndex(i)
  \/ \E i \in Indices : RefIndex(i)
  \/ \E new \in {"object", "array"} : AddNothing(new)
  \/ GetKey \/ Parse \/ Copy

Spec == Init /\ [][Next]_vars

----------------------------------------------------------------------------
TypeOK ==
  /\ kind \in {"none", "object", "array", "scalar"}
  /\ \A p \in DOMAIN items :
       /\ items[p].key \in MemberKeys(kind)
       /\ items[p].val.kind = "int" => items[p].val.num \in 0 .. Greatest("uint64")
  /\ DOMAIN objectRef \subseteq Keys /\ DOMAIN arrayRef \subseteq Indices
  /\ \A k \in DOMAIN objectRef : objectRef[k] \in Dangling .. Len(items)
  /\ \A i \in DOMAIN arrayRef : arrayRef[i] \in Dangling .. Len(items)
  /\ at \in 1 .. Len(keyList) + 1
  /\ careful \in BOOLEAN

(***************************************************************************)
(* As long as the caller changes nothing that it has looked up other than  *)
(* to another CJsonObject, in the spelling of the lookup and at an index   *)
(* that is not negative, every wrapper is of the item that its key or      *)
(* index names, or of nothing when there is none: what is read or changed  *)
(* through obj["k"] and obj[i] is the document, and never freed memory.    *)
(***************************************************************************)
WrappersCurrent ==
  careful =>
    /\ \A k \in DOMAIN objectRef : objectRef[k] = FirstOf(k)
    /\ \A i \in DOMAIN arrayRef : arrayRef[i] = ItemAt(i)

(***************************************************************************)
(* Going through the keys with GetKey while members come and go names the  *)
(* members that the object has: the list it goes through is never one of   *)
(* an earlier time, unless a member was replaced under another spelling.   *)
(***************************************************************************)
KeysCurrent ==
  careful /\ keyList # <<>> =>
    keyList = [p \in DOMAIN items |-> items[p].key]

(***************************************************************************)
(* However a number got into the document, by whatever type, at the end,   *)
(* the head or in place of another, and however often the document was     *)
(* copied by way of its text: an integer is read as it was given by every  *)
(* integer type that can hold it, and by key as a double, unless it is     *)
(* negative or beyond 53 bits; the text shows it, but for one beyond int64 *)
(* that was put at the head.  A double with a fraction is off by no more   *)
(* than the one rounding to six decimals, and is that far from a whole     *)
(* number or integer it may become.  A copy loses the integers that a long *)
(* double does not have, and no others.                                    *)
(***************************************************************************)
Near(m, n) == m - n \in -(Half + Slip) .. Half + Slip
NumbersKept ==
  \A p \in DOMAIN items :
    LET v == items[p].val
    IN  /\ v.kind = "int" =>
             /\ \A w \in Widths :
                  v.given \in Least(w) .. Greatest(w) => ReadsInteger(v, w) = v.given
             /\ kind = "object" /\ v.given \in 0 .. DoubleDigits - 1 =>
                  ReadsDouble(v) = {v.given * Unit}
        /\ v.kind = "whole" => ReadsDouble(v) = {v.given * Unit}
        /\ v.kind = "fraction" =>
             Near(v.num, v.given) /\ Printed(v) = Nearest(v.given)
        /\ v.kind \in {"int", "whole"} =>
             \/ v.sign = -1 /\ v.given > Greatest("int64")
             \/ Printed(v) = v.given
        /\ Near(v.drift, 0)
        /\ v.kind = "lost" => ~Exact(v.given)
=============================================================================
