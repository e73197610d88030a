-------------------------- MODULE SimAccessProofs --------------------------
(***************************************************************************)
(* Proofs about the access to the SIM slots (SimAccess), for any number of *)
(* callers, operations and unanswered commands.                            *)
(***************************************************************************)
EXTENDS SimAccess, TLAPS

Names == {"remember", "enter", "select", "require", "read", "ids", "device",
          "restore", "reselect", "leave", "back", "ask", "choose"}
Steps == [do : Names, of : {0, 1}, n : {1, 2}]
Operations == [todo : Seq(Steps), outer : {Unknown, 0, 1}, inner : {Unknown, 0, 1},
               blind : BOOLEAN]

(***************************************************************************)
(* Two operations are under way only if they overlapped; during one that   *)
(* is alone the interface stays initialized, and so keeps what it knows of *)
(* the module.                                                             *)
(***************************************************************************)
AloneInv ==
  /\ alone => \A c, d \in Callers : Resting(c) \/ Resting(d) \/ c = d
  /\ alone => \A c \in Callers : Resting(c) \/ initialized
  /\ connected => initialized
  /\ supported => twoSlots
  /\ steady => alone

(***************************************************************************)
(* What is still to do of an operation.  A query that is not the next      *)
(* command comes right after the selection of its slot, and a selection    *)
(* right before a query.  The last command says which operation it is; a   *)
(* last question comes after the way back.                                 *)
(***************************************************************************)
Selecting == {"enter", "select", "require"}
Before(last) ==
  CASE last = "restore" -> {"remember", "enter", "select", "read", "leave", "back"}
    [] last = "reselect" -> {"remember", "require", "read"}
    [] last = "leave" -> {"enter", "select", "read"}
    [] last = "ids" -> {"read"}
    [] last = "ask" -> {"remember", "select", "read", "restore"}
    [] OTHER -> {}

ReadAfterSelect(t) ==
  \A i \in DOMAIN t : t[i].do = "read" /\ i # 1 =>
    t[i - 1].do \in Selecting /\ t[i - 1].of = t[i].of

SelectThenRead(t) ==
  \A i \in DOMAIN t : t[i].do \in Selecting =>
    i + 1 \in DOMAIN t /\ t[i + 1].do = "read"

Last(t) == t[Len(t)]
Shaped(t) ==
  t # <<>> =>
    /\ Last(t).do \notin {"remember", "enter", "select", "require"}
    /\ \A i \in DOMAIN t : i # Len(t) => t[i].do \in Before(Last(t).do)
    /\ \A i \in DOMAIN t : i # 1 => t[i].do # "remember"
    /\ Last(t).do = "leave" => \A i \in DOMAIN t : i # 1 => t[i].do # "enter"
    /\ Last(t).do = "reselect" =>
         /\ \A i \in DOMAIN t : t[i].of = Last(t).of
         /\ Len(t) = 1 \/ t[Len(t) - 1].do = "read"
    /\ Last(t).do = "ask" => Len(t) = 1 \/ t[Len(t) - 1].do = "restore"

Fit(t) ==
  /\ ReadAfterSelect(t)
  /\ SelectThenRead(t)
  /\ Shaped(t)
  /\ \A i \in DOMAIN t : t[i].of \in Slots

TodoInv == \A c \in Callers : Fit(op[c].todo)

\* SimSlotGuard knows the slot that it has to go back to, once it has asked.
Entered(t, inner) ==
  \A i \in DOMAIN t :
    t[i].do = "leave" /\ (\A j \in DOMAIN t : j < i => t[j].do # "enter")
      => inner \in Slots

GuardInv ==
  \A c \in Callers : /\ op[c].outer \in Slots \cup {Unknown}
                     /\ op[c].inner \in Slots \cup {Unknown}
                     /\ Entered(op[c].todo, op[c].inner)

(***************************************************************************)
(* The slot that a query finds selected, and the one that the operation    *)
(* goes back to.                                                           *)
(***************************************************************************)
ReadInv ==
  alone /\ supported = twoSlots =>
    \A c \in Callers : At(c, "read") /\ (Now(c).of = 0 => ~op[c].blind)
                         => slot = Now(c).of

Way(t, outer, inner, on, to) ==
  /\ Last(t).do = "restore" => IF t[1].do = "remember" THEN on = to ELSE outer = to
  /\ Last(t).do = "reselect" =>
       IF t[1].do = "remember" THEN on = to
       ELSE outer = to /\ (t[1].do = "require" \/ on = Last(t).of)
  /\ Last(t).do = "leave" => IF t[1].do = "enter" THEN on = to ELSE inner = to
  /\ Last(t).do = "ask" => IF t[1].do \in {"remember", "ask"} THEN on = to ELSE outer = to
  /\ Last(t).do = "back" => Last(t).of = to
  /\ Last(t).do \in {"read", "ids", "device"} => on = to

BackInv ==
  steady => /\ \A c \in Callers : ~Resting(c) =>
                 Way(op[c].todo, op[c].outer, op[c].inner, slot, home)
            /\ (\A c \in Callers : Resting(c)) => slot = home

\* Identities are read only while there are none, and so is the device.
OnceInv ==
  alone => \A c \in Callers : \A i \in DOMAIN op[c].todo :
             /\ op[c].todo[i].do = "ids" => ids = "none"
             /\ op[c].todo[i].do = "device" => device = "none"
-----------------------------------------------------------------------------
(* Operations as sequences of commands *)

\* The parts of a program, index by index.
LEMMA TodoIndex ==
  ASSUME NEW t \in Seq(Steps)
  PROVE  /\ Len(t) \in Nat /\ DOMAIN t = 1 .. Len(t)
         /\ \A i \in DOMAIN t : i \in Nat /\ t[i] \in Steps
         /\ t # <<>> => /\ Len(t) >= 1 /\ 1 \in DOMAIN t /\ Len(t) \in DOMAIN t
                        /\ Head(t) = t[1]
OBVIOUS

LEMMA TodoTail ==
  ASSUME NEW t \in Seq(Steps), t # <<>>, NEW r, r = Tail(t)
  PROVE  /\ r \in Seq(Steps) /\ Len(r) = Len(t) - 1
         /\ \A i \in DOMAIN r : i + 1 \in DOMAIN t /\ i + 1 # 1 /\ r[i] = t[i + 1]
         /\ r # <<>> => Last(r) = Last(t) /\ Len(t) > 1
         /\ r = <<>> => Len(t) = 1 /\ Last(t) = t[1]
<1>1. /\ r \in Seq(Steps) /\ Len(r) = Len(t) - 1 /\ Len(t) \in Nat
      /\ \A i \in DOMAIN r : i + 1 \in DOMAIN t /\ i + 1 # 1 /\ r[i] = t[i + 1]
  OBVIOUS
<1>2. r # <<>> => Len(r) >= 1 /\ Len(r) \in DOMAIN r
  BY <1>1, TodoIndex
<1>3. r = <<>> => Len(r) = 0
  OBVIOUS
<1> QED
  BY <1>1, <1>2, <1>3 DEF Last

\* The next command replaced by another.
Instead(x, t) == <<x>> \o Tail(t)
LEMMA TodoReplaced ==
  \A t \in Seq(Steps), x \in Steps : t # <<>> =>
    /\ Instead(x, t) \in Seq(Steps) /\ Len(Instead(x, t)) = Len(t) /\ Instead(x, t) # <<>>
    /\ DOMAIN Instead(x, t) = DOMAIN t
    /\ Instead(x, t)[1] = x
    /\ \A i \in DOMAIN t : i # 1 => Instead(x, t)[i] = t[i]
    /\ Len(t) > 1 => Last(Instead(x, t)) = Last(t)
    /\ Len(t) = 1 => Last(Instead(x, t)) = x
<1> SUFFICES ASSUME NEW t \in Seq(Steps), NEW x \in Steps, t # <<>>
             PROVE  /\ Instead(x, t) \in Seq(Steps) /\ Len(Instead(x, t)) = Len(t)
                    /\ Instead(x, t) # <<>>
                    /\ DOMAIN Instead(x, t) = DOMAIN t
                    /\ Instead(x, t)[1] = x
                    /\ \A i \in DOMAIN t : i # 1 => Instead(x, t)[i] = t[i]
                    /\ Len(t) > 1 => Last(Instead(x, t)) = Last(t)
                    /\ Len(t) = 1 => Last(Instead(x, t)) = x
  OBVIOUS
<1> DEFINE r == Instead(x, t)
<1>1. Tail(t) \in Seq(Steps) /\ Len(Tail(t)) = Len(t) - 1 /\ Len(t) \in Nat /\ Len(t) >= 1
  BY TodoIndex, TodoTail
<1>2. <<x>> \in Seq(Steps) /\ Len(<<x>>) = 1
  OBVIOUS
<1>3. r \in Seq(Steps) /\ Len(r) = Len(t)
  BY <1>1, <1>2 DEF Instead
<1>4. r[1] = x
  BY <1>1, <1>2 DEF Instead
<1>5. \A i \in DOMAIN t : i # 1 => r[i] = t[i]
  BY <1>1, <1>2 DEF Instead
<1> QED
  BY <1>1, <1>3, <1>4, <1>5 DEF Last

\* After the next command the rest fits, and begins with a query only after a
\* selection.
LEMMA FitTail ==
  ASSUME NEW t \in Seq(Steps), t # <<>>, Fit(t), NEW r, r = Tail(t)
  PROVE  /\ Fit(r)
         /\ r # <<>> /\ r[1].do = "read" => t[1].do \in Selecting /\ t[1].of = r[1].of
<1>1. /\ r \in Seq(Steps) /\ Len(r) = Len(t) - 1 /\ Len(t) \in Nat
      /\ \A i \in DOMAIN r : i \in Nat /\ i + 1 \in DOMAIN t /\ i + 1 # 1 /\ r[i] = t[i + 1]
      /\ r # <<>> => Last(r) = Last(t) /\ Len(t) > 1 /\ 1 \in DOMAIN r
  BY TodoTail, TodoIndex
<1>2. \A i \in DOMAIN r : i # 1 => i - 1 \in DOMAIN r /\ (i + 1) - 1 = i /\ r[i - 1] = t[i]
  BY <1>1, TodoIndex
<1>3. ReadAfterSelect(r)
  BY <1>1, <1>2 DEF ReadAfterSelect, Fit
<1>4. r # <<>> => /\ \A i \in DOMAIN r : i # Len(r) => i + 1 # Len(t)
                  /\ Len(r) = 1 \/ (Len(r) - 1 \in DOMAIN r /\ r[Len(r) - 1] = t[Len(t) - 1])
  <2> SUFFICES ASSUME r # <<>>
               PROVE  /\ \A i \in DOMAIN r : i # Len(r) => i + 1 # Len(t)
                      /\ Len(r) = 1 \/ (Len(r) - 1 \in DOMAIN r
                                        /\ r[Len(r) - 1] = t[Len(t) - 1])
    OBVIOUS
  <2>1. DOMAIN r = 1 .. Len(r) /\ Len(r) >= 1 /\ Len(r) \in Nat
    BY <1>1, TodoIndex
  <2>2. \A i \in DOMAIN r : i # Len(r) => i + 1 # Len(t)
    BY <1>1, <2>1
  <2>3. CASE Len(r) # 1
    <3>1. Len(r) - 1 \in DOMAIN r /\ (Len(r) - 1) + 1 = Len(t) - 1
      BY <1>1, <2>1, <2>3
    <3> QED
      BY <1>1, <2>2, <3>1
  <2> QED
    BY <2>2, <2>3
<1>5. Shaped(r)
  <2> SUFFICES ASSUME r # <<>> PROVE Shaped(r)
    BY DEF Shaped
  <2>1. Shaped(t) /\ Last(r) = Last(t) /\ Len(t) # 1
    BY <1>1 DEF Fit
  <2>2. \A i \in DOMAIN r : i # Len(r) => r[i].do \in Before(Last(r).do)
    BY <1>1, <1>4, <2>1 DEF Shaped
  <2>3. /\ Last(r).do \notin {"remember", "enter", "select", "require"}
        /\ \A i \in DOMAIN r : i # 1 => r[i].do # "remember"
        /\ Last(r).do = "leave" => \A i \in DOMAIN r : i # 1 => r[i].do # "enter"
    BY <1>1, <2>1 DEF Shaped
  <2>4. Last(r).do = "reselect" =>
          /\ \A i \in DOMAIN r : r[i].of = Last(r).of
          /\ Len(r) = 1 \/ r[Len(r) - 1].do = "read"
    BY <1>1, <1>4, <2>1 DEF Shaped
  <2>5. Last(r).do = "ask" => Len(r) = 1 \/ r[Len(r) - 1].do = "restore"
    BY <1>1, <1>4, <2>1 DEF Shaped
  <2> QED
    BY <2>2, <2>3, <2>4, <2>5 DEF Shaped
<1>6. \A i \in DOMAIN r : r[i].of \in Slots
  BY <1>1 DEF Fit
<1>7. SelectThenRead(r)
  <2> SUFFICES ASSUME NEW i \in DOMAIN r, r[i].do \in Selecting
               PROVE  i + 1 \in DOMAIN r /\ r[i + 1].do = "read"
    BY DEF SelectThenRead
  <2>1. i + 1 \in DOMAIN t /\ (i + 1) + 1 \in DOMAIN t /\ t[(i + 1) + 1].do = "read"
    BY <1>1 DEF Fit, SelectThenRead
  <2>2. DOMAIN t = 1 .. Len(t) /\ DOMAIN r = 1 .. Len(r) /\ Len(r) \in Nat
    BY <1>1, TodoIndex
  <2>3. i + 1 \in DOMAIN r
    BY <1>1, <2>1, <2>2
  <2> QED
    BY <1>1, <2>1, <2>3
<1>8. r # <<>> /\ r[1].do = "read" => t[1].do \in Selecting /\ t[1].of = r[1].of
  <2> SUFFICES ASSUME r # <<>>, r[1].do = "read" PROVE t[1].do \in Selecting /\ t[1].of = r[1].of
    OBVIOUS
  <2>1. 1 + 1 \in DOMAIN t /\ r[1] = t[1 + 1] /\ (1 + 1) - 1 = 1 /\ 1 + 1 # 1
    BY <1>1
  <2> QED
    BY <2>1 DEF Fit, ReadAfterSelect
<1> QED
  BY <1>3, <1>5, <1>6, <1>7, <1>8 DEF Fit

\* A second try, a selection after the question, a selection back.
LEMMA FitReplaced ==
  ASSUME NEW t \in Seq(Steps), t # <<>>, Fit(t), NEW x \in Steps, x.of \in Slots,
         \/ t[1].do = "read" /\ x.do = "read" /\ x.of = t[1].of
         \/ t[1].do = "enter" /\ x.do = "select" /\ x.of = t[1].of
         \/ t[1].do = "leave" /\ x.do = "back",
         NEW r, r = Instead(x, t)
  PROVE  Fit(r)
<1>1. /\ r \in Seq(Steps) /\ Len(r) = Len(t) /\ r # <<>> /\ DOMAIN r = DOMAIN t
      /\ r[1] = x
      /\ \A i \in DOMAIN t : i # 1 => r[i] = t[i]
      /\ Len(t) > 1 => Last(r) = Last(t)
      /\ Len(t) = 1 => Last(r) = x
  BY TodoReplaced
<1>2. Len(t) \in Nat /\ Len(t) >= 1 /\ DOMAIN t = 1 .. Len(t) /\ 1 \in DOMAIN t
  BY TodoIndex
<1>3. ReadAfterSelect(r)
  <2> SUFFICES ASSUME NEW i \in DOMAIN r, r[i].do = "read", i # 1
               PROVE  r[i - 1].do \in Selecting /\ r[i - 1].of = r[i].of
    BY DEF ReadAfterSelect
  <2>1. r[i] = t[i] /\ t[i - 1].do \in Selecting /\ t[i - 1].of = t[i].of
    BY <1>1 DEF Fit, ReadAfterSelect
  <2>2. CASE i - 1 = 1
    BY <1>1, <2>1, <2>2 DEF Selecting
  <2>3. CASE i - 1 # 1
    <3>1. i - 1 \in DOMAIN t
      BY <1>1, <1>2, <2>3
    <3> QED
      BY <1>1, <2>1, <2>3, <3>1
  <2> QED
    BY <2>2, <2>3
<1>4. Shaped(r)
  <2>1. Shaped(t)
    BY DEF Fit
  <2>2. CASE Len(t) = 1
    <3>1. Last(t) = t[1] /\ t[1].do # "enter" /\ Last(r) = x /\ Len(r) = 1
      BY <1>1, <2>1, <2>2 DEF Shaped, Last
    <3>2. x.do \in {"read", "back"} /\ \A i \in DOMAIN r : i = 1
      BY <1>1, <1>2, <2>2, <3>1
    <3> QED
      BY <3>1, <3>2 DEF Shaped
  <2>3. CASE Len(t) > 1
    <3>1. Last(r) = Last(t) /\ t[1].do \in Before(Last(t).do)
      BY <1>1, <1>2, <2>1, <2>3 DEF Shaped
    <3>2. x.do \in Before(Last(t).do)
      BY <3>1 DEF Before
    <3>3. t[1].do \in {"enter", "leave"} => Last(t).do # "reselect"
      BY <3>1 DEF Before
    <3>4. \A i \in DOMAIN r : i # Len(r) => r[i].do \in Before(Last(r).do)
      BY <1>1, <2>1, <3>1, <3>2 DEF Shaped
    <3>5. /\ Last(r).do \notin {"remember", "enter", "select", "require"}
          /\ \A i \in DOMAIN r : i # 1 => r[i].do # "remember"
          /\ Last(r).do = "leave" => \A i \in DOMAIN r : i # 1 => r[i].do # "enter"
      BY <1>1, <2>1, <3>1 DEF Shaped
    <3>6. ASSUME Last(r).do = "reselect"
          PROVE  /\ \A i \in DOMAIN r : r[i].of = Last(r).of
                 /\ Len(r) = 1 \/ r[Len(r) - 1].do = "read"
      <4>1. x.do = "read" /\ x.of = t[1].of
        BY <3>1, <3>3, <3>6
      <4>2. \A i \in DOMAIN r : r[i].of = t[i].of
        BY <1>1, <4>1
      <4>3. t[Len(t) - 1].do = "read" /\ \A i \in DOMAIN t : t[i].of = Last(t).of
        BY <2>1, <2>3, <3>1, <3>6 DEF Shaped
      <4>4. r[Len(r) - 1].do = "read"
        BY <1>1, <1>2, <2>3, <4>1, <4>3
      <4> QED
        BY <1>1, <3>1, <4>2, <4>3, <4>4
    <3>7. ASSUME Last(r).do = "ask"
          PROVE  r[Len(r) - 1].do = "restore"
      <4>1. t[Len(t) - 1].do = "restore" /\ t[1].do # "restore"
        BY <2>1, <2>3, <3>1, <3>7 DEF Shaped
      <4>2. Len(t) - 1 \in DOMAIN t /\ Len(t) - 1 # 1
        BY <1>2, <2>3, <4>1
      <4> QED
        BY <1>1, <4>1, <4>2
    <3> QED
      BY <3>4, <3>5, <3>6, <3>7 DEF Shaped
  <2> QED
    BY <1>2, <2>2, <2>3
<1>5. \A i \in DOMAIN r : r[i].of \in Slots
  BY <1>1 DEF Fit
<1>6. SelectThenRead(r)
  <2> SUFFICES ASSUME NEW i \in DOMAIN r, r[i].do \in Selecting
               PROVE  i + 1 \in DOMAIN r /\ r[i + 1].do = "read"
    BY DEF SelectThenRead
  <2>1. t[i].do \in Selecting
    BY <1>1 DEF Selecting
  <2>2. i + 1 \in DOMAIN t /\ t[i + 1].do = "read"
    BY <1>1, <2>1 DEF Fit, SelectThenRead
  <2>3. i + 1 # 1
    BY <1>1, <1>2
  <2> QED
    BY <1>1, <2>2, <2>3
<1> QED
  BY <1>3, <1>4, <1>5, <1>6 DEF Fit

\* Nothing left fits.
LEMMA FitEmpty == <<>> \in Seq(Steps) /\ Fit(<<>>)
BY DEF Fit, ReadAfterSelect, SelectThenRead, Shaped

-----------------------------------------------------------------------------
(* The programs of the operations *)

\* An operation that changes the slot begins by asking for the active one.
Asks(t) ==
  t # <<>> => /\ Last(t).do \in {"restore", "reselect"} => t[1].do = "remember"
              /\ Last(t).do = "ask" => t[1].do \in {"remember", "ask"}
              /\ Last(t).do = "leave" => t[1].do = "enter"
              /\ Last(t).do # "back"
              /\ \A i \in DOMAIN t : t[i].do = "leave" =>
                   \E j \in DOMAIN t : j < i /\ t[j].do = "enter"
Program(t) == t \in Seq(Steps) /\ Fit(t) /\ Asks(t)

LEMMA StepTypes ==
  ASSUME NEW x \in Slots, NEW n \in {1, 2}
  PROVE  /\ Read(n, x) \in Steps /\ Read(n, x).do = "read" /\ Read(n, x).of = x
         /\ \A name \in Names : /\ Step(name, x) \in Steps
                                /\ Step(name, x).do = name /\ Step(name, x).of = x
BY DEF Read, Step, Steps, Slots, Names

\* What an operation of one command, or of none, asks for.
Does(t, names) == \A i \in DOMAIN t : t[i].do \in names

LEMMA ShortPrograms ==
  ASSUME NEW x \in Slots, NEW n \in {1, 2}
  PROVE  /\ Program(<<>>) /\ Does(<<>>, {})
         /\ Program(<<Read(n, x)>>) /\ Does(<<Read(n, x)>>, {"read"})
         /\ <<Read(n, x)>>[1].of = x
         /\ Program(<<Step("device", x)>>) /\ Does(<<Step("device", x)>>, {"device"})
         /\ Program(<<Step("choose", x)>>) /\ Does(<<Step("choose", x)>>, {"choose"})
         /\ Program(<<Step("ask", x)>>) /\ Does(<<Step("ask", x)>>, {"ask"})
         /\ Program(<<Read(n, x), Step("ids", x)>>)
         /\ Does(<<Read(n, x), Step("ids", x)>>, {"read", "ids"})
         /\ <<Read(n, x), Step("ids", x)>>[1].of = x
<1>1. Program(<<>>) /\ Does(<<>>, {})
  BY FitEmpty DEF Program, Asks, Does
<1>2. ASSUME NEW s \in Steps, s.do \in {"read", "device", "choose", "ask"}, s.of \in Slots
      PROVE  Program(<<s>>) /\ Does(<<s>>, {s.do}) /\ <<s>>[1] = s
  <2>1. /\ <<s>> \in Seq(Steps) /\ Len(<<s>>) = 1 /\ DOMAIN <<s>> = {1} /\ <<s>>[1] = s
        /\ <<s>> # <<>> /\ Last(<<s>>) = s
    BY <1>2 DEF Last
  <2>2. Fit(<<s>>)
    BY <1>2, <2>1 DEF Fit, ReadAfterSelect, SelectThenRead, Shaped, Selecting
  <2> QED
    BY <1>2, <2>1, <2>2 DEF Program, Asks, Does
<1>3. /\ Program(<<Read(n, x), Step("ids", x)>>)
      /\ Does(<<Read(n, x), Step("ids", x)>>, {"read", "ids"})
      /\ <<Read(n, x), Step("ids", x)>>[1].of = x
  <2> DEFINE a == Read(n, x)
             b == Step("ids", x)
             t == <<a, b>>
  <2>1. /\ a \in Steps /\ a.do = "read" /\ a.of = x
        /\ b \in Steps /\ b.do = "ids" /\ b.of = x
    BY StepTypes DEF Names
  <2> HIDE DEF a, b
  <2>2. /\ t \in Seq(Steps) /\ Len(t) = 2 /\ DOMAIN t = {1, 2} /\ t[1] = a /\ t[2] = b
        /\ t # <<>> /\ Last(t) = b
    BY <2>1 DEF Last
  <2> HIDE DEF t
  <2>3. Fit(t)
    BY <2>1, <2>2 DEF Fit, ReadAfterSelect, SelectThenRead, Shaped, Before, Selecting
  <2>4. Program(t) /\ Does(t, {"read", "ids"}) /\ t[1].of = x
    BY <2>1, <2>2, <2>3 DEF Program, Asks, Does
  <2> QED
    BY <2>4 DEF t, a, b
<1>4. /\ Read(n, x) \in Steps /\ Read(n, x).do = "read" /\ Read(n, x).of = x
      /\ Step("device", x) \in Steps /\ Step("device", x).do = "device"
      /\ Step("device", x).of = x
      /\ Step("choose", x) \in Steps /\ Step("choose", x).do = "choose"
      /\ Step("choose", x).of = x
      /\ Step("ask", x) \in Steps /\ Step("ask", x).do = "ask"
      /\ Step("ask", x).of = x
  BY StepTypes DEF Names
<1>5. /\ Program(<<Read(n, x)>>) /\ Does(<<Read(n, x)>>, {"read"})
      /\ <<Read(n, x)>>[1].of = x
  BY <1>2, <1>4
<1>6. Program(<<Step("device", x)>>) /\ Does(<<Step("device", x)>>, {"device"})
  BY <1>2, <1>4
<1>7. Program(<<Step("choose", x)>>) /\ Does(<<Step("choose", x)>>, {"choose"})
  BY <1>2, <1>4
<1>8. Program(<<Step("ask", x)>>) /\ Does(<<Step("ask", x)>>, {"ask"})
  BY <1>2, <1>4
<1> QED
  BY <1>1, <1>3, <1>5, <1>6, <1>7, <1>8

LEMMA GuardedProgram ==
  ASSUME NEW x \in Slots, NEW n \in {1, 2}
  PROVE  /\ Program(Guarded(n, x))
         /\ Guarded(n, x)[1].do = "enter"
         /\ Does(Guarded(n, x), Names \ {"ids", "device"})
<1> DEFINE a == Step("enter", x)
           b == Read(n, x)
           d == Step("leave", x)
           t == <<a, b, d>>
<1>1. /\ a \in Steps /\ a.do = "enter" /\ a.of = x
      /\ b \in Steps /\ b.do = "read" /\ b.of = x
      /\ d \in Steps /\ d.do = "leave" /\ d.of = x
  BY StepTypes DEF Names
<1>2. t = Guarded(n, x)
  BY DEF Guarded
<1> HIDE DEF a, b, d
<1>3. /\ t \in Seq(Steps) /\ Len(t) = 3 /\ DOMAIN t = {1, 2, 3}
      /\ t[1] = a /\ t[2] = b /\ t[3] = d
      /\ t # <<>> /\ Last(t) = d
  BY <1>1 DEF Last
<1> HIDE DEF t
<1>4. Fit(t)
  BY <1>1, <1>3 DEF Fit, ReadAfterSelect, SelectThenRead, Shaped, Before, Selecting
<1>5. Program(t) /\ Does(t, Names \ {"ids", "device"})
  BY <1>1, <1>3, <1>4 DEF Program, Asks, Does, Names
<1> QED
  BY <1>1, <1>2, <1>3, <1>5

LEMMA InfoProgram ==
  ASSUME NEW x \in Slots, NEW t,
         t = <<Step("remember", x), Step("require", x), Read(1, x), Step("reselect", x)>>
  PROVE  /\ Program(t) /\ t[1].do = "remember"
         /\ Does(t, Names \ {"ids", "device"})
<1> DEFINE a == Step("remember", x)
           b == Step("require", x)
           d == Read(1, x)
           e == Step("reselect", x)
<1>1. /\ a \in Steps /\ a.do = "remember" /\ a.of = x
      /\ b \in Steps /\ b.do = "require" /\ b.of = x
      /\ d \in Steps /\ d.do = "read" /\ d.of = x
      /\ e \in Steps /\ e.do = "reselect" /\ e.of = x
  BY StepTypes DEF Names
<1>2. t = <<a, b, d, e>>
  OBVIOUS
<1> HIDE DEF a, b, d, e
<1>3. /\ t \in Seq(Steps) /\ Len(t) = 4 /\ DOMAIN t = {1, 2, 3, 4}
      /\ t[1] = a /\ t[2] = b /\ t[3] = d /\ t[4] = e
      /\ t # <<>> /\ Last(t) = e
  BY <1>1, <1>2 DEF Last
<1>4. Fit(t)
  BY <1>1, <1>3 DEF Fit, ReadAfterSelect, SelectThenRead, Shaped, Before, Selecting
<1>5. Program(t) /\ Does(t, Names \ {"ids", "device"})
  BY <1>1, <1>3, <1>4 DEF Program, Asks, Does, Names
<1> QED
  BY <1>1, <1>3, <1>5

LEMMA DualProgram ==
  ASSUME twoSlots, NEW t,
         t = <<Step("remember", 0), Step("select", 0), Read(1, 0),
               Step("select", 1), Read(1, 1), Step("restore", 0), Step("ask", 0)>>
  PROVE  /\ Program(t) /\ t[1].do = "remember"
         /\ Does(t, Names \ {"ids", "device"})
<1> DEFINE a == Step("remember", 0)
           b == Step("select", 0)
           d == Read(1, 0)
           e == Step("select", 1)
           f == Read(1, 1)
           g == Step("restore", 0)
           h == Step("ask", 0)
<1>1. 0 \in Slots /\ 1 \in Slots
  BY DEF Slots
<1>2. /\ a \in Steps /\ a.do = "remember" /\ a.of = 0
      /\ b \in Steps /\ b.do = "select" /\ b.of = 0
      /\ d \in Steps /\ d.do = "read" /\ d.of = 0
      /\ e \in Steps /\ e.do = "select" /\ e.of = 1
      /\ f \in Steps /\ f.do = "read" /\ f.of = 1
      /\ g \in Steps /\ g.do = "restore" /\ g.of = 0
      /\ h \in Steps /\ h.do = "ask" /\ h.of = 0
  BY <1>1, StepTypes DEF Names
<1>3. t = <<a, b, d, e, f, g, h>>
  OBVIOUS
<1> HIDE DEF a, b, d, e, f, g, h
<1>4. /\ t \in Seq(Steps) /\ Len(t) = 7 /\ DOMAIN t = {1, 2, 3, 4, 5, 6, 7}
      /\ t[1] = a /\ t[2] = b /\ t[3] = d /\ t[4] = e /\ t[5] = f /\ t[6] = g /\ t[7] = h
      /\ t # <<>> /\ Last(t) = h
  BY <1>2, <1>3 DEF Last
<1>5. Fit(t)
  BY <1>1, <1>2, <1>4 DEF Fit, ReadAfterSelect, SelectThenRead, Shaped, Before, Selecting
<1>6. Program(t) /\ Does(t, Names \ {"ids", "device"})
  BY <1>2, <1>4, <1>5 DEF Program, Asks, Does, Names
<1> QED
  BY <1>2, <1>4, <1>6

Joined(s, r) == s \o r
LEMMA JoinedIndex ==
  \A s, r \in Seq(Steps) :
    /\ Joined(s, r) \in Seq(Steps)
    /\ Len(Joined(s, r)) = Len(s) + Len(r)
    /\ \A i \in 1 .. Len(s) + Len(r) :
         Joined(s, r)[i] = IF i <= Len(s) THEN s[i] ELSE r[i - Len(s)]
<1> SUFFICES ASSUME NEW s \in Seq(Steps), NEW r \in Seq(Steps)
             PROVE  /\ Joined(s, r) \in Seq(Steps)
                    /\ Len(Joined(s, r)) = Len(s) + Len(r)
                    /\ \A i \in 1 .. Len(s) + Len(r) :
                         Joined(s, r)[i] = IF i <= Len(s) THEN s[i] ELSE r[i - Len(s)]
  OBVIOUS
<1> QED
  BY DEF Joined

LEMMA AllProgram ==
  ASSUME twoSlots, NEW t,
         t = <<Step("remember", 0)>> \o Guarded(2, 0) \o Guarded(2, 1) \o <<Step("restore", 0)>>
  PROVE  /\ Program(t) /\ t # <<>> /\ t[1].do = "remember"
         /\ Does(t, Names \ {"ids", "device"})
<1> DEFINE a == Step("remember", 0)
           b == Step("enter", 0)
           d == Read(2, 0)
           e == Step("leave", 0)
           f == Step("enter", 1)
           g == Read(2, 1)
           h == Step("leave", 1)
           k == Step("restore", 0)
<1>1. 0 \in Slots /\ 1 \in Slots
  BY DEF Slots
<1>2. /\ a \in Steps /\ a.do = "remember" /\ a.of = 0
      /\ b \in Steps /\ b.do = "enter" /\ b.of = 0
      /\ d \in Steps /\ d.do = "read" /\ d.of = 0
      /\ e \in Steps /\ e.do = "leave" /\ e.of = 0
      /\ f \in Steps /\ f.do = "enter" /\ f.of = 1
      /\ g \in Steps /\ g.do = "read" /\ g.of = 1
      /\ h \in Steps /\ h.do = "leave" /\ h.of = 1
      /\ k \in Steps /\ k.do = "restore" /\ k.of = 0
  BY <1>1, StepTypes DEF Names
<1>3. t = <<a>> \o <<b, d, e>> \o <<f, g, h>> \o <<k>>
  BY DEF Guarded
<1> HIDE DEF a, b, d, e, f, g, h, k
<1>4. /\ <<a>> \in Seq(Steps) /\ Len(<<a>>) = 1 /\ <<a>>[1] = a
      /\ <<b, d, e>> \in Seq(Steps) /\ Len(<<b, d, e>>) = 3
      /\ <<b, d, e>>[1] = b /\ <<b, d, e>>[2] = d /\ <<b, d, e>>[3] = e
      /\ <<f, g, h>> \in Seq(Steps) /\ Len(<<f, g, h>>) = 3
      /\ <<f, g, h>>[1] = f /\ <<f, g, h>>[2] = g /\ <<f, g, h>>[3] = h
      /\ <<k>> \in Seq(Steps) /\ Len(<<k>>) = 1 /\ <<k>>[1] = k
  BY <1>2
<1> DEFINE u == <<a>>
           v == <<b, d, e>>
           w == <<f, g, h>>
           z == <<k>>
           uv == Joined(u, v)
           uvw == Joined(uv, w)
           q == Joined(uvw, z)
<1> HIDE DEF u, v, w, z
<1>5. uv \in Seq(Steps) /\ Len(uv) = 4 /\ uv[1] = a /\ uv[2] = b /\ uv[3] = d /\ uv[4] = e
  <2>1. /\ u \in Seq(Steps) /\ Len(u) = 1 /\ u[1] = a
        /\ v \in Seq(Steps) /\ Len(v) = 3 /\ v[1] = b /\ v[2] = d /\ v[3] = e
    BY <1>4 DEF u, v
  <2>2. /\ uv \in Seq(Steps) /\ Len(uv) = Len(u) + Len(v)
        /\ \A i \in 1 .. Len(u) + Len(v) : uv[i] = IF i <= Len(u) THEN u[i] ELSE v[i - Len(u)]
    BY <2>1, JoinedIndex, Zenon
  <2> HIDE DEF uv
  <2>3. \A i \in 1 .. 4 : uv[i] = IF i <= 1 THEN u[i] ELSE v[i - 1]
    BY <2>1, <2>2
  <2>4. uv[1] = u[1] /\ uv[2] = v[1] /\ uv[3] = v[2] /\ uv[4] = v[3]
    BY <2>3
  <2> QED
    BY <2>1, <2>2, <2>4
<1> HIDE DEF uv
<1>6. /\ uvw \in Seq(Steps) /\ Len(uvw) = 7
      /\ uvw[1] = a /\ uvw[2] = b /\ uvw[3] = d /\ uvw[4] = e
      /\ uvw[5] = f /\ uvw[6] = g /\ uvw[7] = h
  <2>1. /\ w \in Seq(Steps) /\ Len(w) = 3 /\ w[1] = f /\ w[2] = g /\ w[3] = h
    BY <1>4 DEF w
  <2>2. /\ uvw \in Seq(Steps) /\ Len(uvw) = Len(uv) + Len(w)
        /\ \A i \in 1 .. Len(uv) + Len(w) :
             uvw[i] = IF i <= Len(uv) THEN uv[i] ELSE w[i - Len(uv)]
    BY <1>5, <2>1, JoinedIndex, Zenon
  <2> HIDE DEF uvw
  <2>3. \A i \in 1 .. 7 : uvw[i] = IF i <= 4 THEN uv[i] ELSE w[i - 4]
    BY <1>5, <2>1, <2>2
  <2>4. /\ uvw[1] = uv[1] /\ uvw[2] = uv[2] /\ uvw[3] = uv[3] /\ uvw[4] = uv[4]
        /\ uvw[5] = w[1] /\ uvw[6] = w[2] /\ uvw[7] = w[3]
    BY <2>3
  <2> QED
    BY <1>5, <2>1, <2>2, <2>4
<1> HIDE DEF uvw
<1>7. /\ q \in Seq(Steps) /\ Len(q) = 8
      /\ q[1] = a /\ q[2] = b /\ q[3] = d /\ q[4] = e
      /\ q[5] = f /\ q[6] = g /\ q[7] = h /\ q[8] = k
  <2>1. z \in Seq(Steps) /\ Len(z) = 1 /\ z[1] = k
    BY <1>4 DEF z
  <2>2. /\ q \in Seq(Steps) /\ Len(q) = Len(uvw) + Len(z)
        /\ \A i \in 1 .. Len(uvw) + Len(z) :
             q[i] = IF i <= Len(uvw) THEN uvw[i] ELSE z[i - Len(uvw)]
    BY <1>6, <2>1, JoinedIndex, Zenon
  <2> HIDE DEF q
  <2>4. \A i \in 1 .. 8 : q[i] = IF i <= 7 THEN uvw[i] ELSE z[i - 7]
    <3>1. \A i \in 1 .. 7 + 1 : q[i] = IF i <= 7 THEN uvw[i] ELSE z[i - 7]
      BY <1>6, <2>1, <2>2
    <3> QED
      BY <3>1
  <2>5. /\ q[1] = uvw[1] /\ q[2] = uvw[2] /\ q[3] = uvw[3] /\ q[4] = uvw[4]
        /\ q[5] = uvw[5] /\ q[6] = uvw[6] /\ q[7] = uvw[7] /\ q[8] = z[1]
    BY <2>4
  <2>6. q \in Seq(Steps) /\ Len(q) = 8
    BY <1>6, <2>1, <2>2
  <2> QED
    BY <1>6, <2>1, <2>5, <2>6, Zenon
<1> HIDE DEF q
<1>8. DOMAIN q = {1, 2, 3, 4, 5, 6, 7, 8} /\ q # <<>> /\ Last(q) = k
  <2>1. DOMAIN q = {1, 2, 3, 4, 5, 6, 7, 8}
    <3>1. DOMAIN q = 1 .. 8
      BY <1>7, TodoIndex
    <3>2. 1 .. 8 = {1, 2, 3, 4, 5, 6, 7, 8}
      OBVIOUS
    <3> QED
      BY <3>1, <3>2
  <2>2. Last(q) = k
    BY <1>7 DEF Last
  <2>3. q # <<>>
    <3>1. Len(<<>>) = 0 /\ Len(q) # 0
      BY <1>7
    <3> QED
      BY <3>1, Zenon
  <2> QED
    BY <2>1, <2>2, <2>3
<1>9. ReadAfterSelect(q)
  <2> SUFFICES ASSUME NEW i \in {1, 2, 3, 4, 5, 6, 7, 8}, q[i].do = "read"
               PROVE  q[i - 1].do \in Selecting /\ q[i - 1].of = q[i].of
    BY <1>8 DEF ReadAfterSelect
  <2>1. i \in {3, 6}
    BY <1>2, <1>7
  <2>2. CASE i = 3
    BY <1>2, <1>7, <2>2 DEF Selecting
  <2>3. CASE i = 6
    BY <1>2, <1>7, <2>3 DEF Selecting
  <2> QED
    BY <2>1, <2>2, <2>3
<1>10. \A i \in DOMAIN q : /\ q[i].of \in Slots
                           /\ q[i].do \notin {"ids", "device"}
                           /\ i # 1 => q[i].do # "remember"
                           /\ i # Len(q) => q[i].do \in Before("restore")
  <2> SUFFICES ASSUME NEW i \in {1, 2, 3, 4, 5, 6, 7, 8}
               PROVE  /\ q[i].of \in Slots
                      /\ q[i].do \notin {"ids", "device"}
                      /\ i # 1 => q[i].do # "remember"
                      /\ i # 8 => q[i].do \in Before("restore")
    BY <1>7, <1>8
  <2>1. q[i].of \in Slots
    <3>1. q[i].of \in {0, 1}
      BY <1>2, <1>7
    <3> QED
      BY <1>1, <3>1
  <2>2. /\ q[i].do \in {"remember", "enter", "read", "leave", "restore"}
        /\ i # 1 => q[i].do # "remember"
        /\ i # 8 => q[i].do # "restore"
    BY <1>2, <1>7
  <2> QED
    BY <2>1, <2>2 DEF Before
<1>11. SelectThenRead(q)
  <2> SUFFICES ASSUME NEW i \in {1, 2, 3, 4, 5, 6, 7, 8}, q[i].do \in Selecting
               PROVE  i + 1 \in {1, 2, 3, 4, 5, 6, 7, 8} /\ q[i + 1].do = "read"
    BY <1>8 DEF SelectThenRead
  <2>1. i \in {2, 5}
    BY <1>2, <1>7 DEF Selecting
  <2> QED
    BY <1>2, <1>7, <2>1
<1>12. ASSUME NEW i \in DOMAIN q, q[i].do = "leave"
       PROVE  \E j \in DOMAIN q : j < i /\ q[j].do = "enter"
  <2>1. i \in {4, 7}
    BY <1>2, <1>7, <1>8, <1>12
  <2>2. 2 \in DOMAIN q /\ 2 < i /\ q[2].do = "enter"
    BY <1>2, <1>7, <1>8, <2>1
  <2> QED
    BY <2>2
<1>13. Fit(q)
  <2>1. Last(q).do = "restore"
    BY <1>2, <1>8
  <2>2. Shaped(q)
    BY <1>10, <2>1 DEF Shaped
  <2> QED
    BY <1>9, <1>10, <1>11, <2>2 DEF Fit
<1>14. Program(q)
  BY <1>2, <1>7, <1>8, <1>13, <1>12 DEF Program, Asks, Does, Names
<1>15. Program(q) /\ q # <<>> /\ q[1].do = "remember"
       /\ Does(q, Names \ {"ids", "device"})
  BY <1>2, <1>7, <1>8, <1>10, <1>14 DEF Does, Names
<1>16. t = q
  BY <1>3 DEF u, v, w, z, uv, uvw, q, Joined
<1> QED
  BY <1>15, <1>16, Zenon

-----------------------------------------------------------------------------
(* What the steps do *)

TypeInv == TypeOK /\ op \in [Callers -> Operations]

\* The parts of the type invariant that are not about the operations.
Plain ==
  /\ twoSlots \in BOOLEAN
  /\ slot \in Slots /\ home \in Slots
  /\ initialized \in BOOLEAN /\ connected \in BOOLEAN
  /\ checked \in BOOLEAN /\ supported \in BOOLEAN
  /\ ids \in {"none", "empty", "known"}
  /\ device \in {"none", "part", "full"}
  /\ alone \in BOOLEAN /\ steady \in BOOLEAN
  /\ ops \in 0..MaxOps /\ lost \in 0..MaxLost

LEMMA TypeParts ==
  /\ TypeInv <=> Plain /\ op \in [Callers -> Operations]
  /\ TypeInv' <=> Plain' /\ op' \in [Callers -> Operations]
<1>1. ASSUME NEW f \in [Callers -> Operations], NEW c \in Callers
      PROVE  /\ f[c].outer \in {Unknown, 0, 1} /\ f[c].inner \in {Unknown, 0, 1}
             /\ f[c].blind \in BOOLEAN /\ f[c].todo \in Seq(Steps)
  BY DEF Operations
<1>2. ASSUME NEW f \in [Callers -> Operations], NEW c \in Callers, NEW i \in DOMAIN f[c].todo
      PROVE  f[c].todo[i].of \in {0, 1}
  <2>1. f[c].todo[i] \in Steps
    BY <1>1, TodoIndex
  <2> QED
    BY <2>1 DEF Steps
<1>3. TypeInv <=> Plain /\ op \in [Callers -> Operations]
  BY <1>1, <1>2 DEF TypeInv, TypeOK, Plain
<1>4. TypeInv' <=> Plain' /\ op' \in [Callers -> Operations]
  BY <1>1, <1>2 DEF TypeInv, TypeOK, Plain
<1> QED
  BY <1>3, <1>4

LEMMA OperationParts ==
  ASSUME op \in [Callers -> Operations], NEW c \in Callers
  PROVE  /\ op[c] \in Operations
         /\ op[c].todo \in Seq(Steps)
         /\ op[c].outer \in {Unknown, 0, 1} /\ op[c].inner \in {Unknown, 0, 1}
         /\ op[c].blind \in BOOLEAN
         /\ op[c].todo # <<>> => /\ op[c].todo[1] \in Steps /\ Now(c) = op[c].todo[1]
                                 /\ Now(c).of \in {0, 1} /\ Now(c).n \in {1, 2}
                                 /\ 1 \in DOMAIN op[c].todo
<1>1. /\ op[c] \in Operations /\ op[c].todo \in Seq(Steps)
      /\ op[c].outer \in {Unknown, 0, 1} /\ op[c].inner \in {Unknown, 0, 1}
      /\ op[c].blind \in BOOLEAN
  BY DEF Operations
<1>2. op[c].todo # <<>> => /\ op[c].todo[1] \in Steps /\ Now(c) = op[c].todo[1]
                           /\ 1 \in DOMAIN op[c].todo
  BY <1>1, TodoIndex DEF Now
<1>3. \A x \in Steps : x.of \in {0, 1} /\ x.n \in {1, 2}
  BY DEF Steps
<1> QED
  BY <1>1, <1>2, <1>3

\* The others stay where they are.
Others(c) == op' \in [Callers -> Operations] /\ \A d \in Callers : d # c => op'[d] = op[d]

LEMMA ThenIs ==
  ASSUME op \in [Callers -> Operations], NEW c \in Callers, NEW t \in Seq(Steps),
         op' = Then(c, t)
  PROVE  /\ Others(c) /\ op'[c].todo = t
         /\ t # <<>> => /\ op'[c].outer = op[c].outer /\ op'[c].inner = op[c].inner
                        /\ op'[c].blind = op[c].blind
         /\ t = <<>> => op'[c].outer = Unknown /\ op'[c].inner = Unknown
<1> DEFINE new == IF t = <<>> THEN Idle ELSE [op[c] EXCEPT !.todo = t]
<1>1. /\ new \in Operations /\ new.todo = t
      /\ t # <<>> => new.outer = op[c].outer /\ new.inner = op[c].inner /\ new.blind = op[c].blind
      /\ t = <<>> => new.outer = Unknown /\ new.inner = Unknown
  <2>1. CASE t = <<>>
    <3>1. Idle \in Operations /\ Idle.todo = <<>> /\ Idle.outer = Unknown /\ Idle.inner = Unknown
      BY FitEmpty DEF Idle, Operations
    <3> QED
      BY <2>1, <3>1
  <2>2. CASE t # <<>>
    BY <2>2, OperationParts DEF Operations
  <2> QED
    BY <2>1, <2>2
<1>2. op' = [op EXCEPT ![c] = new]
  BY DEF Then
<1> HIDE DEF new
<1> QED
  BY <1>1, <1>2 DEF Others

LEMMA BeginIs ==
  ASSUME op \in [Callers -> Operations], Plain, NEW c \in Callers, NEW t \in Seq(Steps),
         NEW b \in BOOLEAN, Begin(c, t, b)
  PROVE  /\ Others(c) /\ op'[c].todo = t
         /\ op'[c].outer = Unknown /\ op'[c].inner = Unknown /\ op'[c].blind = b
         /\ Resting(c)
         /\ alone' <=> alone /\ \A d \in Callers : Resting(d)
         /\ steady' <=> steady /\ alone'
         /\ alone' \in BOOLEAN /\ steady' \in BOOLEAN /\ ops' \in 0 .. MaxOps
<1> DEFINE new == [Idle EXCEPT !.todo = t, !.blind = b]
<1>1. /\ new \in Operations /\ new.todo = t /\ new.blind = b
      /\ new.outer = Unknown /\ new.inner = Unknown
  BY DEF Idle, Operations
<1>2. op' = [op EXCEPT ![c] = new]
  BY DEF Begin
<1> HIDE DEF new
<1>3. /\ Others(c) /\ op'[c].todo = t
      /\ op'[c].outer = Unknown /\ op'[c].inner = Unknown /\ op'[c].blind = b
  BY <1>1, <1>2 DEF Others
<1>4. alone' = (alone /\ \A d \in Callers : Resting(d)) /\ steady' = (steady /\ alone')
  BY DEF Begin
<1>5. ops' \in 0 .. MaxOps
  BY SimAssumption DEF Begin, Plain
<1>6. alone' \in BOOLEAN /\ steady' \in BOOLEAN
  BY <1>4, Zenon
<1> QED
  BY <1>3, <1>4, <1>5, <1>6 DEF Begin

(***************************************************************************)
(* How an operation starts: with a program of commands, or with none when  *)
(* it connects, disconnects or starts the interface at once.               *)
(***************************************************************************)
Starts(c, t, b) ==
  /\ Program(t) /\ Begin(c, t, b)
  /\ UNCHANGED <<slot, home, ids, device>>
  /\ t # <<>> => UNCHANGED <<initialized, connected, checked, supported>> /\ initialized
  /\ t # <<>> /\ t[1].do = "read" => (b /\ t[1].of = 0) \/ ~supported
  /\ \A i \in DOMAIN t : /\ t[i].do = "ids" => ids = "none"
                         /\ t[i].do = "device" => device = "none"

Attached ==
  /\ initialized' \in BOOLEAN /\ connected' \in BOOLEAN
  /\ checked' \in BOOLEAN /\ supported' \in BOOLEAN
  /\ lost' \in 0 .. MaxLost
  /\ connected' => initialized'
  /\ supported' => twoSlots

LEMMA AskStarts ==
  ASSUME Plain, AloneInv, NEW c \in Callers, NEW t, Ask(c, t), Program(t),
         t # <<>>, t[1].do = "read" => ~ supported,
         \A i \in DOMAIN t : /\ t[i].do = "ids" => ids = "none"
                             /\ t[i].do = "device" => device = "none"
  PROVE  Starts(c, t, FALSE) /\ Attached
<1>1. /\ connected /\ Begin(c, t, FALSE)
      /\ UNCHANGED <<slot, home, initialized, connected, checked, supported, ids, device, lost>>
  BY DEF Ask
<1>2. initialized /\ (supported => twoSlots)
  BY <1>1 DEF AloneInv
<1>3. Attached
  BY <1>1, <1>2 DEF Attached, Plain
<1> QED
  BY <1>1, <1>2, <1>3 DEF Starts

LEMMA ConnectAttaches ==
  ASSUME Plain, AloneInv, NEW first \in BOOLEAN, Connect(first)
  PROVE  /\ connected' \in BOOLEAN /\ checked' \in BOOLEAN /\ supported' \in BOOLEAN
         /\ lost' \in 0 .. MaxLost
         /\ supported' => twoSlots
<1>1. supported => twoSlots
  BY DEF AloneInv
<1>2. CASE connected' = FALSE /\ UNCHANGED <<checked, supported, lost>>
  BY <1>1, <1>2 DEF Plain
<1>3. CASE /\ connected' = TRUE /\ checked' = TRUE
           /\ supported' = (IF first THEN twoSlots ELSE supported) /\ lost' = lost
  BY <1>1, <1>3 DEF Plain
<1>4. CASE /\ connected' = TRUE /\ checked' = TRUE
           /\ lost < MaxLost /\ supported' = FALSE /\ lost' = lost + 1
  <2>1. lost' \in 0 .. MaxLost
    BY <1>4, SimAssumption DEF Plain
  <2> QED
    BY <1>4, <2>1
<1> QED
  BY <1>2, <1>3, <1>4 DEF Connect

LEMMA OperationStep ==
  ASSUME Plain, AloneInv, twoSlots' = twoSlots, NEW c \in Callers, Operation(c)
  PROVE  /\ Attached
         /\ \/ InitModule(c)
            \/ \E t \in Seq(Steps), b \in BOOLEAN : Starts(c, t, b)
<1>1. supported => twoSlots
  BY DEF AloneInv
<1>2. 0 \in Slots
  BY DEF Slots
<1>3. ASSUME NEW t, Starts(c, t, FALSE)
      PROVE  \E u \in Seq(Steps), b \in BOOLEAN : Starts(c, u, b)
  BY <1>3 DEF Starts, Program
<1>4. ASSUME NEW x \in Slots, NEW n \in {1, 2}, Query(c, x, n)
      PROVE  Attached /\ \E t \in Seq(Steps), b \in BOOLEAN : Starts(c, t, b)
  <2>1. CASE supported
    <3> DEFINE t == Guarded(n, x)
    <3>1. Ask(c, t)
      BY <1>4, <2>1 DEF Query
    <3>2. Program(t) /\ t[1].do = "enter" /\ Does(t, Names \ {"ids", "device"})
      BY GuardedProgram
    <3>3. t # <<>>
      BY DEF Guarded
    <3> HIDE DEF t
    <3> QED
      BY <1>3, <3>1, <3>2, <3>3, AskStarts DEF Does
  <2>2. CASE ~ supported
    <3> DEFINE t == <<Read(n, x)>>
    <3>1. Ask(c, t)
      BY <1>4, <2>2 DEF Query
    <3>2. Program(t) /\ Does(t, {"read"})
      BY ShortPrograms
    <3>3. t # <<>>
      OBVIOUS
    <3> HIDE DEF t
    <3> QED
      BY <1>3, <2>2, <3>1, <3>2, <3>3, AskStarts DEF Does
  <2> QED
    BY <2>1, <2>2
<1>5. ASSUME NEW x \in Slots, GetSimInfo(c, x)
      PROVE  Attached /\ \E t \in Seq(Steps), b \in BOOLEAN : Starts(c, t, b)
  <2>1. CASE supported
    <3> DEFINE t == <<Step("remember", x), Step("require", x), Read(1, x),
                      Step("reselect", x)>>
    <3>1. Ask(c, t)
      BY <1>5, <2>1 DEF GetSimInfo
    <3>2. Program(t) /\ t[1].do = "remember" /\ Does(t, Names \ {"ids", "device"})
      BY InfoProgram
    <3>3. t # <<>>
      OBVIOUS
    <3> HIDE DEF t
    <3> QED
      BY <1>3, <3>1, <3>2, <3>3, AskStarts DEF Does
  <2>2. CASE ~ supported /\ ids = "none"
    <3> DEFINE t == <<Read(1, x), Step("ids", x)>>
    <3>1. Ask(c, t)
      BY <1>5, <2>2 DEF GetSimInfo
    <3>2. Program(t) /\ Does(t, {"read", "ids"})
      BY ShortPrograms
    <3>3. t # <<>>
      OBVIOUS
    <3> HIDE DEF t
    <3> QED
      BY <1>3, <2>2, <3>1, <3>2, <3>3, AskStarts DEF Does
  <2>3. CASE ~ supported /\ ids # "none"
    <3> DEFINE t == <<Read(1, x)>>
    <3>1. Ask(c, t)
      BY <1>5, <2>3 DEF GetSimInfo
    <3>2. Program(t) /\ Does(t, {"read"})
      BY ShortPrograms
    <3>3. t # <<>>
      OBVIOUS
    <3> HIDE DEF t
    <3> QED
      BY <1>3, <2>3, <3>1, <3>2, <3>3, AskStarts DEF Does
  <2> QED
    BY <2>1, <2>2, <2>3
<1>6. ASSUME NEW x \in Slots, SelectSimSlot(c, x)
      PROVE  Attached /\ \E t \in Seq(Steps), b \in BOOLEAN : Starts(c, t, b)
  <2> DEFINE t == <<Step("choose", x)>>
  <2>1. Ask(c, t)
    BY <1>6 DEF SelectSimSlot
  <2>2. Program(t) /\ Does(t, {"choose"})
    BY ShortPrograms
  <2>3. t # <<>> /\ 1 \in DOMAIN t
    OBVIOUS
  <2> HIDE DEF t
  <2> QED
    BY <1>3, <2>1, <2>2, <2>3, AskStarts DEF Does
<1>7. ASSUME GetAllSimSignalInfo(c)
      PROVE  Attached /\ \E t \in Seq(Steps), b \in BOOLEAN : Starts(c, t, b)
  <2>1. CASE supported
    <3> DEFINE t == <<Step("remember", 0)>> \o Guarded(2, 0) \o Guarded(2, 1)
                      \o <<Step("restore", 0)>>
    <3>1. Ask(c, t)
      BY <1>7, <2>1 DEF GetAllSimSignalInfo
    <3>2. /\ Program(t) /\ t # <<>> /\ t[1].do = "remember"
          /\ Does(t, Names \ {"ids", "device"})
      BY <1>1, <2>1, AllProgram
    <3> HIDE DEF t
    <3> QED
      BY <1>3, <3>1, <3>2, AskStarts DEF Does
  <2>2. CASE ~ supported
    <3> DEFINE t == <<Read(2, 0)>>
    <3>1. Ask(c, t)
      BY <1>7, <2>2 DEF GetAllSimSignalInfo
    <3>2. Program(t) /\ Does(t, {"read"})
      BY <1>2, ShortPrograms
    <3>3. t # <<>>
      OBVIOUS
    <3> HIDE DEF t
    <3> QED
      BY <1>3, <2>2, <3>1, <3>2, <3>3, AskStarts DEF Does
  <2> QED
    BY <2>1, <2>2
<1>8. ASSUME GetDualSimInfo(c)
      PROVE  Attached /\ \E t \in Seq(Steps), b \in BOOLEAN : Starts(c, t, b)
  <2> DEFINE dual == <<Step("remember", 0), Step("select", 0), Read(1, 0),
                       Step("select", 1), Read(1, 1), Step("restore", 0), Step("ask", 0)>>
             single == <<Read(1, 0)>>
  <2>1. PICK two \in {twoSlots, FALSE} :
          /\ connected
          /\ two # twoSlots => lost < MaxLost
          /\ lost' = IF two # twoSlots THEN lost + 1 ELSE lost
          /\ Begin(c, IF two THEN dual ELSE single, two # twoSlots)
          /\ UNCHANGED <<slot, home, initialized, connected, checked, supported, ids, device>>
    BY <1>8, Zenon DEF GetDualSimInfo
  <2>2. initialized /\ Attached
    <3>1. initialized
      BY <2>1 DEF AloneInv
    <3>2. lost' \in 0 .. MaxLost
      BY <2>1, SimAssumption DEF Plain
    <3> QED
      BY <1>1, <2>1, <3>1, <3>2 DEF Attached, Plain
  <2>3. CASE two
    <3>1. twoSlots /\ Begin(c, dual, two # twoSlots)
      BY <2>1, <2>3 DEF Plain
    <3>2. Program(dual) /\ dual[1].do = "remember" /\ Does(dual, Names \ {"ids", "device"})
      BY <3>1, DualProgram
    <3>3. dual # <<>>
      OBVIOUS
    <3> HIDE DEF dual
    <3>4. Starts(c, dual, two # twoSlots)
      BY <2>1, <2>2, <3>1, <3>2, <3>3 DEF Starts, Does
    <3> QED
      BY <2>2, <3>2, <3>4 DEF Program
  <2>4. CASE ~ two
    <3>1. Begin(c, single, two # twoSlots) /\ (supported => two # twoSlots)
      BY <1>1, <2>1, <2>4 DEF Plain
    <3>2. Program(single) /\ Does(single, {"read"}) /\ single[1].of = 0
      BY <1>2, ShortPrograms
    <3>3. single # <<>>
      OBVIOUS
    <3> HIDE DEF single
    <3>4. Starts(c, single, two # twoSlots)
      BY <2>1, <2>2, <3>1, <3>2, <3>3 DEF Starts, Does
    <3> QED
      BY <2>2, <3>2, <3>4 DEF Program
  <2> QED
    BY <2>1, <2>3, <2>4 DEF Plain
<1>13. ASSUME GetActiveSimSlot(c)
       PROVE  Attached /\ \E t \in Seq(Steps), b \in BOOLEAN : Starts(c, t, b)
  <2> DEFINE t == <<Step("ask", 0)>>
  <2>1. Ask(c, t)
    BY <1>13 DEF GetActiveSimSlot
  <2>2. Program(t) /\ Does(t, {"ask"})
    BY <1>2, ShortPrograms
  <2>3. t # <<>> /\ 1 \in DOMAIN t
    OBVIOUS
  <2> HIDE DEF t
  <2> QED
    BY <1>3, <2>1, <2>2, <2>3, AskStarts DEF Does
<1>9. ASSUME GetDeviceInfo(c)
      PROVE  Attached /\ \E t \in Seq(Steps), b \in BOOLEAN : Starts(c, t, b)
  <2> DEFINE t == <<Step("device", 0)>>
  <2>1. device = "none" /\ Ask(c, t)
    BY <1>9 DEF GetDeviceInfo
  <2>2. Program(t) /\ Does(t, {"device"})
    BY <1>2, ShortPrograms
  <2>3. t # <<>> /\ 1 \in DOMAIN t
    OBVIOUS
  <2> HIDE DEF t
  <2> QED
    BY <1>3, <2>1, <2>2, <2>3, AskStarts DEF Does
<1>10. ASSUME InitModule(c)
       PROVE  Attached
  BY <1>10, ConnectAttaches DEF InitModule, Attached
<1>11. Program(<<>>) /\ <<>> \in Seq(Steps) /\ \A i \in DOMAIN <<>> : FALSE
  BY FitEmpty DEF Program, Asks
<1>12. ASSUME SetAtPort(c) \/ Deinit(c)
       PROVE  Attached /\ Starts(c, <<>>, FALSE)
  <2>1. Starts(c, <<>>, FALSE)
    BY <1>11, <1>12 DEF SetAtPort, Deinit, Starts
  <2>2. CASE SetAtPort(c)
    <3>1. Connect(~ checked) /\ initialized /\ initialized' = initialized
      BY <2>2 DEF SetAtPort
    <3>2. (~ checked) \in BOOLEAN
      OBVIOUS
    <3>3. PICK first \in BOOLEAN : Connect(first)
      BY <3>1, <3>2, Zenon
    <3>4. initialized' \in BOOLEAN /\ initialized'
      BY <3>1 DEF Plain
    <3>5. /\ connected' \in BOOLEAN /\ checked' \in BOOLEAN /\ supported' \in BOOLEAN
          /\ lost' \in 0 .. MaxLost
          /\ supported' => twoSlots
      BY <3>3, ConnectAttaches
    <3>6. Attached
      BY <3>4, <3>5 DEF Attached
    <3> QED
      BY <2>1, <3>6
  <2>3. CASE Deinit(c)
    BY <2>1, <2>3 DEF Deinit, Attached, Plain
  <2> QED
    BY <1>12, <2>2, <2>3
<1> QED
  BY <1>4, <1>5, <1>6, <1>7, <1>8, <1>9, <1>10, <1>11, <1>12, <1>13 DEF Operation

(***************************************************************************)
(* How a command leaves its operation: without it, with another in its     *)
(* place, without the query that it was to precede, or at an end.          *)
(***************************************************************************)
Later(r, t) ==
  \A i \in DOMAIN r : r[i].do \in {"ids", "device"} =>
    \E j \in DOMAIN t : j # 1 /\ t[j].do = r[i].do

Goes(t, r) == r \in Seq(Steps) /\ Fit(r) /\ Later(r, t)

LEMMA TailGoes ==
  ASSUME NEW t \in Seq(Steps), t # <<>>, Fit(t), NEW r, r = Tail(t)
  PROVE  /\ Goes(t, r)
         /\ t[1].do # "enter" => \A inner : Entered(t, inner) => Entered(r, inner)
<1>1. /\ r \in Seq(Steps)
      /\ \A i \in DOMAIN r : i \in Nat /\ i + 1 \in DOMAIN t /\ i + 1 # 1 /\ r[i] = t[i + 1]
  BY TodoTail, TodoIndex
<1>2. Fit(r)
  BY FitTail
<1>3. Later(r, t)
  BY <1>1 DEF Later
<1>4. ASSUME t[1].do # "enter", NEW inner, Entered(t, inner)
      PROVE  Entered(r, inner)
  <2> SUFFICES ASSUME NEW i \in DOMAIN r, r[i].do = "leave",
                      \A j \in DOMAIN r : j < i => r[j].do # "enter"
               PROVE  inner \in Slots
    BY DEF Entered
  <2>1. ASSUME NEW j \in DOMAIN t, j < i + 1
        PROVE  t[j].do # "enter"
    <3>1. CASE j = 1
      BY <1>4, <3>1
    <3>2. CASE j # 1
      <4>1. /\ DOMAIN t = 1 .. Len(t) /\ DOMAIN r = 1 .. Len(r) /\ Len(r) = Len(t) - 1
            /\ Len(t) \in Nat
        BY <1>1, TodoIndex, TodoTail
      <4>2. j - 1 \in DOMAIN r /\ j - 1 < i /\ (j - 1) + 1 = j
        BY <1>1, <2>1, <3>2, <4>1
      <4> QED
        BY <1>1, <4>2
    <3> QED
      BY <3>1, <3>2
  <2>2. i + 1 \in DOMAIN t /\ t[i + 1].do = "leave"
    BY <1>1
  <2> QED
    BY <1>4, <2>1, <2>2 DEF Entered
<1> QED
  BY <1>1, <1>2, <1>3, <1>4 DEF Goes

LEMMA ReplacedGoes ==
  ASSUME NEW t \in Seq(Steps), t # <<>>, Fit(t), NEW x \in Steps, x.of \in Slots,
         \/ t[1].do = "read" /\ x.do = "read" /\ x.of = t[1].of
         \/ t[1].do = "enter" /\ x.do = "select" /\ x.of = t[1].of
         \/ t[1].do = "leave" /\ x.do = "back",
         NEW r, r = Instead(x, t)
  PROVE  /\ Goes(t, r) /\ r # <<>> /\ r[1] = x /\ DOMAIN r = DOMAIN t
         /\ t[1].do # "enter" => \A inner : Entered(t, inner) => Entered(r, inner)
         /\ Len(t) > 1 => Last(r) = Last(t)
         /\ Len(t) = 1 => Last(r) = x
<1>1. /\ r \in Seq(Steps) /\ r # <<>> /\ DOMAIN r = DOMAIN t /\ r[1] = x
      /\ \A i \in DOMAIN t : i # 1 => r[i] = t[i]
      /\ Len(t) > 1 => Last(r) = Last(t)
      /\ Len(t) = 1 => Last(r) = x
  BY TodoReplaced
<1>2. Fit(r)
  BY FitReplaced
<1>3. Later(r, t)
  <2>1. \A i \in DOMAIN r : r[i].do \in {"ids", "device"} => i # 1 /\ r[i] = t[i]
    BY <1>1
  <2> QED
    BY <1>1, <2>1 DEF Later
<1>4. ASSUME t[1].do # "enter", NEW inner, Entered(t, inner)
      PROVE  Entered(r, inner)
  <2> SUFFICES ASSUME NEW i \in DOMAIN r, r[i].do = "leave",
                      \A j \in DOMAIN r : j < i => r[j].do # "enter"
               PROVE  inner \in Slots
    BY DEF Entered
  <2>1. i # 1 /\ t[i].do = "leave"
    BY <1>1
  <2>2. \A j \in DOMAIN t : j < i => t[j].do # "enter"
    BY <1>1, <1>4
  <2> QED
    BY <1>1, <1>4, <2>1, <2>2 DEF Entered
<1> QED
  BY <1>1, <1>2, <1>3, <1>4 DEF Goes

\* A selection that fails takes the query along that it was for.
LEMMA SkipGoes ==
  ASSUME NEW t \in Seq(Steps), t # <<>>, Fit(t), t[1].do = "select",
         NEW r, r = Tail(Tail(t))
  PROVE  /\ Goes(t, r)
         /\ \A inner : Entered(t, inner) => Entered(r, inner)
         /\ r # <<>> => r[1].do # "read" /\ Last(r) = Last(t)
<1> DEFINE s == Tail(t)
<1>1. Goes(t, s) /\ \A inner : Entered(t, inner) => Entered(s, inner)
  BY TailGoes
<1>2. s \in Seq(Steps) /\ Fit(s) /\ Later(s, t)
  BY <1>1 DEF Goes
<1>3. s # <<>> /\ s[1].do = "read" /\ Last(s) = Last(t)
  <2>1. 1 \in DOMAIN t
    BY TodoIndex
  <2>2. 1 + 1 \in DOMAIN t /\ t[1 + 1].do = "read"
    BY <2>1 DEF Fit, SelectThenRead, Selecting
  <2>3. Len(t) > 1 /\ Len(s) = Len(t) - 1 /\ Len(t) \in Nat
    BY <2>2, TodoIndex, TodoTail
  <2>4. s # <<>> /\ 1 \in DOMAIN s
    BY <1>2, <2>3, TodoIndex
  <2> QED
    BY <2>2, <2>4, TodoTail
<1> HIDE DEF s
<1>4. /\ Goes(s, r)
      /\ \A inner : Entered(s, inner) => Entered(r, inner)
      /\ r # <<>> => Last(r) = Last(s)
      /\ r # <<>> /\ r[1].do = "read" => s[1].do \in Selecting
  <2>1. r = Tail(s)
    BY DEF s
  <2> QED
    BY <1>2, <1>3, <2>1, TailGoes, TodoTail, FitTail
<1>5. Later(r, t)
  BY <1>2, <1>4 DEF Later, Goes
<1> QED
  BY <1>1, <1>3, <1>4, <1>5 DEF Goes, Selecting

LEMMA EmptyGoes ==
  \A t : Goes(t, <<>>) /\ \A inner : Entered(<<>>, inner)
BY FitEmpty DEF Goes, Later, Entered

\* What the two commands about slots leave behind.
LEMMA ActiveSlotIs ==
  ASSUME Plain, NEW answer \in {Unknown, 0, 1}, ActiveSlot(answer)
  PROVE  /\ answer \in Slots \cup {Unknown}
         /\ steady' \in BOOLEAN /\ (steady' => steady) /\ lost' \in 0 .. MaxLost
         /\ steady' => answer = slot
         /\ answer = 1 => slot = 1
<1>1. slot \in Slots /\ 0 \in Slots /\ Unknown # 1
  BY DEF Plain, Slots, Unknown
<1>2. CASE connected /\ answer \in {slot, 0} /\ steady' = (steady /\ answer = slot) /\ lost' = lost
  <2>1. steady' <=> steady /\ answer = slot
    BY <1>2
  <2>2. steady' \in BOOLEAN
    BY <1>2, Zenon
  <2>3. lost' \in 0 .. MaxLost
    BY <1>2 DEF Plain
  <2>4. answer \in Slots /\ (answer = 1 => slot = 1)
    BY <1>1, <1>2
  <2> QED
    BY <2>1, <2>2, <2>3, <2>4
<1>3. CASE answer = Unknown /\ Unanswered /\ steady' = FALSE
  <2>1. lost' \in 0 .. MaxLost
    BY <1>3, SimAssumption DEF Unanswered, Plain
  <2> QED
    BY <1>1, <1>3, <2>1
<1> QED
  BY <1>2, <1>3 DEF ActiveSlot

LEMMA SelectSlotIs ==
  ASSUME Plain, NEW x \in Slots, NEW done \in BOOLEAN, SelectSlot(x, done)
  PROVE  /\ slot' \in Slots
         /\ steady' \in BOOLEAN /\ (steady' => steady) /\ lost' \in 0 .. MaxLost
         /\ steady' => done
         /\ done => slot' = x
<1>1. CASE connected /\ done /\ slot' = x /\ UNCHANGED <<steady, lost>>
  BY <1>1 DEF Plain
<1>2. CASE /\ ~done /\ Unanswered
           /\ slot' \in (IF connected THEN {slot, x} ELSE {slot})
           /\ steady' = FALSE
  <2>1. lost' \in 0 .. MaxLost
    BY <1>2, SimAssumption DEF Unanswered, Plain
  <2>2. slot' \in Slots
    BY <1>2 DEF Plain
  <2> QED
    BY <1>2, <2>1, <2>2
<1> QED
  BY <1>1, <1>2 DEF SelectSlot

\* What a command does to its operation, and to what the operation is about.
Proceeds(c) ==
  /\ op[c].todo # <<>> /\ Others(c) /\ Goes(op[c].todo, op'[c].todo)
  /\ op'[c].outer \in Slots \cup {Unknown} /\ op'[c].inner \in Slots \cup {Unknown}
  /\ Entered(op'[c].todo, op'[c].inner)

Touches(c) ==
  /\ Kept
  /\ slot' \in Slots /\ home' \in Slots
  /\ steady' \in BOOLEAN /\ (steady' => steady) /\ lost' \in 0 .. MaxLost
  /\ ids' \in {"none", "empty", "known"} /\ device' \in {"none", "part", "full"}
  /\ ids' # ids => At(c, "ids")
  /\ device' # device => At(c, "device")

LEMMA ThenProceeds ==
  ASSUME op \in [Callers -> Operations], GuardInv, NEW c \in Callers, op[c].todo # <<>>,
         NEW r, Goes(op[c].todo, r), op' = Then(c, r),
         Entered(op[c].todo, op[c].inner) => Entered(r, op[c].inner)
  PROVE  Proceeds(c)
<1>1. r \in Seq(Steps)
  BY DEF Goes
<1>2. /\ op[c].outer \in Slots \cup {Unknown} /\ op[c].inner \in Slots \cup {Unknown}
      /\ Entered(r, op[c].inner)
  BY DEF GuardInv
<1>3. /\ Others(c) /\ op'[c].todo = r
      /\ r # <<>> => op'[c].outer = op[c].outer /\ op'[c].inner = op[c].inner
      /\ r = <<>> => op'[c].outer = Unknown /\ op'[c].inner = Unknown
  BY <1>1, ThenIs
<1>4. CASE r = <<>>
  <2>1. Entered(r, op'[c].inner)
    BY <1>4, EmptyGoes
  <2> QED
    BY <1>3, <1>4, <2>1 DEF Proceeds
<1>5. CASE r # <<>>
  BY <1>2, <1>3, <1>5 DEF Proceeds
<1> QED
  BY <1>4, <1>5

\* The next command, where it is looked at.
LEMMA NextCommand ==
  ASSUME op \in [Callers -> Operations], TodoInv, GuardInv, NEW c \in Callers,
         op[c].todo # <<>>
  PROVE  /\ op[c].todo \in Seq(Steps) /\ Fit(op[c].todo)
         /\ Now(c) = op[c].todo[1] /\ Now(c) \in Steps /\ Now(c).of \in Slots /\ Now(c).n \in {1, 2}
         /\ Rest(c) = Tail(op[c].todo)
         /\ Goes(op[c].todo, Rest(c))
         /\ ~At(c, "enter") =>
              (Entered(op[c].todo, op[c].inner) => Entered(Rest(c), op[c].inner))
         /\ At(c, "leave") => op[c].inner \in Slots
<1>1. /\ op[c].todo \in Seq(Steps) /\ Fit(op[c].todo)
      /\ Now(c) = op[c].todo[1] /\ Now(c) \in Steps /\ Now(c).n \in {1, 2}
      /\ 1 \in DOMAIN op[c].todo
  BY OperationParts DEF TodoInv
<1>2. Now(c).of \in Slots
  BY <1>1 DEF Fit
<1>3. Rest(c) = Tail(op[c].todo)
  BY DEF Rest
<1>4. At(c, "leave") => op[c].inner \in Slots
  <2> SUFFICES ASSUME At(c, "leave") PROVE op[c].inner \in Slots
    OBVIOUS
  <2>1. op[c].todo[1].do = "leave" /\ \A j \in DOMAIN op[c].todo : ~(j < 1)
    BY <1>1, TodoIndex DEF At
  <2> QED
    BY <1>1, <2>1 DEF GuardInv, Entered
<1>5. /\ Goes(op[c].todo, Rest(c))
      /\ ~At(c, "enter") =>
           (Entered(op[c].todo, op[c].inner) => Entered(Rest(c), op[c].inner))
  BY <1>1, <1>3, TailGoes DEF At
<1> QED
  BY <1>1, <1>2, <1>3, <1>4, <1>5

LEMMA CommandStep ==
  ASSUME TypeInv, TodoInv, GuardInv, NEW c \in Callers, Command(c)
  PROVE  Proceeds(c) /\ Touches(c)
<1> DEFINE t == op[c].todo
<1>1. op \in [Callers -> Operations] /\ Plain
  BY TypeParts
<1>2. t # <<>>
  BY DEF Command, AskActive, Remember, Enter, Select, Choose, Answered, Missed, ReadIds,
         ReadDevice, Leave, Back, At
<1>3. /\ t \in Seq(Steps) /\ Fit(t) /\ Now(c) = t[1] /\ Now(c) \in Steps
      /\ Now(c).of \in Slots /\ Now(c).n \in {1, 2}
      /\ Goes(t, Rest(c)) /\ Rest(c) = Tail(t)
      /\ ~At(c, "enter") => (Entered(t, op[c].inner) => Entered(Rest(c), op[c].inner))
      /\ At(c, "leave") => op[c].inner \in Slots
  BY <1>1, <1>2, NextCommand
<1>4. op[c].outer \in Slots \cup {Unknown} /\ op[c].inner \in Slots \cup {Unknown}
  BY DEF GuardInv
<1>5. ASSUME op' = Then(c, Rest(c)), ~At(c, "enter") PROVE Proceeds(c)
  BY <1>1, <1>2, <1>3, <1>5, ThenProceeds
<1>6. ASSUME Unanswered PROVE lost' \in 0 .. MaxLost
  BY <1>1, <1>6, SimAssumption DEF Unanswered, Plain
<1>7. /\ slot \in Slots /\ home \in Slots /\ steady \in BOOLEAN /\ lost \in 0 .. MaxLost
      /\ ids \in {"none", "empty", "known"} /\ device \in {"none", "part", "full"}
  BY <1>1 DEF Plain
<1>8. CASE Remember(c)
  <2>1. PICK answer \in {Unknown, 0, 1} :
          /\ ActiveSlot(answer)
          /\ op' = [op EXCEPT ![c] = [@ EXCEPT !.todo = Rest(c), !.outer = answer]]
    BY <1>8 DEF Remember
  <2>2. /\ answer \in Slots \cup {Unknown}
        /\ steady' \in BOOLEAN /\ (steady' => steady) /\ lost' \in 0 .. MaxLost
    BY <1>1, <2>1, ActiveSlotIs
  <2> DEFINE new == [op[c] EXCEPT !.todo = Rest(c), !.outer = answer]
  <2>3. Rest(c) \in Seq(Steps)
    BY <1>3 DEF Goes
  <2>4. /\ new \in Operations /\ new.todo = Rest(c) /\ new.outer = answer
        /\ new.inner = op[c].inner
    BY <1>1, <2>3, OperationParts DEF Operations
  <2>5. op' = [op EXCEPT ![c] = new]
    BY <2>1
  <2> HIDE DEF new
  <2>6. Others(c) /\ op'[c] = new
    BY <1>1, <2>4, <2>5 DEF Others
  <2>7. At(c, "remember") /\ ~At(c, "enter")
    BY <1>8 DEF Remember, At
  <2>8. Proceeds(c)
    BY <1>2, <1>3, <1>4, <2>2, <2>4, <2>6, <2>7 DEF Proceeds, GuardInv
  <2>9. Touches(c)
    BY <1>7, <1>8, <2>2 DEF Touches, Remember, Cached
  <2> QED
    BY <2>8, <2>9
<1>9. CASE Enter(c)
  <2> DEFINE original(a) == IF a = Unknown THEN 0 ELSE a
             after(a) == IF original(a) = Now(c).of THEN Rest(c)
                         ELSE <<Step("select", Now(c).of)>> \o Rest(c)
  <2>1. PICK answer \in {Unknown, 0, 1} :
          /\ ActiveSlot(answer)
          /\ op' = [op EXCEPT ![c] = [@ EXCEPT !.todo = after(answer),
                                               !.inner = original(answer),
                                               !.blind = (answer # slot)]]
    BY <1>9 DEF Enter
  <2>2. /\ answer \in Slots \cup {Unknown}
        /\ steady' \in BOOLEAN /\ (steady' => steady) /\ lost' \in 0 .. MaxLost
    BY <1>1, <2>1, ActiveSlotIs
  <2>3. original(answer) \in Slots /\ original(answer) \in {0, 1}
    BY <2>2 DEF Slots, Unknown
  <2>4. t[1].do = "enter"
    BY <1>3, <1>9 DEF Enter, At
  <2>5. Goes(t, after(answer))
    <3>1. CASE original(answer) = Now(c).of
      BY <1>3, <3>1
    <3>2. CASE original(answer) # Now(c).of
      <4> DEFINE x == Step("select", Now(c).of)
      <4>1. x \in Steps /\ x.do = "select" /\ x.of = Now(c).of
        BY <1>3, StepTypes DEF Names
      <4>2. after(answer) = Instead(x, t)
        BY <1>3, <3>2 DEF Instead
      <4> HIDE DEF x, after
      <4> QED
        BY <1>2, <1>3, <2>4, <4>1, <4>2, ReplacedGoes
    <3> QED
      BY <3>1, <3>2
  <2> HIDE DEF after, original
  <2> DEFINE new == [op[c] EXCEPT !.todo = after(answer), !.inner = original(answer),
                                  !.blind = (answer # slot)]
  <2>6. after(answer) \in Seq(Steps)
    BY <2>5 DEF Goes
  <2>7. /\ new \in Operations /\ new.todo = after(answer) /\ new.outer = op[c].outer
        /\ new.inner = original(answer)
    BY <1>1, <2>3, <2>6, OperationParts DEF Operations
  <2>8. op' = [op EXCEPT ![c] = new]
    BY <2>1
  <2> HIDE DEF new
  <2>9. Others(c) /\ op'[c] = new
    BY <1>1, <2>7, <2>8 DEF Others
  <2>10. Entered(after(answer), original(answer))
    BY <2>3 DEF Entered
  <2>11. Proceeds(c)
    BY <1>2, <1>4, <2>3, <2>5, <2>7, <2>9, <2>10 DEF Proceeds
  <2>12. Touches(c)
    BY <1>7, <1>9, <2>2 DEF Touches, Enter, Cached
  <2> QED
    BY <2>11, <2>12
<1>10. CASE Select(c)
  <2>1. PICK done \in BOOLEAN :
          /\ SelectSlot(Now(c).of, done)
          /\ \/ At(c, "select") /\ op' = Then(c, IF done THEN Rest(c) ELSE Tail(Rest(c)))
             \/ At(c, "require") /\ op' = Then(c, IF done THEN Rest(c) ELSE <<>>)
    BY <1>10 DEF Select
  <2>2. /\ slot' \in Slots
        /\ steady' \in BOOLEAN /\ (steady' => steady) /\ lost' \in 0 .. MaxLost
    BY <1>1, <1>3, <2>1, SelectSlotIs
  <2>3. ~At(c, "enter")
    BY <2>1 DEF At
  <2>4. ASSUME done PROVE Proceeds(c)
    <3>1. /\ (IF done THEN Rest(c) ELSE Tail(Rest(c))) = Rest(c)
          /\ (IF done THEN Rest(c) ELSE <<>>) = Rest(c)
      BY <2>4
    <3>2. op' = Then(c, Rest(c))
      BY <2>1, <3>1, Zenon
    <3> QED
      BY <1>5, <2>3, <3>2
  <2>5. ASSUME ~done /\ At(c, "select") PROVE Proceeds(c)
    <3>0. (IF done THEN Rest(c) ELSE Tail(Rest(c))) = Tail(Tail(t))
      BY <1>3, <2>5
    <3>1. op' = Then(c, Tail(Tail(t))) /\ t[1].do = "select"
      BY <1>3, <2>1, <2>5, <3>0, Zenon DEF At
    <3>2. Goes(t, Tail(Tail(t))) /\ \A inner : Entered(t, inner) => Entered(Tail(Tail(t)), inner)
      BY <1>2, <1>3, <3>1, SkipGoes
    <3> QED
      BY <1>1, <1>2, <3>1, <3>2, ThenProceeds
  <2>6. ASSUME ~done /\ At(c, "require") PROVE Proceeds(c)
    <3>0. (IF done THEN Rest(c) ELSE <<>>) = <<>>
      BY <2>6
    <3>1. op' = Then(c, <<>>)
      <4>1. ~At(c, "select")
        BY <2>6 DEF At
      <4> QED
        BY <2>1, <2>6, <3>0, <4>1, Zenon
    <3> QED
      BY <1>1, <1>2, <3>1, EmptyGoes, ThenProceeds
  <2>7. Touches(c)
    BY <1>7, <1>10, <2>2 DEF Touches, Select, Cached
  <2> QED
    BY <2>1, <2>4, <2>5, <2>6, <2>7
<1>11. CASE Choose(c)
  <2>1. PICK done \in BOOLEAN : SelectSlot(Now(c).of, done)
    BY <1>11 DEF Choose
  <2>2. /\ slot' \in Slots
        /\ steady' \in BOOLEAN /\ (steady' => steady) /\ lost' \in 0 .. MaxLost
    BY <1>1, <1>3, <2>1, SelectSlotIs
  <2>3. op' = Then(c, Rest(c)) /\ ~At(c, "enter")
    BY <1>11 DEF Choose, At
  <2> QED
    BY <1>3, <1>5, <1>7, <1>11, <2>2, <2>3 DEF Touches, Choose, Cached
<1>12. CASE Answered(c)
  <2>1. op' = Then(c, Rest(c)) /\ ~At(c, "enter")
    BY <1>12 DEF Answered, At
  <2> QED
    BY <1>5, <1>7, <1>12, <2>1 DEF Touches, Answered, Cached
<1>13. CASE Missed(c)
  <2> DEFINE x == Read(Now(c).n - 1, Now(c).of)
  <2>1. ~At(c, "enter") /\ t[1].do = "read"
    BY <1>3, <1>13 DEF Missed, At
  <2>2. ASSUME Now(c).n = 1 PROVE Proceeds(c)
    <3>1. op' = Then(c, Rest(c))
      BY <1>13, <2>2 DEF Missed
    <3> QED
      BY <1>5, <2>1, <3>1
  <2>3. ASSUME Now(c).n # 1 PROVE Proceeds(c)
    <3>1. op' = Then(c, Instead(x, t))
      BY <1>3, <1>13, <2>3 DEF Missed, Instead
    <3>2. x \in Steps /\ x.do = "read" /\ x.of = t[1].of /\ x.of \in Slots
      <4>1. Now(c).n - 1 = 1
        BY <1>3, <2>3
      <4> QED
        BY <1>3, <4>1, StepTypes
    <3> HIDE DEF x
    <3>3. /\ Goes(t, Instead(x, t))
          /\ Entered(t, op[c].inner) => Entered(Instead(x, t), op[c].inner)
      BY <1>2, <1>3, <2>1, <3>2, ReplacedGoes
    <3> QED
      BY <1>1, <1>2, <3>1, <3>3, ThenProceeds
  <2> QED
    BY <1>6, <1>7, <1>13, <2>2, <2>3 DEF Touches, Missed, Cached
<1>14. CASE ReadIds(c)
  <2>1. op' = Then(c, Rest(c)) /\ ~At(c, "enter") /\ At(c, "ids")
    BY <1>14 DEF ReadIds, At
  <2>2. lost' \in 0 .. MaxLost /\ ids' \in {"none", "empty", "known"}
    BY <1>6, <1>7, <1>14 DEF ReadIds
  <2> QED
    BY <1>5, <1>7, <1>14, <2>1, <2>2 DEF Touches, ReadIds
<1>15. CASE ReadDevice(c)
  <2>1. op' = Then(c, Rest(c)) /\ ~At(c, "enter") /\ At(c, "device")
    BY <1>15 DEF ReadDevice, At
  <2>2. lost' \in 0 .. MaxLost /\ device' \in {"none", "part", "full"}
    BY <1>6, <1>7, <1>15 DEF ReadDevice
  <2> QED
    BY <1>5, <1>7, <1>15, <2>1, <2>2 DEF Touches, ReadDevice
<1>16. CASE Leave(c)
  <2> DEFINE x == Step("back", op[c].inner)
  <2>1. PICK answer \in {Unknown, 0, 1} :
          /\ ActiveSlot(answer)
          /\ op' = Then(c, IF answer \notin {Unknown, op[c].inner}
                           THEN <<x>> \o Rest(c) ELSE Rest(c))
    BY <1>16 DEF Leave
  <2>2. steady' \in BOOLEAN /\ (steady' => steady) /\ lost' \in 0 .. MaxLost
    BY <1>1, <2>1, ActiveSlotIs
  <2>3. At(c, "leave") /\ ~At(c, "enter") /\ t[1].do = "leave"
    BY <1>3, <1>16 DEF Leave, At
  <2>4. ASSUME answer \in {Unknown, op[c].inner} PROVE Proceeds(c)
    <3>1. op' = Then(c, Rest(c))
      BY <2>1, <2>4
    <3> QED
      BY <1>5, <2>3, <3>1
  <2>5. ASSUME answer \notin {Unknown, op[c].inner} PROVE Proceeds(c)
    <3>1. op' = Then(c, Instead(x, t))
      BY <1>3, <2>1, <2>5 DEF Instead
    <3>2. x \in Steps /\ x.do = "back" /\ x.of \in Slots
      BY <1>3, <2>3, StepTypes DEF Names
    <3> HIDE DEF x
    <3>3. /\ Goes(t, Instead(x, t))
          /\ Entered(t, op[c].inner) => Entered(Instead(x, t), op[c].inner)
      BY <1>2, <1>3, <2>3, <3>2, ReplacedGoes
    <3> QED
      BY <1>1, <1>2, <3>1, <3>3, ThenProceeds
  <2>6. Touches(c)
    BY <1>7, <1>16, <2>2 DEF Touches, Leave, Cached
  <2> QED
    BY <2>4, <2>5, <2>6
<1>17. CASE Back(c)
  <2>1. op' = Then(c, Rest(c)) /\ ~At(c, "enter")
    BY <1>17 DEF Back, At
  <2>2. \/ UNCHANGED <<slot, steady, lost>>
        \/ \E x \in Slots, done \in BOOLEAN : SelectSlot(x, done)
    <3>1. CASE At(c, "back")
      BY <1>3, <1>17, <3>1 DEF Back, At
    <3>2. CASE ~At(c, "back")
      BY <1>4, <1>17, <3>2 DEF Back
    <3> QED
      BY <3>1, <3>2
  <2>3. /\ slot' \in Slots
        /\ steady' \in BOOLEAN /\ (steady' => steady) /\ lost' \in 0 .. MaxLost
    BY <1>1, <1>7, <2>2, SelectSlotIs
  <2> QED
    BY <1>5, <1>7, <1>17, <2>1, <2>3 DEF Touches, Back, Cached
<1>18. CASE AskActive(c)
  <2>1. PICK answer \in {Unknown, 0, 1} : ActiveSlot(answer)
    BY <1>18 DEF AskActive
  <2>2. steady' \in BOOLEAN /\ (steady' => steady) /\ lost' \in 0 .. MaxLost
    BY <1>1, <2>1, ActiveSlotIs
  <2>3. op' = Then(c, Rest(c)) /\ ~At(c, "enter")
    BY <1>18 DEF AskActive, At
  <2> QED
    BY <1>5, <1>7, <1>18, <2>2, <2>3 DEF Touches, AskActive, Cached
<1> QED
  BY <1>8, <1>9, <1>10, <1>11, <1>12, <1>13, <1>14, <1>15, <1>16, <1>17, <1>18 DEF Command

-----------------------------------------------------------------------------
(* What holds of every build *)

Base == TypeInv /\ AloneInv /\ TodoInv /\ GuardInv /\ OnceInv

\* The invariants about the next state, in terms of what each caller has to do.
LEMMA PrimedParts ==
  ASSUME twoSlots' = twoSlots
  PROVE  /\ Slots' = Slots
         /\ TodoInv' <=> \A c \in Callers : Fit(op'[c].todo)
         /\ GuardInv' <=> \A c \in Callers : /\ op'[c].outer \in Slots \cup {Unknown}
                                             /\ op'[c].inner \in Slots \cup {Unknown}
                                             /\ Entered(op'[c].todo, op'[c].inner)
<1>1. Slots' = Slots
  BY DEF Slots
<1>2. ASSUME NEW c \in Callers PROVE Fit(op[c].todo)' <=> Fit(op'[c].todo)
  BY <1>1 DEF Fit, ReadAfterSelect, SelectThenRead, Shaped, Last, Before, Selecting
<1>3. ASSUME NEW c \in Callers
      PROVE  Entered(op[c].todo, op[c].inner)' <=> Entered(op'[c].todo, op'[c].inner)
  BY <1>1 DEF Entered
<1>4. TodoInv' <=> \A c \in Callers : Fit(op'[c].todo)
  BY <1>2 DEF TodoInv
<1>5. GuardInv' <=> \A c \in Callers : /\ op'[c].outer \in Slots \cup {Unknown}
                                       /\ op'[c].inner \in Slots \cup {Unknown}
                                       /\ Entered(op'[c].todo, op'[c].inner)
  BY <1>1, <1>3 DEF GuardInv, Unknown
<1> QED
  BY <1>1, <1>4, <1>5

LEMMA InitBase == Init => Base
<1> SUFFICES ASSUME Init PROVE Base
  OBVIOUS
<1>1. \A c \in Callers : op[c] = Idle
  BY DEF Init
<1>2. Idle \in Operations /\ Idle.todo = <<>> /\ Idle.outer = Unknown /\ Idle.inner = Unknown
  BY FitEmpty DEF Idle, Operations
<1>3. op \in [Callers -> Operations]
  BY <1>2 DEF Init
<1>4. Plain
  <2>1. twoSlots \in BOOLEAN
    BY SimAssumption DEF Init
  <2>2. ops \in 0 .. MaxOps /\ lost \in 0 .. MaxLost
    BY SimAssumption DEF Init
  <2> QED
    BY <2>1, <2>2 DEF Init, Plain
<1>5. TypeInv
  BY <1>3, <1>4, TypeParts
<1>6. TodoInv /\ GuardInv
  BY <1>1, <1>2, FitEmpty, EmptyGoes DEF TodoInv, GuardInv
<1>7. AloneInv
  BY <1>1, <1>2 DEF AloneInv, Init, Resting
<1>8. OnceInv
  BY <1>1, <1>2 DEF OnceInv, Init
<1> QED
  BY <1>5, <1>6, <1>7, <1>8 DEF Base

LEMMA StartsBase ==
  ASSUME Base, twoSlots' = twoSlots, NEW c \in Callers, NEW t \in Seq(Steps),
         NEW b \in BOOLEAN, Starts(c, t, b), Attached
  PROVE  Base'
<1>1. op \in [Callers -> Operations] /\ Plain
  BY TypeParts DEF Base
<1>2. /\ Others(c) /\ op'[c].todo = t
      /\ op'[c].outer = Unknown /\ op'[c].inner = Unknown
      /\ alone' <=> alone /\ \A d \in Callers : Resting(d)
      /\ steady' <=> steady /\ alone'
      /\ alone' \in BOOLEAN /\ steady' \in BOOLEAN /\ ops' \in 0 .. MaxOps
  BY <1>1, BeginIs DEF Starts
<1>3. TypeInv'
  <2>1. Plain'
    BY <1>1, <1>2, PrimedParts DEF Plain, Starts, Attached
  <2> QED
    BY <1>2, <2>1, TypeParts DEF Others
<1>4. Fit(t) /\ Entered(t, Unknown)
  <2>1. Fit(t) /\ Asks(t)
    BY DEF Starts, Program
  <2>2. \A i \in DOMAIN t : t # <<>>
    OBVIOUS
  <2> QED
    BY <2>1, <2>2 DEF Asks, Entered
<1>5. TodoInv' /\ GuardInv'
  <2>1. \A d \in Callers : Fit(op'[d].todo)
    BY <1>2, <1>4 DEF Others, Base, TodoInv
  <2>2. \A d \in Callers : /\ op'[d].outer \in Slots \cup {Unknown}
                           /\ op'[d].inner \in Slots \cup {Unknown}
                           /\ Entered(op'[d].todo, op'[d].inner)
    BY <1>2, <1>4 DEF Others, Base, GuardInv
  <2> QED
    BY <2>1, <2>2, PrimedParts
<1>6. alone' => \A d \in Callers : d # c => op'[d].todo = <<>>
  BY <1>2 DEF Others, Resting
<1>7. AloneInv'
  <2>1. alone' => \A d \in Callers : op'[d].todo = <<>> \/ initialized'
    BY <1>2, <1>6 DEF Starts
  <2>2. supported' => twoSlots'
    BY DEF Attached
  <2>3. connected' => initialized'
    BY DEF Attached
  <2> QED
    BY <1>2, <1>6, <2>1, <2>2, <2>3 DEF AloneInv, Resting
<1>8. OnceInv'
  <2>1. ids' = ids /\ device' = device
    BY DEF Starts
  <2>2. \A i \in DOMAIN t : /\ t[i].do = "ids" => ids = "none"
                            /\ t[i].do = "device" => device = "none"
    BY DEF Starts
  <2>3. alone' => \A d \in Callers : \A i \in DOMAIN op'[d].todo :
                    /\ op'[d].todo[i].do = "ids" => ids = "none"
                    /\ op'[d].todo[i].do = "device" => device = "none"
    BY <1>2, <1>6, <2>2
  <2> QED
    BY <2>1, <2>3 DEF OnceInv
<1> QED
  BY <1>3, <1>5, <1>7, <1>8 DEF Base

LEMMA InitModuleBase ==
  ASSUME Base, twoSlots' = twoSlots, NEW c \in Callers, InitModule(c), Attached
  PROVE  Base'
<1>1. /\ op \in [Callers -> Operations] /\ Plain
      /\ UNCHANGED <<slot, home, ids, device, op, alone, steady, ops>> /\ initialized'
  BY TypeParts DEF Base, InitModule
<1>2. TypeInv'
  <2>1. Plain'
    BY <1>1, PrimedParts DEF Plain, Attached
  <2> QED
    BY <1>1, <2>1, TypeParts
<1>3. TodoInv' /\ GuardInv'
  BY <1>1, PrimedParts DEF Base, TodoInv, GuardInv
<1>4. AloneInv'
  <2>1. (supported' => twoSlots') /\ (connected' => initialized')
    BY <1>1 DEF Attached
  <2> QED
    BY <1>1, <2>1 DEF Base, AloneInv, Resting
<1>5. OnceInv'
  BY <1>1 DEF Base, OnceInv
<1> QED
  BY <1>2, <1>3, <1>4, <1>5 DEF Base

LEMMA CommandBase ==
  ASSUME Base, twoSlots' = twoSlots, NEW c \in Callers, Command(c)
  PROVE  Base'
<1>1. Proceeds(c) /\ Touches(c)
  BY CommandStep DEF Base
<1>2. /\ op \in [Callers -> Operations] /\ Plain
  BY TypeParts DEF Base
<1>3. /\ UNCHANGED <<initialized, connected, checked, supported, alone, ops>>
  BY <1>1 DEF Touches, Kept
<1>4. Others(c) /\ op[c].todo # <<>> /\ Goes(op[c].todo, op'[c].todo)
  BY <1>1 DEF Proceeds
<1>5. TypeInv'
  <2>1. Plain'
    BY <1>1, <1>2, <1>3, PrimedParts DEF Plain, Touches
  <2> QED
    BY <1>4, <2>1, TypeParts DEF Others
<1>6. TodoInv' /\ GuardInv'
  <2>1. \A d \in Callers : Fit(op'[d].todo)
    BY <1>4 DEF Others, Base, TodoInv, Goes
  <2>2. \A d \in Callers : /\ op'[d].outer \in Slots \cup {Unknown}
                           /\ op'[d].inner \in Slots \cup {Unknown}
                           /\ Entered(op'[d].todo, op'[d].inner)
    BY <1>1, <1>4 DEF Others, Base, GuardInv, Proceeds
  <2> QED
    BY <2>1, <2>2, PrimedParts
<1>7. alone => /\ \A d \in Callers : d # c => op[d].todo = <<>> /\ op'[d].todo = <<>>
               /\ initialized
  BY <1>4 DEF Base, AloneInv, Others, Resting
<1>8. AloneInv'
  <2>1. supported' => twoSlots'
    BY <1>3 DEF Base, AloneInv
  <2>2. connected' => initialized'
    BY <1>3 DEF Base, AloneInv
  <2>3. steady' => alone'
    BY <1>1, <1>3 DEF Base, AloneInv, Touches
  <2>4. alone' => alone /\ initialized'
    BY <1>3, <1>7
  <2> QED
    BY <1>7, <2>1, <2>2, <2>3, <2>4 DEF AloneInv, Resting
<1>9. OnceInv'
  <2> DEFINE t == op[c].todo
             r == op'[c].todo
  <2> SUFFICES ASSUME alone', NEW i \in DOMAIN r
               PROVE  /\ r[i].do = "ids" => ids' = "none"
                      /\ r[i].do = "device" => device' = "none"
    BY <1>3, <1>7 DEF OnceInv
  <2>1. t \in Seq(Steps) /\ 1 \in DOMAIN t /\ Len(t) \in DOMAIN t /\ Now(c) = t[1] /\ Shaped(t)
    BY <1>2, <1>4, TodoIndex, OperationParts DEF Base, TodoInv, Fit
  <2>2. ASSUME NEW x \in {"ids", "device"}, r[i].do = x
        PROVE  (\E j \in DOMAIN t : t[j].do = x) /\ ~At(c, "ids") /\ ~At(c, "device")
    <3>1. PICK j \in DOMAIN t : j # 1 /\ t[j].do = x
      BY <1>4, <2>2 DEF Goes, Later
    <3>2. 1 # Len(t)
      BY <2>1, <3>1, TodoIndex
    <3>3. t[1].do \in Before(Last(t).do)
      BY <1>4, <2>1, <3>2 DEF Shaped
    <3>4. t[1].do \notin {"ids", "device"}
      BY <3>3 DEF Before
    <3> QED
      BY <2>1, <3>1, <3>4 DEF At
  <2>3. \A j \in DOMAIN t : /\ t[j].do = "ids" => ids = "none"
                            /\ t[j].do = "device" => device = "none"
    BY <1>3 DEF Base, OnceInv
  <2>4. /\ ~At(c, "ids") => ids' = ids
        /\ ~At(c, "device") => device' = device
    BY <1>1 DEF Touches
  <2> QED
    BY <2>2, <2>3, <2>4
<1> QED
  BY <1>5, <1>6, <1>8, <1>9 DEF Base

LEMMA NextBase == Base /\ [Next]_vars => Base'
<1> SUFFICES ASSUME Base, [Next]_vars PROVE Base'
  OBVIOUS
<1>1. CASE UNCHANGED vars
  <2>1. TypeInv' <=> TypeInv
    BY <1>1, PrimedParts, TypeParts DEF vars, Plain
  <2>2. TodoInv' /\ GuardInv'
    BY <1>1, PrimedParts DEF Base, TodoInv, GuardInv, vars
  <2>3. AloneInv' /\ OnceInv'
    BY <1>1 DEF Base, AloneInv, OnceInv, Resting, vars
  <2> QED
    BY <2>1, <2>2, <2>3 DEF Base
<1>2. CASE Next
  <2>1. PICK c \in Callers : Operation(c) \/ Command(c)
    BY <1>2 DEF Next
  <2>2. twoSlots' = twoSlots /\ Plain /\ AloneInv
    BY <1>2, TypeParts DEF Next, Base
  <2>3. CASE Operation(c)
    BY <2>2, <2>3, OperationStep, StartsBase, InitModuleBase
  <2>4. CASE Command(c)
    BY <2>2, <2>4, CommandBase
  <2> QED
    BY <2>1, <2>3, <2>4
<1> QED
  BY <1>1, <1>2

(***************************************************************************)
(* Whatever calls come, and whatever goes unanswered, every variable of    *)
(* RPIModuleInterface and every command of an operation has its type.      *)
(***************************************************************************)
THEOREM TypeCorrect == Spec => []TypeOK
<1>1. Base => TypeOK
  BY DEF Base, TypeInv
<1> QED
  BY <1>1, InitBase, NextBase, PTL DEF Spec

(***************************************************************************)
(* Of operations that never overlapped, none replaces identities or device *)
(* data that an earlier one read: the cached values of getSimInfo and      *)
(* getDeviceInfo are read only while there are none.                       *)
(***************************************************************************)
THEOREM KnownIsKept == Spec => KnownStays
<1> DEFINE Stay == alone' => /\ ids = "known" => ids' = "known"
                             /\ device = "full" => device' = "full"
<1>1. Base /\ [Next]_vars => [Stay]_vars
  <2> SUFFICES ASSUME Base, Next PROVE Stay
    OBVIOUS
  <2>1. PICK c \in Callers : Operation(c) \/ Command(c)
    BY DEF Next
  <2>2. twoSlots' = twoSlots /\ Plain /\ AloneInv
    BY TypeParts DEF Next, Base
  <2>3. CASE Operation(c)
    <3>1. UNCHANGED <<ids, device>>
      BY <2>2, <2>3, OperationStep DEF InitModule, Starts
    <3> QED
      BY <3>1
  <2>4. CASE Command(c)
    <3>1. Touches(c)
      BY <2>4, CommandStep DEF Base
    <3>2. /\ alone' <=> alone
          /\ ids' # ids => At(c, "ids")
          /\ device' # device => At(c, "device")
      BY <3>1 DEF Touches, Kept
    <3>3. op \in [Callers -> Operations]
      BY TypeParts DEF Base
    <3>4. /\ At(c, "ids") /\ alone => ids = "none"
          /\ At(c, "device") /\ alone => device = "none"
      BY <3>3, OperationParts DEF Base, OnceInv, At
    <3> QED
      BY <3>2, <3>4
  <2> QED
    BY <2>1, <2>3, <2>4
<1>2. [][Stay]_vars => KnownStays
  BY PTL DEF KnownStays
<1> QED
  BY <1>1, <1>2, InitBase, NextBase, PTL DEF Spec

-----------------------------------------------------------------------------
(* What is read, and where the module is left *)

\* A command that selects nothing is not followed by a query.
LEMMA NoQueryNext ==
  ASSUME op \in [Callers -> Operations], TodoInv, NEW c \in Callers, op[c].todo # <<>>,
         Now(c).do \notin Selecting, op' = Then(c, Rest(c)), op'[c].todo # <<>>
  PROVE  op'[c].todo[1].do # "read"
<1> DEFINE t == op[c].todo
           r == Tail(t)
<1>1. t \in Seq(Steps) /\ Now(c) = t[1] /\ Fit(t)
  BY OperationParts DEF TodoInv
<1>2. /\ r \in Seq(Steps)
      /\ r # <<>> /\ r[1].do = "read" => t[1].do \in Selecting
  BY <1>1, TodoTail, FitTail
<1>3. op'[c].todo = r
  BY <1>2, ThenIs DEF Rest
<1> QED
  BY <1>1, <1>2, <1>3

LEMMA CommandReads ==
  ASSUME Base, ReadInv, twoSlots' = twoSlots, alone, supported = twoSlots,
         NEW c \in Callers, Command(c),
         op'[c].todo # <<>>, op'[c].todo[1].do = "read",
         op'[c].todo[1].of = 0 => ~op'[c].blind
  PROVE  slot' = op'[c].todo[1].of
<1> DEFINE t == op[c].todo
           r == op'[c].todo
<1>1. op \in [Callers -> Operations] /\ Plain /\ TodoInv /\ GuardInv /\ t # <<>>
  BY TypeParts, CommandStep DEF Base, Proceeds
<1>2. /\ t \in Seq(Steps) /\ Fit(t) /\ Now(c) = t[1] /\ Now(c) \in Steps
      /\ Now(c).of \in Slots /\ Rest(c) = Tail(t) /\ Tail(t) \in Seq(Steps)
  BY <1>1, NextCommand, TodoTail
<1>3. Tail(t) # <<>> /\ Tail(t)[1].do = "read" =>
        t[1].do \in Selecting /\ t[1].of = Tail(t)[1].of
  BY <1>1, <1>2, FitTail
<1>4. ASSUME op' = Then(c, Rest(c)), Now(c).do \notin Selecting PROVE FALSE
  BY <1>1, <1>4, NoQueryNext
<1>6. CASE Remember(c)
  <2>1. op'[c].todo = Tail(t) /\ t[1].do \notin Selecting
    BY <1>1, <1>2, <1>6 DEF Remember, At, Selecting, Operations
  <2> QED
    BY <1>3, <2>1
<1>7. CASE Enter(c)
  <2> DEFINE original(a) == IF a = Unknown THEN 0 ELSE a
             after(a) == IF original(a) = Now(c).of THEN Rest(c)
                         ELSE <<Step("select", Now(c).of)>> \o Rest(c)
  <2>1. PICK answer \in {Unknown, 0, 1} :
          /\ ActiveSlot(answer)
          /\ op' = [op EXCEPT ![c] = [@ EXCEPT !.todo = after(answer),
                                               !.inner = original(answer),
                                               !.blind = (answer # slot)]]
          /\ slot' = slot
    BY <1>7 DEF Enter
  <2> DEFINE new == [op[c] EXCEPT !.todo = after(answer), !.inner = original(answer),
                                  !.blind = (answer # slot)]
  <2>2. new.todo = after(answer)
    BY <1>1 DEF Operations
  <2>3. new.blind <=> answer # slot
    BY <1>1, Zenon DEF Operations
  <2>4. op'[c] = new
    BY <1>1, <2>1
  <2>5. r = after(answer) /\ (op'[c].blind <=> answer # slot)
    BY <2>2, <2>3, <2>4, Zenon
  <2>6. /\ answer = 1 => slot = 1
        /\ slot \in {0, 1} /\ Now(c).of \in {0, 1} /\ Unknown \notin {0, 1}
    BY <1>1, <1>2, <2>1, ActiveSlotIs DEF Plain, Slots, Unknown
  <2> HIDE DEF new
  <2>7. CASE original(answer) = Now(c).of
    <3>1. r = Tail(t) /\ r[1].of = Now(c).of
      BY <1>2, <1>3, <2>5, <2>7
    <3>2. CASE Now(c).of = 0
      <4>1. answer = slot
        BY <2>5, <3>1, <3>2
      <4> QED
        BY <2>1, <2>6, <2>7, <3>1, <3>2, <4>1
    <3>3. CASE Now(c).of = 1
      BY <2>1, <2>6, <2>7, <3>1, <3>3
    <3> QED
      BY <2>6, <3>2, <3>3
  <2>8. CASE original(answer) # Now(c).of
    <3> DEFINE x == Step("select", Now(c).of)
    <3>1. x \in Steps /\ x.do = "select"
      BY <1>2, StepTypes DEF Names
    <3>2. r = Instead(x, t)
      BY <1>2, <2>5, <2>8 DEF Instead
    <3> HIDE DEF x, after, original
    <3>3. Instead(x, t)[1] = x
      BY <1>1, <1>2, <3>1, TodoReplaced
    <3> QED
      BY <3>1, <3>2, <3>3
  <2> QED
    BY <2>7, <2>8
<1>8. CASE Select(c)
  <2>1. PICK done \in BOOLEAN :
          /\ SelectSlot(Now(c).of, done)
          /\ \/ At(c, "select") /\ op' = Then(c, IF done THEN Rest(c) ELSE Tail(Rest(c)))
             \/ At(c, "require") /\ op' = Then(c, IF done THEN Rest(c) ELSE <<>>)
    BY <1>8 DEF Select
  <2>2. CASE done
    <3>1. /\ (IF done THEN Rest(c) ELSE Tail(Rest(c))) = Rest(c)
          /\ (IF done THEN Rest(c) ELSE <<>>) = Rest(c)
      BY <2>2
    <3>2. op' = Then(c, Tail(t))
      BY <1>2, <2>1, <3>1, Zenon
    <3>3. r = Tail(t)
      BY <1>1, <1>2, <3>2, ThenIs
    <3>4. slot' = Now(c).of
      BY <1>1, <1>2, <2>1, <2>2, SelectSlotIs
    <3> QED
      BY <1>2, <1>3, <3>3, <3>4
  <2>3. CASE ~done /\ At(c, "select")
    <3>0. (IF done THEN Rest(c) ELSE Tail(Rest(c))) = Tail(Tail(t)) /\ ~At(c, "require")
      BY <1>2, <2>3 DEF At
    <3>1. op' = Then(c, Tail(Tail(t))) /\ t[1].do = "select"
      BY <1>2, <2>1, <2>3, <3>0, Zenon DEF At
    <3>2. /\ Tail(Tail(t)) \in Seq(Steps)
          /\ Tail(Tail(t)) # <<>> => Tail(Tail(t))[1].do # "read"
      BY <1>1, <1>2, <3>1, SkipGoes DEF Goes
    <3>3. r = Tail(Tail(t))
      BY <1>1, <3>1, <3>2, ThenIs
    <3> QED
      BY <3>2, <3>3
  <2>4. CASE ~done /\ At(c, "require")
    <3>0. (IF done THEN Rest(c) ELSE <<>>) = <<>> /\ ~At(c, "select")
      BY <2>4 DEF At
    <3>1. op' = Then(c, <<>>)
      BY <2>1, <3>0, Zenon
    <3>2. r = <<>>
      BY <1>1, <3>1, FitEmpty, ThenIs
    <3> QED
      BY <3>2
  <2> QED
    BY <2>1, <2>2, <2>3, <2>4
<1>9. CASE Missed(c)
  <2>1. /\ op' = Then(c, IF Now(c).n = 1 THEN Rest(c)
                         ELSE <<Read(Now(c).n - 1, Now(c).of)>> \o Rest(c))
        /\ slot' = slot /\ At(c, "read") /\ Now(c).do \notin Selecting
    BY <1>9 DEF Missed, At, Selecting
  <2>2. CASE Now(c).n = 1
    <3>1. op' = Then(c, Rest(c))
      BY <2>1, <2>2
    <3> QED
      BY <1>4, <2>1, <3>1
  <2>3. CASE Now(c).n # 1
    <3> DEFINE x == Read(Now(c).n - 1, Now(c).of)
    <3>1. op' = Then(c, Instead(x, t))
      BY <1>2, <2>1, <2>3 DEF Instead
    <3>2. x \in Steps /\ x.of = Now(c).of
      <4>1. Now(c).n - 1 = 1
        BY <1>1, <2>3, OperationParts
      <4> QED
        BY <1>2, <4>1, StepTypes
    <3> HIDE DEF x
    <3>3. Instead(x, t)[1] = x /\ Instead(x, t) \in Seq(Steps) /\ Instead(x, t) # <<>>
      BY <1>1, <1>2, <3>2, TodoReplaced
    <3>4. r = Instead(x, t) /\ op'[c].blind = op[c].blind
      BY <1>1, <3>1, <3>3, ThenIs
    <3>5. slot = Now(c).of
      BY <2>1, <3>2, <3>3, <3>4 DEF ReadInv
    <3> QED
      BY <2>1, <3>2, <3>3, <3>4, <3>5
  <2> QED
    BY <2>2, <2>3
<1>10. CASE Leave(c)
  <2> DEFINE x == Step("back", op[c].inner)
  <2>1. PICK answer \in {Unknown, 0, 1} :
          op' = Then(c, IF answer \notin {Unknown, op[c].inner}
                        THEN <<x>> \o Rest(c) ELSE Rest(c))
    BY <1>10 DEF Leave
  <2>2. At(c, "leave") /\ Now(c).do \notin Selecting
    BY <1>10 DEF Leave, At, Selecting
  <2>3. CASE answer \in {Unknown, op[c].inner}
    <3>1. op' = Then(c, Rest(c))
      BY <2>1, <2>3
    <3> QED
      BY <1>4, <2>2, <3>1
  <2>4. CASE answer \notin {Unknown, op[c].inner}
    <3>1. op' = Then(c, Instead(x, t))
      BY <1>2, <2>1, <2>4 DEF Instead
    <3>2. x \in Steps /\ x.do = "back"
      BY <1>1, <2>2, NextCommand, StepTypes DEF Names
    <3> HIDE DEF x
    <3>3. Instead(x, t)[1] = x /\ Instead(x, t) \in Seq(Steps)
      BY <1>1, <1>2, <3>2, TodoReplaced
    <3>4. r = Instead(x, t)
      BY <1>1, <3>1, <3>3, ThenIs
    <3> QED
      BY <3>2, <3>3, <3>4
  <2> QED
    BY <2>3, <2>4
<1>11. CASE \/ AskActive(c) \/ Choose(c) \/ Answered(c) \/ ReadIds(c) \/ ReadDevice(c)
            \/ Back(c)
  <2>1. op' = Then(c, Rest(c))
    BY <1>11 DEF AskActive, Choose, Answered, ReadIds, ReadDevice, Back
  <2>2. Now(c).do \in {"ask", "choose", "read", "ids", "device", "back", "restore",
                       "reselect"}
    BY <1>11 DEF AskActive, Choose, Answered, ReadIds, ReadDevice, Back, At
  <2> QED
    BY <1>4, <2>1, <2>2 DEF Selecting
<1> QED
  BY <1>6, <1>7, <1>8, <1>9, <1>10, <1>11 DEF Command

\* The next command of a caller after a step.
LEMMA NextHead ==
  ASSUME op' \in [Callers -> Operations], NEW c \in Callers, op'[c].todo # <<>>
  PROVE  Now(c)' = op'[c].todo[1]
<1>1. op'[c].todo \in Seq(Steps)
  BY DEF Operations
<1>2. Head(op'[c].todo) = op'[c].todo[1]
  BY <1>1, TodoIndex
<1> QED
  BY <1>2 DEF Now

LEMMA NextReads ==
  ASSUME Base, ReadInv, [Next]_vars
  PROVE  ReadInv'
<1>1. CASE UNCHANGED vars
  BY <1>1 DEF ReadInv, At, Now, vars
<1>2. CASE Next
  <2> SUFFICES ASSUME alone', supported' = twoSlots', NEW d \in Callers,
                      At(d, "read")', Now(d)'.of = 0 => ~op'[d].blind
               PROVE  slot' = Now(d)'.of
    BY DEF ReadInv
  <2>1. PICK c \in Callers : Operation(c) \/ Command(c)
    BY <1>2 DEF Next
  <2>2. twoSlots' = twoSlots /\ Plain /\ AloneInv /\ op \in [Callers -> Operations]
    BY <1>2, TypeParts DEF Next, Base
  <2>3. op' \in [Callers -> Operations]
    BY NextBase, TypeParts DEF Base
  <2>4. op'[d].todo # <<>> /\ Now(d)' = op'[d].todo[1] /\ op'[d].todo[1].do = "read"
    BY <2>3, NextHead DEF At
  <2>5. CASE InitModule(c)
    <3>1. op' = op /\ alone /\ ~initialized
      BY <2>5 DEF InitModule
    <3>2. Resting(d)
      BY <2>2, <3>1 DEF AloneInv
    <3> QED
      BY <2>4, <3>1, <3>2 DEF Resting
  <2>6. ASSUME NEW t \in Seq(Steps), NEW b \in BOOLEAN, Starts(c, t, b)
        PROVE  slot' = op'[d].todo[1].of
    <3>1. /\ Others(c) /\ op'[c].todo = t /\ op'[c].blind = b
          /\ \A e \in Callers : Resting(e)
      BY <2>2, <2>6, BeginIs DEF Starts
    <3>2. d = c /\ t # <<>> /\ t[1].do = "read" /\ (t[1].of = 0 => ~b)
      BY <2>4, <3>1 DEF Others, Resting
    <3>3. ~twoSlots /\ slot' = slot
      BY <2>2, <2>6, <3>2 DEF Starts, Plain
    <3>4. t[1].of \in Slots
      BY <2>6, <3>2, TodoIndex DEF Starts, Program, Fit
    <3>5. t[1].of = 0 /\ slot = 0
      BY <2>2, <3>3, <3>4 DEF Slots, Plain
    <3> QED
      BY <3>1, <3>2, <3>3, <3>5
  <2>7. CASE Command(c)
    <3>1. Proceeds(c) /\ Touches(c)
      BY <2>7, CommandStep DEF Base
    <3>2. alone /\ supported = twoSlots
      BY <2>2, <3>1 DEF Touches, Kept
    <3>3. d = c
      BY <2>2, <2>4, <3>1, <3>2 DEF AloneInv, Proceeds, Others, Resting
    <3> QED
      BY <2>2, <2>4, <2>7, <3>2, <3>3, CommandReads
  <2> QED
    BY <2>1, <2>2, <2>4, <2>5, <2>6, <2>7, OperationStep
<1> QED
  BY <1>1, <1>2

(***************************************************************************)
(* What is reported of the second slot was read while the module worked on *)
(* it, in whichever order the module lists its slots: SimSlotGuard,        *)
(* get_sim_status_slot and get_dual_sim_status select before they read,    *)
(* and skip what they could not select for.  For the first slot            *)
(* SimSlotGuard may select nothing, and it takes an answer that names the  *)
(* active slot.                                                            *)
(***************************************************************************)
THEOREM ReadsItsSlot == Spec => DataFromSlot
<1> DEFINE Own == \A c \in Callers :
                    /\ Answered(c)
                    /\ alone /\ supported = twoSlots
                    /\ Now(c).of = 0 => ~op[c].blind
                    => slot = Now(c).of
           RInv == Base /\ ReadInv
<1>1. Init => RInv
  <2> SUFFICES ASSUME Init PROVE ReadInv
    BY InitBase
  <2> QED
    BY DEF Init, ReadInv, At, Idle
<1>2. RInv /\ [Next]_vars => RInv'
  BY NextBase, NextReads
<1>3. RInv /\ [Next]_vars => [Own]_vars
  BY DEF ReadInv, Answered
<1>4. [][Own]_vars => DataFromSlot
  BY PTL DEF DataFromSlot
<1> HIDE DEF RInv, Own
<1> QED
  BY <1>1, <1>2, <1>3, <1>4, PTL DEF Spec

\* After the next command, where it is not one that has to be remembered.
LEMMA WayOn ==
  ASSUME NEW t \in Seq(Steps), t # <<>>, Fit(t), Tail(t) # <<>>,
         t[1].do \notin {"remember", "enter", "require"},
         NEW outer, NEW inner, NEW on, NEW to, Way(t, outer, inner, on, to),
         NEW now, Last(t).do \in {"reselect", "read", "ids", "device"} => now = on,
         t[1].do = "restore" => now = to
  PROVE  Way(Tail(t), outer, inner, now, to)
<1> DEFINE r == Tail(t)
<1>1. /\ r \in Seq(Steps) /\ Last(r) = Last(t)
      /\ 1 \in DOMAIN r /\ 2 \in DOMAIN t /\ r[1] = t[2]
  <2>1. /\ r \in Seq(Steps) /\ Last(r) = Last(t)
        /\ \A i \in DOMAIN r : i + 1 \in DOMAIN t /\ r[i] = t[i + 1]
    BY TodoTail
  <2>2. 1 \in DOMAIN r
    BY <2>1, TodoIndex
  <2>3. 1 + 1 = 2
    OBVIOUS
  <2> QED
    BY <2>1, <2>2, <2>3
<1>2. Shaped(t) /\ 1 \in DOMAIN t
  BY TodoIndex DEF Fit
<1>3. r[1].do # "remember" /\ (Last(t).do = "leave" => r[1].do # "enter")
  BY <1>1, <1>2 DEF Shaped
<1>5. Len(t) > 1 /\ Len(t) \in Nat /\ DOMAIN t = 1 .. Len(t)
  BY TodoTail, TodoIndex
<1>6. ASSUME Last(t).do = "ask" PROVE t[1].do # "ask" /\ (r[1].do = "ask" => now = to)
  <2>1. t[1].do \in Before("ask")
    BY <1>2, <1>5, <1>6 DEF Shaped
  <2>2. ASSUME r[1].do = "ask" PROVE t[1].do = "restore"
    <3>1. t[2].do \notin Before("ask")
      BY <1>1, <2>2 DEF Before
    <3>2. Len(t) = 2
      BY <1>1, <1>2, <1>6, <3>1 DEF Shaped
    <3>3. t[Len(t) - 1].do = "restore"
      BY <1>2, <1>5, <1>6 DEF Shaped
    <3> QED
      BY <3>2, <3>3
  <2> QED
    BY <2>1, <2>2 DEF Before
<1> HIDE DEF r
<1>4. Way(r, outer, inner, now, to)
  BY <1>1, <1>3, <1>6 DEF Way
<1> QED
  BY <1>4 DEF r

LEMMA CommandGoesBack ==
  ASSUME Base, BackInv, twoSlots' = twoSlots, steady,
         NEW c \in Callers, Command(c), steady'
  PROVE  /\ op'[c].todo # <<>> =>
              Way(op'[c].todo, op'[c].outer, op'[c].inner, slot', home')
         /\ op'[c].todo = <<>> => slot' = home'
<1> DEFINE t == op[c].todo
           r == op'[c].todo
           Goal == /\ r # <<>> => Way(r, op'[c].outer, op'[c].inner, slot', home')
                   /\ r = <<>> => slot' = home'
<1>1. op \in [Callers -> Operations] /\ Plain /\ TodoInv /\ GuardInv /\ t # <<>>
  BY TypeParts, CommandStep DEF Base, Proceeds
<1>2. /\ t \in Seq(Steps) /\ Fit(t) /\ Now(c) = t[1] /\ Now(c) \in Steps
      /\ Now(c).of \in Slots /\ Rest(c) = Tail(t) /\ Tail(t) \in Seq(Steps)
  BY <1>1, NextCommand, TodoTail
<1>3. Way(t, op[c].outer, op[c].inner, slot, home)
  BY <1>1 DEF BackInv, Resting
<1>4. /\ 1 \in DOMAIN t /\ Len(t) \in Nat /\ Len(t) >= 1 /\ Shaped(t)
      /\ Tail(t) = <<>> => Len(t) = 1 /\ Last(t) = t[1]
      /\ Tail(t) # <<>> => Last(Tail(t)) = Last(t) /\ Len(t) > 1
  BY <1>1, <1>2, TodoIndex, TodoTail DEF Fit
<1>5. Len(t) > 1 => t[1].do \in Before(Last(t).do)
  BY <1>4 DEF Shaped
<1>6. Last(t).do \notin {"remember", "enter", "select", "require"}
  BY <1>1, <1>4 DEF Shaped
<1>7. home \in Slots /\ slot \in Slots
  BY <1>1 DEF Plain
\* A command that leaves the rest to be done, with the slot that it is on now.
<1>8. ASSUME op' = Then(c, Rest(c)), home' = home,
             t[1].do \notin {"remember", "enter", "require"},
             Last(t).do \in {"reselect", "read", "ids", "device"} /\ Len(t) > 1 => slot' = slot,
             Len(t) = 1 \/ t[1].do = "restore" => slot' = home
      PROVE  Goal
  <2>1. r = Tail(t) /\ (r # <<>> => op'[c].outer = op[c].outer /\ op'[c].inner = op[c].inner)
    BY <1>1, <1>2, <1>8, ThenIs
  <2>2. CASE Tail(t) = <<>>
    BY <1>4, <1>8, <2>1, <2>2
  <2>3. CASE Tail(t) # <<>>
    <3>1. Way(Tail(t), op[c].outer, op[c].inner, slot', home)
      BY <1>1, <1>2, <1>3, <1>4, <1>8, <2>3, WayOn
    <3> QED
      BY <1>8, <2>1, <2>3, <3>1
  <2> QED
    BY <2>2, <2>3
<1>9. CASE Remember(c)
  <2>1. PICK answer \in {Unknown, 0, 1} :
          /\ ActiveSlot(answer)
          /\ op' = [op EXCEPT ![c] = [@ EXCEPT !.todo = Rest(c), !.outer = answer]]
          /\ slot' = slot /\ home' = home
          /\ At(c, "remember")
    BY <1>9 DEF Remember
  <2>2. r = Tail(t) /\ op'[c].outer = answer /\ t[1].do = "remember"
    BY <1>1, <1>2, <2>1 DEF Operations, At
  <2>3. answer = slot
    BY <1>1, <1>7, <2>1, ActiveSlotIs
  <2>4. Tail(t) # <<>>
    BY <1>4, <1>6, <2>2
  <2>5. Last(t).do \in {"restore", "reselect", "ask"} /\ slot = home
    BY <1>3, <1>4, <1>5, <2>2, <2>4 DEF Before, Way
  <2>6. 2 \in DOMAIN t /\ r[1] = t[2] /\ r[1].do # "remember"
    <3>1. 1 \in DOMAIN r /\ 1 + 1 = 2
      BY <1>2, <2>2, <2>4, TodoIndex
    <3>2. 2 \in DOMAIN t /\ r[1] = t[2]
      BY <1>1, <1>2, <2>2, <3>1, TodoTail
    <3> QED
      BY <1>1, <1>4, <3>2 DEF Shaped
  <2>7. Last(t).do = "reselect" => r[1].do = "require"
    <3> SUFFICES ASSUME Last(t).do = "reselect" PROVE r[1].do = "require"
      OBVIOUS
    <3>1. r[1].do # "read"
      <4>1. ReadAfterSelect(t) /\ 2 - 1 = 1
        BY <1>2 DEF Fit
      <4>2. t[2].do = "read" => t[2 - 1].do \in Selecting
        BY <2>6, <4>1 DEF ReadAfterSelect
      <4> QED
        BY <2>2, <2>6, <4>1, <4>2 DEF Selecting
    <3>2. Len(t) # 2
      <4>0. Len(t) > 1 /\ ~(1 > 1)
        BY <1>4, <2>4
      <4>1. Shaped(t) /\ t # <<>> /\ Len(t) # 1
        BY <1>1, <1>4, <4>0, Zenon
      <4>2. t[Len(t) - 1].do = "read"
        BY <4>1 DEF Shaped
      <4>3. Len(t) = 2 => Len(t) - 1 = 1
        OBVIOUS
      <4> QED
        BY <2>2, <4>2, <4>3
    <3>3. t[2].do \in Before("reselect")
      BY <1>1, <1>4, <2>6, <3>2 DEF Shaped
    <3> QED
      BY <2>6, <3>1, <3>3 DEF Before
  <2> HIDE DEF t, r
  <2>8. Way(r, op'[c].outer, op'[c].inner, slot', home')
    BY <1>4, <2>1, <2>2, <2>3, <2>4, <2>5, <2>6, <2>7 DEF Way
  <2> QED
    BY <2>2, <2>4, <2>8 DEF t, r
<1>10. CASE Enter(c)
  <2> DEFINE original(a) == IF a = Unknown THEN 0 ELSE a
             after(a) == IF original(a) = Now(c).of THEN Rest(c)
                         ELSE <<Step("select", Now(c).of)>> \o Rest(c)
  <2>1. PICK answer \in {Unknown, 0, 1} :
          /\ ActiveSlot(answer)
          /\ op' = [op EXCEPT ![c] = [@ EXCEPT !.todo = after(answer),
                                               !.inner = original(answer),
                                               !.blind = (answer # slot)]]
          /\ slot' = slot /\ home' = home
          /\ At(c, "enter")
    BY <1>10 DEF Enter
  <2>2. answer = slot /\ original(answer) = slot
    <3>1. answer = slot
      BY <1>1, <1>7, <2>1, ActiveSlotIs
    <3> QED
      BY <1>7, <3>1 DEF Slots, Unknown
  <2>3. /\ r = after(answer) /\ op'[c].inner = slot /\ op'[c].outer = op[c].outer
        /\ t[1].do = "enter"
    BY <1>1, <1>2, <2>1, <2>2 DEF Operations, At
  <2>4. Tail(t) # <<>> /\ Len(t) > 1
    BY <1>4, <1>6, <2>3
  <2>5. Last(t).do \in {"restore", "leave"}
    BY <1>5, <2>3, <2>4 DEF Before
  <2>6. /\ r # <<>> /\ Last(r) = Last(t) /\ r[1].do # "remember"
        /\ Last(t).do = "leave" => r[1].do # "enter"
    <3>1. CASE slot = Now(c).of
      <4>1. r = Tail(t)
        BY <1>2, <2>2, <2>3, <3>1
      <4>2. 1 \in DOMAIN Tail(t)
        BY <1>2, <2>4, TodoIndex
      <4>3. 1 + 1 \in DOMAIN t /\ Tail(t)[1] = t[1 + 1]
        BY <1>1, <1>2, <4>2, TodoTail
      <4>4. t[1 + 1].do # "remember" /\ (Last(t).do = "leave" => t[1 + 1].do # "enter")
        BY <1>1, <1>4, <4>3 DEF Shaped
      <4> QED
        BY <1>4, <2>4, <4>1, <4>3, <4>4
    <3>2. CASE slot # Now(c).of
      <4> DEFINE x == Step("select", Now(c).of)
      <4>1. x \in Steps /\ x.do = "select"
        BY <1>2, StepTypes DEF Names
      <4>2. r = Instead(x, t)
        BY <1>2, <2>2, <2>3, <3>2 DEF Instead
      <4> HIDE DEF x, after, original
      <4>3. /\ Instead(x, t)[1] = x /\ Instead(x, t) # <<>>
            /\ Last(Instead(x, t)) = Last(t)
        BY <1>1, <1>2, <2>4, <4>1, TodoReplaced
      <4> QED
        BY <4>1, <4>2, <4>3
    <3> QED
      BY <3>1, <3>2
  <2> HIDE DEF t, r, after, original
  <2>7. Way(r, op'[c].outer, op'[c].inner, slot', home')
    BY <1>3, <2>1, <2>3, <2>5, <2>6 DEF Way
  <2> QED
    BY <2>6, <2>7 DEF t, r
<1>11. CASE Select(c)
  <2>1. PICK done \in BOOLEAN :
          /\ SelectSlot(Now(c).of, done)
          /\ \/ At(c, "select") /\ op' = Then(c, IF done THEN Rest(c) ELSE Tail(Rest(c)))
             \/ At(c, "require") /\ op' = Then(c, IF done THEN Rest(c) ELSE <<>>)
          /\ home' = home
    BY <1>11 DEF Select
  <2>2. done /\ slot' = Now(c).of
    BY <1>1, <1>2, <2>1, SelectSlotIs
  <2>3. op' = Then(c, Rest(c))
    <3>1. /\ (IF done THEN Rest(c) ELSE Tail(Rest(c))) = Rest(c)
          /\ (IF done THEN Rest(c) ELSE <<>>) = Rest(c)
      BY <2>2
    <3> QED
      BY <2>1, <3>1, Zenon
  <2>4. t[1].do \in {"select", "require"} /\ Len(t) > 1 /\ Tail(t) # <<>>
    BY <1>2, <1>4, <1>6, <2>1 DEF At
  <2>5. CASE t[1].do = "select"
    <3>1. Last(t).do \notin {"reselect", "read", "ids", "device"}
      BY <1>5, <2>4, <2>5 DEF Before
    <3>2. Len(t) # 1
      <4>1. Len(t) > 1
        BY <2>4
      <4>2. ~(1 > 1)
        OBVIOUS
      <4> QED
        BY <4>1, <4>2, Zenon
    <3>3. t[1].do \notin {"remember", "enter", "require", "restore"}
      BY <2>5
    <3>4. ~(Len(t) = 1 \/ t[1].do = "restore")
      BY <3>2, <3>3
    <3> QED
      BY <1>8, <2>1, <2>3, <3>1, <3>3, <3>4
  <2>6. CASE t[1].do = "require"
    <3>1. Last(t).do = "reselect" /\ op[c].outer = home
      BY <1>3, <1>5, <2>4, <2>6 DEF Before, Way
    <3>2. r = Tail(t) /\ op'[c].outer = op[c].outer
      BY <1>1, <1>2, <2>3, <2>4, ThenIs
    <3>3. t[1].of = Last(t).of
      BY <1>1, <1>4, <3>1 DEF Shaped
    <3>4. r[1].do # "remember"
      <4>1. 1 \in DOMAIN Tail(t)
        BY <1>2, <2>4, TodoIndex
      <4>2. 1 + 1 \in DOMAIN t /\ Tail(t)[1] = t[1 + 1]
        BY <1>1, <1>2, <4>1, TodoTail
      <4> QED
        BY <1>1, <1>4, <3>2, <4>2 DEF Shaped
    <3>5. Last(r) = Last(t) /\ r # <<>> /\ slot' = Last(r).of
      BY <1>2, <1>4, <2>2, <2>4, <3>2, <3>3
    <3> HIDE DEF t, r
    <3>6. Way(r, op'[c].outer, op'[c].inner, slot', home')
      BY <2>1, <3>1, <3>2, <3>4, <3>5 DEF Way
    <3> QED
      BY <3>5, <3>6 DEF t, r
  <2> QED
    BY <2>4, <2>5, <2>6
<1>12. CASE Choose(c)
  <2>1. PICK done \in BOOLEAN : SelectSlot(Now(c).of, done)
    BY <1>12 DEF Choose
  <2>2. slot' = Now(c).of /\ home' = Now(c).of /\ op' = Then(c, Rest(c)) /\ t[1].do = "choose"
    BY <1>1, <1>2, <1>12, <2>1, SelectSlotIs DEF Choose, At
  <2>3. Tail(t) = <<>>
    BY <1>4, <1>5, <2>2 DEF Before
  <2>4. r = <<>>
    BY <1>1, <1>2, <2>2, <2>3, ThenIs
  <2> QED
    BY <2>2, <2>4
<1>13. CASE Answered(c)
  <2>1. op' = Then(c, Rest(c)) /\ slot' = slot /\ home' = home /\ t[1].do = "read"
    BY <1>2, <1>13 DEF Answered, At
  <2>2. Len(t) = 1 => slot' = home
    BY <1>3, <1>4, <2>1 DEF Way, Last
  <2> QED
    BY <1>8, <2>1, <2>2
<1>14. CASE Missed(c)
  <2>1. /\ op' = Then(c, IF Now(c).n = 1 THEN Rest(c)
                         ELSE <<Read(Now(c).n - 1, Now(c).of)>> \o Rest(c))
        /\ slot' = slot /\ home' = home /\ t[1].do = "read"
    BY <1>2, <1>14 DEF Missed, At
  <2>2. Len(t) = 1 => slot = home
    BY <1>3, <2>1 DEF Way, Last
  <2>3. CASE Now(c).n = 1
    <3>1. op' = Then(c, Rest(c))
      BY <2>1, <2>3
    <3> QED
      BY <1>8, <2>1, <2>2, <3>1
  <2>4. CASE Now(c).n # 1
    <3> DEFINE x == Read(Now(c).n - 1, Now(c).of)
    <3>1. op' = Then(c, Instead(x, t))
      BY <1>2, <2>1, <2>4 DEF Instead
    <3>2. x \in Steps /\ x.do = "read"
      <4>1. Now(c).n - 1 = 1
        BY <1>1, <2>4, OperationParts
      <4> QED
        BY <1>2, <4>1, StepTypes
    <3> HIDE DEF x
    <3>3. /\ Instead(x, t)[1] = x /\ Instead(x, t) \in Seq(Steps) /\ Instead(x, t) # <<>>
          /\ Len(t) > 1 => Last(Instead(x, t)) = Last(t)
          /\ Len(t) = 1 => Last(Instead(x, t)) = x
      BY <1>1, <1>2, <3>2, TodoReplaced
    <3>4. r = Instead(x, t) /\ op'[c].outer = op[c].outer /\ op'[c].inner = op[c].inner
      BY <1>1, <3>1, <3>3, ThenIs
    <3>5. r # <<>> /\ r[1].do = "read" /\ (Len(t) > 1 => Last(r) = Last(t))
          /\ (Len(t) = 1 => Last(r).do = "read")
      BY <3>2, <3>3, <3>4
    <3> HIDE DEF t, r
    <3>6. Way(r, op'[c].outer, op'[c].inner, slot', home')
      <4>1. CASE Len(t) = 1
        BY <2>1, <2>2, <3>5, <4>1 DEF Way
      <4>2. CASE Len(t) > 1
        BY <1>3, <2>1, <3>4, <3>5, <4>2 DEF Way
      <4> QED
        BY <1>4, <4>1, <4>2
    <3> QED
      BY <3>5, <3>6 DEF t, r
  <2> QED
    BY <2>3, <2>4
<1>15. CASE ReadIds(c) \/ ReadDevice(c)
  <2>1. /\ op' = Then(c, Rest(c)) /\ slot' = slot /\ home' = home
        /\ t[1].do \in {"ids", "device"}
    BY <1>2, <1>15 DEF ReadIds, ReadDevice, At
  <2>2. Len(t) = 1 => slot' = home
    BY <1>3, <1>4, <2>1 DEF Way, Last
  <2> QED
    BY <1>8, <2>1, <2>2
<1>16. CASE Leave(c)
  <2> DEFINE x == Step("back", op[c].inner)
  <2>1. PICK answer \in {Unknown, 0, 1} :
          /\ ActiveSlot(answer)
          /\ op' = Then(c, IF answer \notin {Unknown, op[c].inner}
                           THEN <<x>> \o Rest(c) ELSE Rest(c))
    BY <1>16 DEF Leave
  <2>2. slot' = slot /\ home' = home /\ At(c, "leave") /\ t[1].do = "leave"
    BY <1>2, <1>16 DEF Leave, At
  <2>3. answer = slot /\ slot # Unknown
    BY <1>1, <1>7, <2>1, ActiveSlotIs DEF Slots, Unknown
  <2>4. Len(t) = 1 => op[c].inner = home
    BY <1>3, <2>2 DEF Way, Last
  <2>5. CASE slot = op[c].inner
    <3>1. op' = Then(c, Rest(c))
      BY <2>1, <2>3, <2>5
    <3>2. Len(t) > 1 => Last(t).do \notin {"reselect", "read", "ids", "device"}
      BY <1>5, <2>2 DEF Before
    <3> QED
      BY <1>8, <2>2, <2>4, <2>5, <3>1, <3>2
  <2>6. CASE slot # op[c].inner
    <3>1. op' = Then(c, Instead(x, t))
      BY <1>2, <2>1, <2>3, <2>6 DEF Instead
    <3>2. x \in Steps /\ x.do = "back" /\ x.of = op[c].inner
      <4>1. op[c].inner \in Slots
        BY <1>1, <2>2, NextCommand
      <4> QED
        BY <4>1, StepTypes DEF Names
    <3> HIDE DEF x
    <3>3. /\ Instead(x, t)[1] = x /\ Instead(x, t) \in Seq(Steps) /\ Instead(x, t) # <<>>
          /\ Len(t) > 1 => Last(Instead(x, t)) = Last(t)
          /\ Len(t) = 1 => Last(Instead(x, t)) = x
      BY <1>1, <1>2, <3>2, TodoReplaced
    <3>4. r = Instead(x, t) /\ op'[c].outer = op[c].outer /\ op'[c].inner = op[c].inner
      BY <1>1, <3>1, <3>3, ThenIs
    <3>5. /\ r # <<>> /\ r[1].do = "back" /\ (Len(t) > 1 => Last(r) = Last(t))
          /\ Len(t) = 1 => Last(r).do = "back" /\ Last(r).of = home
      BY <2>4, <3>2, <3>3, <3>4
    <3>6. Len(t) > 1 => Last(t).do = "restore"
      BY <1>5, <2>2 DEF Before
    <3> HIDE DEF t, r
    <3>7. Way(r, op'[c].outer, op'[c].inner, slot', home')
      <4>1. CASE Len(t) = 1
        BY <2>2, <3>5, <4>1 DEF Way
      <4>2. CASE Len(t) > 1
        BY <1>3, <2>2, <3>4, <3>5, <3>6, <4>2 DEF Way
      <4> QED
        BY <1>4, <4>1, <4>2
    <3> QED
      BY <3>5, <3>7 DEF t, r
  <2> QED
    BY <2>5, <2>6
<1>17. CASE Back(c)
  <2>1. op' = Then(c, Rest(c)) /\ home' = home
    BY <1>17 DEF Back
  <2>2. CASE At(c, "back")
    <3>1. PICK done \in BOOLEAN : SelectSlot(Now(c).of, done)
      BY <1>17, <2>2 DEF Back, At
    <3>2. slot' = Now(c).of /\ t[1].do = "back"
      BY <1>1, <1>2, <2>2, <3>1, SelectSlotIs DEF At
    <3>3. Len(t) > 1 => Last(t).do = "restore"
      BY <1>5, <3>2 DEF Before
    <3>4. Len(t) = 1 => t[1].of = home
      BY <1>3, <3>2 DEF Way, Last
    <3> QED
      BY <1>2, <1>8, <2>1, <3>2, <3>3, <3>4
  <2>3. CASE ~At(c, "back")
    <3>1. /\ t[1].do \in {"restore", "reselect"}
          /\ At(c, "reselect") <=> t[1].do = "reselect"
      BY <1>1, <1>2, <1>17, <2>3 DEF Back, At
    <3>2. /\ Len(t) = 1 => Last(t) = t[1]
          /\ Len(t) > 1 => t[1].do = "restore" /\ Last(t).do = "ask"
      BY <1>4, <1>5, <3>1 DEF Before, Last
    <3>3. /\ op[c].outer = home
          /\ t[1].do = "reselect" => slot = t[1].of
      BY <1>3, <1>4, <3>1, <3>2 DEF Way
    <3>4. op[c].outer # Unknown /\ op[c].outer \in Slots
      BY <1>7, <3>3 DEF Slots, Unknown
    <3>5. \/ t[1].do = "reselect" /\ op[c].outer = Now(c).of /\ slot' = slot
          \/ \E done \in BOOLEAN : SelectSlot(op[c].outer, done)
      BY <1>17, <2>3, <3>1, <3>4 DEF Back
    <3>6. slot' = home
      BY <1>1, <1>2, <3>3, <3>4, <3>5, SelectSlotIs
    <3> QED
      BY <1>8, <2>1, <3>1, <3>2, <3>6
  <2> QED
    BY <2>2, <2>3
<1>18. CASE AskActive(c)
  <2>1. op' = Then(c, Rest(c)) /\ slot' = slot /\ home' = home /\ t[1].do = "ask"
    BY <1>2, <1>18 DEF AskActive, At
  <2>2. Len(t) = 1 /\ Last(t) = t[1]
    BY <1>4, <1>5, <2>1 DEF Before, Last
  <2>3. slot' = home
    BY <1>3, <2>1, <2>2 DEF Way
  <2> QED
    BY <1>8, <2>1, <2>2, <2>3
<1> QED
  BY <1>9, <1>10, <1>11, <1>12, <1>13, <1>14, <1>15, <1>16, <1>17, <1>18 DEF Command

LEMMA NextGoesBack ==
  ASSUME Base, BackInv, [Next]_vars
  PROVE  BackInv'
<1> DEFINE WayNext(d) == Way(op'[d].todo, op'[d].outer, op'[d].inner, slot', home')
<1>1. BackInv' <=>
        (steady' => /\ \A d \in Callers : op'[d].todo # <<>> => WayNext(d)
                    /\ (\A d \in Callers : op'[d].todo = <<>>) => slot' = home')
  BY DEF BackInv, Resting, Way, Last
<1> HIDE DEF WayNext
<1>2. CASE UNCHANGED vars
  BY <1>2 DEF BackInv, Resting, Way, Last, vars
<1>3. CASE Next
  <2>1. PICK c \in Callers : Operation(c) \/ Command(c)
    BY <1>3 DEF Next
  <2>2. twoSlots' = twoSlots /\ Plain /\ AloneInv /\ op \in [Callers -> Operations]
    BY <1>3, TypeParts DEF Next, Base
  <2>3. CASE InitModule(c)
    BY <2>3 DEF InitModule, BackInv, Resting, Way, Last
  <2>4. ASSUME NEW t \in Seq(Steps), NEW b \in BOOLEAN, Starts(c, t, b)
        PROVE  BackInv'
    <3> SUFFICES ASSUME steady'
                 PROVE  /\ \A d \in Callers : op'[d].todo # <<>> => WayNext(d)
                        /\ (\A d \in Callers : op'[d].todo = <<>>) => slot' = home'
      BY <1>1
    <3>1. /\ Others(c) /\ op'[c].todo = t
          /\ steady /\ \A d \in Callers : Resting(d)
      BY <2>2, <2>4, BeginIs DEF Starts
    <3>2. slot = home /\ slot' = home'
      BY <2>4, <3>1 DEF BackInv, Starts
    <3>3. \A d \in Callers : d # c => op'[d].todo = <<>>
      BY <3>1 DEF Others, Resting
    <3>4. t # <<>> => WayNext(c)
      <4> SUFFICES ASSUME t # <<>> PROVE WayNext(c)
        OBVIOUS
      <4>1. Asks(t)
        BY <2>4 DEF Starts, Program
      <4>2. /\ Last(t).do \in {"restore", "reselect"} => t[1].do = "remember"
            /\ Last(t).do = "ask" => t[1].do \in {"remember", "ask"}
            /\ Last(t).do = "leave" => t[1].do = "enter"
            /\ Last(t).do # "back"
        BY <4>1 DEF Asks
      <4> QED
        BY <3>1, <3>2, <4>2 DEF WayNext, Way
    <3> QED
      BY <3>1, <3>2, <3>3, <3>4
  <2>5. CASE Command(c)
    <3> SUFFICES ASSUME steady'
                 PROVE  /\ \A d \in Callers : op'[d].todo # <<>> => WayNext(d)
                        /\ (\A d \in Callers : op'[d].todo = <<>>) => slot' = home'
      BY <1>1
    <3>1. Proceeds(c) /\ Touches(c)
      BY <2>5, CommandStep DEF Base
    <3>2. steady /\ alone
      BY <2>2, <3>1 DEF Touches, AloneInv
    <3>3. \A d \in Callers : d # c => op'[d].todo = <<>>
      BY <2>2, <3>1, <3>2 DEF Proceeds, Others, AloneInv, Resting
    <3>4. /\ op'[c].todo # <<>> => WayNext(c)
          /\ op'[c].todo = <<>> => slot' = home'
      BY <2>2, <2>5, <3>2, CommandGoesBack DEF WayNext
    <3> QED
      BY <3>3, <3>4
  <2> QED
    BY <2>1, <2>2, <2>3, <2>4, <2>5, OperationStep
<1> QED
  BY <1>2, <1>3

(***************************************************************************)
(* Operations one at a time leave the module on the slot that was chosen   *)
(* last, as long as every answer named the slot that was active and every  *)
(* selection was answered: SimSlotGuard, get_sim_status_slot, the query    *)
(* for both slots and the one for the dual SIM status all find their way   *)
(* back, however many of their other commands go unanswered.               *)
(***************************************************************************)
THEOREM FindsItsWayBack == Spec => []SlotRestored
<1> DEFINE BInv == Base /\ BackInv
<1>1. Init => BInv
  <2> SUFFICES ASSUME Init PROVE BackInv
    BY InitBase
  <2> QED
    BY DEF Init, BackInv, Resting, Idle
<1>2. BInv /\ [Next]_vars => BInv'
  BY NextBase, NextGoesBack
<1>3. BInv => SlotRestored
  BY DEF BackInv, SlotRestored
<1> HIDE DEF BInv
<1> QED
  BY <1>1, <1>2, <1>3, PTL DEF Spec

=============================================================================
