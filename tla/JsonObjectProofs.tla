-------------------------- MODULE JsonObjectProofs --------------------------
(***************************************************************************)
(* Theorems about JsonObject, for every set of names, every number of      *)
(* items and calls, and integer types of any width.                        *)
(***************************************************************************)
EXTENDS JsonObject, WellFoundedInduction, SequenceTheorems, TLAPS

-----------------------------------------------------------------------------
(* Numbers *)

LEMMA TopIs == Top \in Nat \ {0} /\ MaxItems \in Nat \ {0} /\ Respelled \subseteq Names
BY JsonAssumption DEF JsonAssumption

\* A remainder is what is left beside a multiple.
LEMMA Remainder ==
  ASSUME NEW m \in Nat \ {0}, NEW q \in Int, NEW r \in 0 .. m - 1
  PROVE  (m * q + r) % m = r
OBVIOUS

LEMMA Remainders ==
  ASSUME NEW m \in Nat \ {0}
  PROVE  /\ \A n \in Int : n % m \in 0 .. m - 1
         /\ \A n \in 0 .. m - 1 : n % m = n
         /\ \A n \in -m .. -1 : n % m = n + m
<1>1. ASSUME NEW n \in Int PROVE n % m \in 0 .. m - 1
  OBVIOUS
<1>2. ASSUME NEW n \in 0 .. m - 1 PROVE n % m = n
  OBVIOUS
<1>3. ASSUME NEW n \in -m .. -1 PROVE n % m = n + m
  OBVIOUS
<1> QED
  BY <1>1, <1>2, <1>3

\* The four types lie within each other.
LEMMA Sizes ==
  /\ Top64 \in Nat \ {0}
  /\ 2 * Top <= Top64
  /\ 2 * Top64 = 2 * Top * (2 * Top)
<1>1. Top * Top \in Nat /\ Top * Top >= Top
  <2>1. PICK n \in Nat : Top = n + 1
    BY TopIs
  <2>2. Top * Top = Top * n + Top /\ Top * n \in Nat
    BY <2>1
  <2> QED
    BY <2>2, TopIs
<1>2. 2 * Top * Top = 2 * (Top * Top) /\ 2 * Top * (2 * Top) = 4 * (Top * Top)
  BY TopIs
<1> QED
  BY <1>1, <1>2, TopIs DEF Top64

LEMMA BitsAre ==
  /\ \A n \in Int : Bits(n) \in 0 .. 2 * Top64 - 1
  /\ \A n \in 0 .. 2 * Top64 - 1 : Bits(n) = n
  /\ \A n \in -2 * Top64 .. -1 : Bits(n) = n + 2 * Top64
<1>1. 2 * Top64 \in Nat \ {0}
  BY Sizes
<1>2. /\ \A n \in Int : n % (2 * Top64) \in 0 .. 2 * Top64 - 1
      /\ \A n \in 0 .. 2 * Top64 - 1 : n % (2 * Top64) = n
      /\ \A n \in -(2 * Top64) .. -1 : n % (2 * Top64) = n + 2 * Top64
  BY <1>1, Remainders
<1>3. -2 * Top64 = -(2 * Top64)
  BY Sizes
<1> QED
  BY <1>2, <1>3 DEF Bits

Kinds == {"int", "lost", "whole", "fraction", "text", "bool", "null", "object", "array"}

\* What a stored value is: for an integer the low bits of what was given, and a
\* sign flag that is only 1 when that was not negative.  A fraction is what was given
\* or what was parsed of the text of that.
Sound(v) ==
  /\ v \in [kind : Kinds, num : Int, sign : {-1, 0, 1}, given : Int, drift : Int]
  /\ Near(v.drift, 0)
  /\ v.kind = "int" => /\ v.given \in -Top64 .. 2 * Top64 - 1
                       /\ v.num = Bits(v.given)
                       /\ v.sign = -1 \/ (v.sign = 1 /\ v.given >= 0)
  /\ v.kind = "lost" => ~ Exact(v.given)
  /\ v.kind = "whole" => v.num = v.given
  /\ v.kind = "fraction" => /\ Nearest(v.num) = Nearest(v.given)
                            /\ Near(v.num, v.given)

\* A number that a type can hold is in the range of 64 bits, and its bits are
\* the number or the number above a turn.
LEMMA Turn ==
  ASSUME NEW v, Sound(v), v.kind = "int"
  PROVE  /\ v.given \in Int /\ v.num \in Int
         /\ v.given >= 0 => v.num = v.given
         /\ v.given < 0 => v.num = v.given + 2 * Top64 /\ v.given >= -Top64
         /\ v.given <= 2 * Top64 - 1
<1>1. /\ v.given \in -Top64 .. 2 * Top64 - 1 /\ v.num = Bits(v.given)
      /\ Top64 \in Nat \ {0}
  BY Sizes DEF Sound
<1>2. CASE v.given >= 0
  <2>1. v.given \in 0 .. 2 * Top64 - 1
    BY <1>1, <1>2
  <2>2. v.num = v.given
    BY <1>1, <2>1, BitsAre
  <2> QED
    BY <1>1, <1>2, <2>2
<1>3. CASE v.given < 0
  <2>1. v.given \in -2 * Top64 .. -1
    BY <1>1, <1>3
  <2>2. v.num = v.given + 2 * Top64
    BY <1>1, <2>1, BitsAre
  <2> QED
    BY <1>1, <1>3, <2>2
<1> QED
  BY <1>1, <1>2, <1>3

\* The low 32 bits of a number that 32 bits can hold.
LEMMA LowBits ==
  ASSUME NEW v, Sound(v), v.kind = "int", v.given \in -Top .. 2 * Top - 1
  PROVE  v.num % (2 * Top) = IF v.given >= 0 THEN v.given ELSE v.given + 2 * Top
<1>1. 2 * Top \in Nat \ {0} /\ Top \in Nat \ {0}
  BY TopIs
<1>2. CASE v.given >= 0
  <2>1. v.num = v.given /\ v.given \in 0 .. 2 * Top - 1
    BY <1>1, <1>2, Turn
  <2> QED
    BY <1>1, <1>2, <2>1, Remainders
<1>3. CASE v.given < 0
  <2>1. v.num = v.given + 2 * Top64 /\ v.given \in -Top .. -1
    BY <1>1, <1>3, Turn
  <2> DEFINE r == v.given + 2 * Top
             q == 2 * Top - 1
  <2>2. r \in 0 .. 2 * Top - 1 /\ q \in Int
    BY <1>1, <2>1
  <2>3. 2 * Top * q = 2 * Top * (2 * Top) - 2 * Top
    BY <1>1
  <2>4. 2 * Top * (2 * Top) = 2 * Top64 /\ 2 * Top64 \in Int
    BY Sizes
  <2>5. v.num = 2 * Top * q + r
    <3> HIDE DEF q
    <3> QED
      BY <1>1, <2>1, <2>3, <2>4
  <2> HIDE DEF q, r
  <2>6. (2 * Top * q + r) % (2 * Top) = r
    BY <1>1, <2>2, Remainder
  <2> QED
    BY <1>1, <1>3, <2>1, <2>5, <2>6 DEF r
<1>4. v.given \in Int
  BY <1>1
<1> QED
  BY <1>1, <1>2, <1>3, <1>4

LEMMA SoundReads ==
  ASSUME NEW v, Sound(v), v.kind = "int", NEW w \in Widths,
         v.given \in Least(w) .. Greatest(w)
  PROVE  ReadsInteger(v, w) = v.given
<1>1. Top \in Nat \ {0} /\ Top64 \in Nat \ {0} /\ 2 * Top <= Top64
  BY TopIs, Sizes
<1>2. CASE w = "int32"
  <2>1. v.given \in -Top .. Top - 1
    BY <1>2 DEF Least, Greatest
  <2>2. v.num % (2 * Top) = IF v.given >= 0 THEN v.given ELSE v.given + 2 * Top
    BY <1>1, <2>1, LowBits
  <2>3. AsSigned(v.num % (2 * Top), Top) = v.given
    BY <1>1, <2>1, <2>2 DEF AsSigned
  <2> QED
    BY <1>2, <2>3 DEF ReadsInteger
<1>3. CASE w = "uint32"
  <2>1. v.given \in 0 .. 2 * Top - 1
    BY <1>3 DEF Least, Greatest
  <2>2. v.num % (2 * Top) = v.given
    BY <1>1, <2>1, LowBits
  <2> QED
    BY <1>3, <2>2 DEF ReadsInteger
<1>4. CASE w = "int64"
  <2>1. v.given \in -Top64 .. Top64 - 1
    BY <1>4 DEF Least, Greatest
  <2>2. v.num = IF v.given >= 0 THEN v.given ELSE v.given + 2 * Top64
    BY <2>1, Turn
  <2>3. AsSigned(v.num, Top64) = v.given
    BY <1>1, <2>1, <2>2 DEF AsSigned
  <2> QED
    BY <1>4, <2>3 DEF ReadsInteger
<1>5. CASE w = "uint64"
  <2>1. v.given \in 0 .. 2 * Top64 - 1
    BY <1>5 DEF Least, Greatest
  <2>2. v.num = v.given
    BY <1>1, <2>1, Turn
  <2> QED
    BY <1>5, <2>2 DEF ReadsInteger
<1> QED
  BY <1>2, <1>3, <1>4, <1>5 DEF Widths

\* The text of a number is the number, but for one above int64 whose flag says
\* signed: its text is the number a turn below.
LEMMA SoundPrints ==
  ASSUME NEW v, Sound(v), v.kind = "int"
  PROVE  /\ ~ (v.sign = -1 /\ v.given > Top64 - 1) => Printed(v) = v.given
         /\ v.sign = -1 /\ v.given > Top64 - 1 => Printed(v) = v.given - 2 * Top64
<1>1. Top64 \in Nat \ {0}
  BY Sizes
<1>2. v.sign = -1 \/ (v.sign = 1 /\ v.given >= 0)
  BY DEF Sound
<1>3. CASE v.sign = -1
  <2>1. Printed(v) = IF v.num >= Top64 THEN v.num - 2 * Top64 ELSE v.num
    BY <1>3 DEF Printed, AsSigned
  <2> QED
    BY <1>1, <1>3, <2>1, Turn
<1>4. CASE v.sign = 1 /\ v.given >= 0
  BY <1>4, Turn DEF Printed
<1> QED
  BY <1>2, <1>3, <1>4

LEMMA StepsAre ==
  /\ Half \in Nat /\ Slip \in Nat /\ Slip <= Half
  /\ Fine \in Nat \ {0} /\ Unit \in Nat \ {0}
  /\ 0 \in -(Half + Slip) .. Half + Slip
<1>1. Half \in Nat /\ Slip \in Nat /\ Slip <= Half /\ Decimals \in Nat \ {0}
  BY JsonAssumption DEF JsonAssumption
<1>2. Fine \in Nat \ {0}
  BY <1>1 DEF Fine
<1>3. \A m, n \in Nat \ {0} : m * n \in Nat \ {0}
  OBVIOUS
<1>4. Unit \in Nat \ {0}
  BY <1>1, <1>2, <1>3 DEF Unit
<1> QED
  BY <1>1, <1>2, <1>4

\* A quotient, beside what is left of it.
LEMMA Quotient ==
  ASSUME NEW m \in Nat \ {0}, NEW q \in Int, NEW r \in 0 .. m - 1
  PROVE  (m * q + r) \div m = q
OBVIOUS

LEMMA QuotientIs ==
  ASSUME NEW m \in Nat \ {0}, NEW n \in Int
  PROVE  n \div m \in Int /\ n - m * (n \div m) \in 0 .. m - 1
OBVIOUS

\* The text of a fraction is less than half of a step of the text away, and is
\* the text of everything that is so near to it.
LEMMA NearestIs ==
  /\ \A n \in Int : Nearest(n) \in Int /\ n - Fine * Nearest(n) \in -Half .. Half
  /\ \A t \in Int, d \in -Half .. Half : Nearest(Fine * t + d) = t
<1>1. Half \in Nat /\ Fine \in Nat \ {0} /\ Fine = 2 * Half + 1
  BY StepsAre DEF Fine
<1>2. ASSUME NEW n \in Int
      PROVE  Nearest(n) \in Int /\ n - Fine * Nearest(n) \in -Half .. Half
  <2> DEFINE q == (n + Half) \div Fine
  <2>1. q \in Int /\ (n + Half) - Fine * q \in 0 .. Fine - 1
    <3>1. n + Half \in Int
      BY <1>1
    <3> QED
      BY <1>1, <3>1, QuotientIs
  <2> HIDE DEF q
  <2>2. Fine * q \in Int
    BY <1>1, <2>1
  <2>3. n - Fine * q \in -Half .. Half
    BY <1>1, <2>1, <2>2
  <2> QED
    BY <2>1, <2>3 DEF Nearest, q
<1>3. ASSUME NEW t \in Int, NEW d \in -Half .. Half PROVE Nearest(Fine * t + d) = t
  <2>1. d + Half \in 0 .. Fine - 1
    BY <1>1
  <2>2. Fine * t \in Int
    BY <1>1
  <2>3. Fine * t + d + Half = Fine * t + (d + Half)
    BY <1>1, <2>2
  <2>4. (Fine * t + (d + Half)) \div Fine = t
    BY <1>1, <2>1, Quotient
  <2> QED
    BY <2>3, <2>4 DEF Nearest
<1> QED
  BY <1>2, <1>3

LEMMA ValueIs ==
  ASSUME NEW k \in Kinds, NEW b \in Int, NEW s \in {-1, 0, 1}, NEW n \in Int, NEW d \in Int
  PROVE  /\ Value(k, b, s, n, d) \in [kind : Kinds, num : Int, sign : {-1, 0, 1}, given : Int, drift : Int]
         /\ Value(k, b, s, n, d).kind = k /\ Value(k, b, s, n, d).num = b
         /\ Value(k, b, s, n, d).sign = s /\ Value(k, b, s, n, d).given = n
         /\ Value(k, b, s, n, d).drift = d
BY DEF Value

LEMMA NearIs ==
  /\ \A m, n \in Int : Near(m, n) <=> m - n >= -(Half + Slip) /\ m - n <= Half + Slip
  /\ \A n \in Int : Near(n, n)
<1>1. Half \in Nat /\ Slip \in Nat
  BY StepsAre
<1>2. \A m, n \in Int : Near(m, n) <=> m - n >= -(Half + Slip) /\ m - n <= Half + Slip
  BY <1>1 DEF Near
<1> QED
  BY <1>1, <1>2

\* An integer is sound with the flag of its sign, and with the other one when
\* it is not negative.
LEMMA SoundInteger ==
  ASSUME NEW n \in -Top64 .. 2 * Top64 - 1, NEW s \in {-1, 1}, s = 1 => n >= 0,
         NEW d \in Int, Near(d, 0)
  PROVE  Sound(Value("int", Bits(n), s, n, d))
<1>1. Top64 \in Nat \ {0}
  BY Sizes
<1>2. n \in Int /\ Bits(n) \in Int /\ s \in {-1, 0, 1}
  BY <1>1, BitsAre
<1> DEFINE v == Value("int", Bits(n), s, n, d)
<1>3. /\ v \in [kind : Kinds, num : Int, sign : {-1, 0, 1}, given : Int, drift : Int]
      /\ v.kind = "int" /\ v.num = Bits(n) /\ v.sign = s /\ v.given = n /\ v.drift = d
  <2>1. "int" \in Kinds
    BY DEF Kinds
  <2> QED
    BY <1>2, <2>1, ValueIs
<1> HIDE DEF v
<1>4. Sound(v)
  BY <1>3 DEF Sound
<1> QED
  BY <1>4 DEF v

LEMMA SoundParses ==
  ASSUME NEW n \in -Top64 .. 2 * Top64 - 1, NEW given \in -Top64 .. 2 * Top64 - 1,
         Bits(n) = Bits(given), n >= 0 => given >= 0, NEW d \in Int, Near(d, 0)
  PROVE  Sound(Parsed(n, given, d))
<1>1. Top64 \in Nat \ {0}
  BY Sizes
<1>2. CASE n < 0
  <2>1. Sound(Value("int", Bits(given), -1, given, d))
    BY SoundInteger
  <2> QED
    BY <1>2, <2>1 DEF Parsed
<1>3. CASE ~ (n < 0)
  <2>1. given >= 0
    BY <1>1, <1>3
  <2>2. Sound(Value("int", Bits(given), 1, given, d))
    BY <2>1, SoundInteger
  <2> QED
    BY <1>3, <2>2 DEF Parsed
<1> QED
  BY <1>2, <1>3

LEMMA SoundLost ==
  ASSUME NEW n \in Int, NEW d \in Int, Near(d, 0), ~ Exact(n)
  PROVE  Sound(Value("lost", 0, 0, n, d))
<1> DEFINE v == Value("lost", 0, 0, n, d)
<1>1. /\ v \in [kind : Kinds, num : Int, sign : {-1, 0, 1}, given : Int, drift : Int]
      /\ v.kind = "lost" /\ v.given = n /\ v.drift = d
  <2>1. "lost" \in Kinds
    BY DEF Kinds
  <2> QED
    BY <2>1, ValueIs
<1> HIDE DEF v
<1>2. Sound(v)
  BY <1>1 DEF Sound
<1> QED
  BY <1>2 DEF v

LEMMA SoundWhole ==
  ASSUME NEW n \in Int, NEW d \in Int, Near(d, 0)
  PROVE  Sound(Value("whole", n, 0, n, d))
<1> DEFINE v == Value("whole", n, 0, n, d)
<1>1. /\ v \in [kind : Kinds, num : Int, sign : {-1, 0, 1}, given : Int, drift : Int]
      /\ v.kind = "whole" /\ v.num = n /\ v.given = n /\ v.drift = d
  <2>1. "whole" \in Kinds
    BY DEF Kinds
  <2> QED
    BY <2>1, ValueIs
<1> HIDE DEF v
<1>2. Sound(v)
  BY <1>1 DEF Sound
<1> QED
  BY <1>2 DEF v

LEMMA SoundFraction ==
  ASSUME NEW n \in Int, NEW given \in Int, Nearest(n) = Nearest(given), Near(n, given)
  PROVE  Sound(Value("fraction", n, 0, given, 0))
<1> DEFINE v == Value("fraction", n, 0, given, 0)
<1>1. /\ v \in [kind : Kinds, num : Int, sign : {-1, 0, 1}, given : Int, drift : Int]
      /\ v.kind = "fraction" /\ v.num = n /\ v.given = given /\ v.drift = 0
  <2>1. "fraction" \in Kinds
    BY DEF Kinds
  <2> QED
    BY <2>1, ValueIs
<1> HIDE DEF v
<1>2. Near(0, 0)
  BY NearIs
<1>3. Sound(v)
  BY <1>1, <1>2 DEF Sound
<1> QED
  BY <1>3 DEF v

\* What is parsed of the text of a fraction has the same text, and is near to
\* what was given: roundings do not add up.
LEMMA SoundParsesFraction ==
  ASSUME NEW v, Sound(v), v.kind = "fraction", NEW slip \in -Slip .. Slip
  PROVE  Sound(ParsedFraction(Fine * Printed(v) + slip, v.given))
<1> DEFINE t == Printed(v)
           n == Fine * t + slip
<1>1. /\ Half \in Nat /\ Slip \in Nat /\ Slip <= Half /\ Fine \in Nat \ {0}
      /\ Unit \in Nat \ {0} /\ slip \in -Half .. Half /\ slip \in Int
  BY StepsAre
<1>2. v.given \in Int /\ v.num \in Int /\ t = Nearest(v.given)
  BY DEF Sound, Printed
<1>3. t \in Int /\ v.given - Fine * t \in -Half .. Half
  BY <1>2, NearestIs
<1> HIDE DEF t
<1>4. n \in Int /\ Nearest(n) = t /\ Fine * t \in Int
  <2>1. Fine * t \in Int
    BY <1>1, <1>3
  <2>2. Nearest(Fine * t + slip) = t
    BY <1>1, <1>3, NearestIs
  <2> QED
    BY <1>1, <2>1, <2>2
<1>5. n - v.given >= -(Half + Slip) /\ n - v.given <= Half + Slip
  BY <1>1, <1>2, <1>3, <1>4
<1> HIDE DEF n
<1>6. Near(n, v.given) /\ Near(n - v.given, 0) /\ n - v.given \in Int
  <2>1. n - v.given \in Int /\ n - v.given - 0 = n - v.given
    BY <1>2, <1>4
  <2> QED
    BY <1>2, <1>4, <1>5, <2>1, NearIs
<1>7. CASE n % Unit = 0
  <2>1. n \div Unit \in Int
    BY <1>1, <1>4, QuotientIs
  <2> QED
    BY <1>6, <1>7, <2>1, SoundWhole DEF ParsedFraction, n, t
<1>8. CASE n % Unit # 0
  <2>1. Sound(Value("fraction", n, 0, v.given, 0))
    BY <1>2, <1>4, <1>6, SoundFraction
  <2> QED
    BY <1>8, <2>1 DEF ParsedFraction, n, t
<1> QED
  BY <1>7, <1>8

\* A copy by way of the text is sound again.
LEMMA SoundCopies ==
  ASSUME NEW v, Sound(v), NEW slip \in -Slip .. Slip
  PROVE  Sound(Reparsed(v, slip))
<1>1. /\ Top64 \in Nat \ {0} /\ Digits \in Nat
      /\ v.drift \in Int /\ Near(v.drift, 0) /\ v.given \in Int
  BY Sizes, JsonAssumption DEF JsonAssumption, Sound
<1>2. CASE v.kind \notin {"int", "whole", "fraction"}
  BY <1>2 DEF Reparsed
<1>3. CASE v.kind = "fraction"
  BY <1>3, SoundParsesFraction DEF Reparsed
<1>4. CASE v.kind = "whole"
  <2>1. Printed(v) = v.given
    BY <1>4 DEF Sound, Printed
  <2>2. CASE Exact(v.given)
    <3>1. v.given \in -Top64 .. 2 * Top64 - 1
      BY <2>2 DEF Exact
    <3>2. Sound(Parsed(v.given, v.given, v.drift))
      BY <1>1, <3>1, SoundParses
    <3> QED
      BY <1>4, <2>1, <2>2, <3>2 DEF Reparsed
  <2>3. CASE ~ Exact(v.given)
    <3>1. Sound(Value("lost", 0, 0, v.given, v.drift))
      BY <1>1, <2>3, SoundLost
    <3> QED
      BY <1>4, <2>1, <2>3, <3>1 DEF Reparsed
  <2> QED
    BY <2>2, <2>3
<1>5. CASE v.kind = "int"
  <2>1. v.given \in -Top64 .. 2 * Top64 - 1
    BY <1>1, <1>5 DEF Sound
  <2>2. CASE ~ Exact(Printed(v))
    <3>1. ~ Exact(v.given)
      <4>1. CASE Printed(v) = v.given
        BY <2>2, <4>1
      <4>2. CASE v.given > Top64 - 1 /\ Printed(v) = v.given - 2 * Top64
        <5>1. Printed(v) \in -Top64 .. 2 * Top64 - 1 /\ Printed(v) < 0 /\ Printed(v) >= -Top64
          BY <1>1, <2>1, <4>2
        <5>2. ~ (Printed(v) \in -Digits .. Digits)
          BY <2>2, <5>1 DEF Exact
        <5>3. Digits < Top64
          BY <1>1, <5>1, <5>2
        <5>4. ~ (v.given \in -Digits .. Digits)
          BY <1>1, <2>1, <4>2, <5>3
        <5> QED
          BY <5>4 DEF Exact
      <4> QED
        BY <1>5, <4>1, <4>2, SoundPrints
    <3>2. Sound(Value("lost", 0, 0, v.given, v.drift))
      BY <1>1, <3>1, SoundLost
    <3> QED
      BY <1>5, <2>2, <3>2 DEF Reparsed
  <2>3. CASE Exact(Printed(v)) /\ ~ (v.sign = -1 /\ v.given > Top64 - 1)
    <3>1. Sound(Parsed(v.given, v.given, v.drift))
      BY <1>1, <2>1, SoundParses
    <3> QED
      BY <1>5, <2>3, <3>1, SoundPrints DEF Reparsed
  <2>4. CASE Exact(Printed(v)) /\ v.sign = -1 /\ v.given > Top64 - 1
    <3> DEFINE n == v.given - 2 * Top64
               given == v.given
               d == v.drift
    <3>1. Printed(v) = n
      BY <1>5, <2>4, SoundPrints
    <3>2. n \in -Top64 .. -1 /\ n + 2 * Top64 = given
      BY <1>1, <2>1, <2>4
    <3>3. /\ n \in -2 * Top64 .. -1 /\ n \in -Top64 .. 2 * Top64 - 1
          /\ given \in 0 .. 2 * Top64 - 1 /\ given \in -Top64 .. 2 * Top64 - 1
          /\ n < 0 /\ n \in Int
      BY <1>1, <2>1, <2>4, <3>2
    <3>4. d \in Int /\ Near(d, 0)
      BY <1>1
    <3>5. Parsed(Printed(v), v.given, v.drift) = Parsed(n, given, d)
      BY <3>1
    <3> HIDE DEF n, given, d
    <3>6. Bits(n) = n + 2 * Top64 /\ Bits(given) = given
      BY <3>3, BitsAre
    <3>7. n >= 0 => given >= 0
      BY <3>3
    <3>8. Sound(Parsed(n, given, d))
      BY <3>2, <3>3, <3>4, <3>6, <3>7, SoundParses
    <3> QED
      BY <1>5, <2>4, <3>5, <3>8 DEF Reparsed
  <2> QED
    BY <2>2, <2>3, <2>4
<1> QED
  BY <1>2, <1>3, <1>4, <1>5

LEMMA SoundPlain ==
  ASSUME NEW k \in Kinds, k \notin {"int", "lost", "whole", "fraction"}
  PROVE  Sound(Plain(k))
<1> DEFINE v == Plain(k)
<1>1. v \in [kind : Kinds, num : Int, sign : {-1, 0, 1}, given : Int, drift : Int]
      /\ v.kind = k /\ v.drift = 0
  BY ValueIs DEF Plain
<1> HIDE DEF v
<1>2. Near(0, 0)
  BY NearIs
<1>3. Sound(v)
  BY <1>1, <1>2 DEF Sound
<1> QED
  BY <1>3 DEF v

\* What the caller can put into a document.
LEMMA SoundInputs ==
  /\ \A v \in Texts \cup Bools \cup Reals \cup IntegerValues \cup HeadIntegers : Sound(v)
  /\ Sound(Struct) /\ Sound(Plain("array")) /\ Sound(Plain("object")) /\ Sound(Plain("null"))
<1>1. Top64 \in Nat \ {0} /\ Top \in Nat \ {0} /\ 2 * Top <= Top64
  BY Sizes, TopIs
<1>2. ASSUME NEW w \in Widths, NEW n \in Edges(w)
      PROVE  n \in -Top64 .. 2 * Top64 - 1 /\ (w \in {"uint32", "uint64"} => n >= 0)
  BY <1>1 DEF Widths, Edges, Least, Greatest
<1>3. ASSUME NEW n \in -Top64 .. 2 * Top64 - 1, NEW s \in {-1, 1}, s = 1 => n >= 0
      PROVE  Sound(Integer(n, s))
  <2>1. 0 \in Int /\ Near(0, 0)
    BY NearIs
  <2> QED
    BY <1>3, <2>1, SoundInteger DEF Integer
<1>4. \A v \in IntegerValues : Sound(v) /\ v.given \in -Top64 .. 2 * Top64 - 1
  <2> SUFFICES ASSUME NEW w \in Widths, NEW n \in Edges(w)
               PROVE  /\ Sound(Integer(n, SignOf(w)))
                      /\ Integer(n, SignOf(w)).given \in -Top64 .. 2 * Top64 - 1
    BY DEF IntegerValues
  <2>1. SignOf(w) \in {-1, 1} /\ (SignOf(w) = 1 => n >= 0)
    BY <1>2 DEF SignOf, Widths
  <2> QED
    BY <1>2, <1>3, <2>1 DEF Integer, Value
<1>5. \A v \in HeadIntegers : Sound(v)
  BY <1>3, <1>4 DEF HeadIntegers
<1>6. /\ Sound(Plain("text")) /\ Sound(Plain("bool"))
      /\ Sound(Plain("array")) /\ Sound(Plain("object")) /\ Sound(Plain("null"))
  <2>1. Sound(Plain("text"))
    BY SoundPlain DEF Kinds
  <2>2. Sound(Plain("bool"))
    BY SoundPlain DEF Kinds
  <2>4. Sound(Plain("array"))
    BY SoundPlain DEF Kinds
  <2>5. Sound(Plain("object"))
    BY SoundPlain DEF Kinds
  <2>6. Sound(Plain("null"))
    BY SoundPlain DEF Kinds
  <2> QED
    BY <2>1, <2>2, <2>4, <2>5, <2>6
<1>7. \A v \in Texts \cup Bools : Sound(v)
  BY <1>6 DEF Texts, Bools
<1>8. \A v \in Reals : Sound(v)
  <2>1. -1 \in Int /\ Unit - Half \in Int /\ Fine + Half \in Int /\ 0 \in Int
    BY StepsAre
  <2>2. Near(0, 0) /\ Near(Unit - Half, Unit - Half) /\ Near(Fine + Half, Fine + Half)
    BY <2>1, NearIs
  <2>3. Sound(Whole(-1))
    BY <2>1, <2>2, SoundWhole DEF Whole
  <2>4. Sound(Fraction(Unit - Half)) /\ Sound(Fraction(Fine + Half))
    BY <2>1, <2>2, SoundFraction DEF Fraction
  <2> QED
    BY <2>3, <2>4 DEF Reals
<1> QED
  BY <1>4, <1>5, <1>6, <1>7, <1>8 DEF Struct

-----------------------------------------------------------------------------
(* Lists of items *)

SoundValues ==
  {v \in [kind : Kinds, num : Int, sign : {-1, 0, 1}, given : Int, drift : Int] : Sound(v)}
Entries == [key : Keys \cup {NoKey}, val : SoundValues]

LEMMA SoundIs == \A v : v \in SoundValues <=> Sound(v)
BY DEF SoundValues, Sound

LEMMA ItemIs ==
  ASSUME NEW k \in Keys \cup {NoKey}, NEW v \in SoundValues
  PROVE  Item(k, v) \in Entries /\ Item(k, v).key = k /\ Item(k, v).val = v
BY DEF Item, Entries

LEMMA AtEnd ==
  ASSUME NEW S, NEW q \in Seq(S), NEW e \in S
  PROVE  /\ Append(q, e) \in Seq(S) /\ Len(q) \in Nat /\ Len(Append(q, e)) = Len(q) + 1
         /\ \A p \in 1 .. Len(q) : Append(q, e)[p] = q[p]
         /\ Append(q, e)[Len(q) + 1] = e
OBVIOUS

LEMMA AtHead ==
  ASSUME NEW S, NEW q \in Seq(S), NEW e \in S
  PROVE  /\ <<e>> \o q \in Seq(S) /\ Len(q) \in Nat /\ Len(<<e>> \o q) = Len(q) + 1
         /\ (<<e>> \o q)[1] = e
         /\ \A p \in 2 .. Len(q) + 1 : (<<e>> \o q)[p] = q[p - 1]
<1>1. <<e>> \in Seq(S) /\ Len(<<e>>) = 1 /\ <<e>>[1] = e
  OBVIOUS
<1> DEFINE h == <<e>>
<1>2. h \in Seq(S) /\ Len(h) = 1 /\ h[1] = e
  BY <1>1
<1> HIDE DEF h
<1>3. /\ h \o q \in Seq(S) /\ Len(h \o q) = Len(h) + Len(q)
      /\ \A i \in 1 .. Len(h) + Len(q) :
           (h \o q)[i] = IF i <= Len(h) THEN h[i] ELSE q[i - Len(h)]
  BY <1>2, ConcatProperties
<1> QED
  BY <1>2, <1>3 DEF h

LEMMA AtPlace ==
  ASSUME NEW S, NEW q \in Seq(S), NEW e \in S, NEW i \in 1 .. Len(q)
  PROVE  /\ [q EXCEPT ![i] = e] \in Seq(S) /\ Len(q) \in Nat
         /\ Len([q EXCEPT ![i] = e]) = Len(q)
         /\ \A p \in 1 .. Len(q) : [q EXCEPT ![i] = e][p] = IF p = i THEN e ELSE q[p]
BY ExceptSeq

LEMMA TakenOut ==
  ASSUME NEW S, NEW q \in Seq(S), NEW i \in 1 .. Len(q)
  PROVE  LET r == SubSeq(q, 1, i - 1) \o SubSeq(q, i + 1, Len(q))
         IN  /\ r \in Seq(S) /\ Len(q) \in Nat \ {0} /\ Len(r) = Len(q) - 1
             /\ \A p \in 1 .. Len(q) - 1 : r[p] = IF p < i THEN q[p] ELSE q[p + 1]
<1> DEFINE a == SubSeq(q, 1, i - 1)
           b == SubSeq(q, i + 1, Len(q))
<1>1. Len(q) \in Nat /\ i \in Int /\ 1 <= i /\ i <= Len(q)
  OBVIOUS
<1>2. a \in Seq(S) /\ Len(a) = i - 1 /\ \A p \in 1 .. i - 1 : a[p] = q[p]
  BY <1>1, SubSeqProperties
<1>3. b \in Seq(S) /\ Len(b) = Len(q) - i /\ \A p \in 1 .. Len(q) - i : b[p] = q[p + i]
  BY <1>1, SubSeqProperties
<1> HIDE DEF a, b
<1>4. /\ a \o b \in Seq(S) /\ Len(a \o b) = Len(a) + Len(b)
      /\ \A p \in 1 .. Len(a) + Len(b) : (a \o b)[p] = IF p <= Len(a) THEN a[p] ELSE b[p - Len(a)]
  BY <1>2, <1>3, ConcatProperties
<1>5. Len(a \o b) = Len(q) - 1 /\ Len(q) \in Nat \ {0}
  BY <1>1, <1>2, <1>3, <1>4
<1>6. ASSUME NEW p \in 1 .. Len(q) - 1
      PROVE  (a \o b)[p] = IF p < i THEN q[p] ELSE q[p + 1]
  <2>1. CASE p < i
    BY <1>1, <1>2, <1>3, <1>4, <2>1
  <2>2. CASE ~ (p < i)
    <3>1. p - Len(a) \in 1 .. Len(q) - i /\ p - Len(a) + i = p + 1 /\ ~ (p <= Len(a))
      BY <1>1, <1>2, <2>2
    <3>2. (a \o b)[p] = b[p - Len(a)]
      BY <1>1, <1>2, <1>3, <1>4, <3>1
    <3>3. b[p - Len(a)] = q[p - Len(a) + i]
      BY <1>3, <3>1
    <3> QED
      BY <2>2, <3>1, <3>2, <3>3
  <2> QED
    BY <2>1, <2>2
<1> QED
  BY <1>4, <1>5, <1>6 DEF a, b

\* The natural numbers are well ordered.
LEMMA LeastNatural ==
  ASSUME NEW T, T \subseteq Nat, T # {}
  PROVE  \E x \in T : \A y \in T : x <= y
<1> DEFINE R == OpToRel(<, Nat)
<1>1. IsWellFoundedOn(R, Nat)
  BY NatLessThanWellFounded, Zenon
<1>2. \A x, y \in Nat : <<y, x>> \in R <=> y < x
  BY Zenon DEF OpToRel
<1> HIDE DEF R
<1>3. PICK x \in T : \A y \in T : ~ (<<y, x>> \in R)
  BY <1>1, WFMin
<1>4. \A y \in T : ~ (y < x)
  BY <1>2, <1>3
<1> QED
  BY <1>4

\* The place of the first item of the list q that answers to the key k, or 0.
IsFirst(q, k, n) ==
  \/ n = 0 /\ \A p \in 1 .. Len(q) : ~ SameKey(q[p].key, k)
  \/ /\ n \in 1 .. Len(q) /\ SameKey(q[n].key, k)
     /\ \A p \in 1 .. Len(q) : p < n => ~ SameKey(q[p].key, k)

First(q, k) ==
  LET found == {p \in 1 .. Len(q) : SameKey(q[p].key, k)}
  IN  IF found # {} THEN Min(found) ELSE 0

LEMMA FirstOfIs ==
  ASSUME NEW k
  PROVE  /\ FirstOf(k) = IF kind = "object" THEN First(items, k) ELSE 0
         /\ FirstOf(k)' = IF kind' = "object" THEN First(items', k) ELSE 0
BY DEF FirstOf, First

LEMMA FirstUnique ==
  ASSUME NEW q, Len(q) \in Nat, NEW k, NEW m, NEW n, IsFirst(q, k, m), IsFirst(q, k, n)
  PROVE  m = n
BY DEF IsFirst

LEMMA FirstIs ==
  ASSUME NEW q, Len(q) \in Nat, NEW k
  PROVE  IsFirst(q, k, First(q, k)) /\ First(q, k) \in 0 .. Len(q)
<1> DEFINE found == {p \in 1 .. Len(q) : SameKey(q[p].key, k)}
<1>1. CASE found = {}
  BY <1>1 DEF First, IsFirst
<1>2. CASE found # {}
  <2>1. found \subseteq Nat /\ First(q, k) = Min(found)
    BY <1>2 DEF First
  <2>2. \E x \in found : \A y \in found : x <= y
    <3> HIDE DEF found
    <3> QED
      BY <1>2, <2>1, LeastNatural
  <2>3. Min(found) \in found /\ \A y \in found : Min(found) <= y
    <3> HIDE DEF found
    <3> QED
      BY <2>2 DEF Min
  <2>4. First(q, k) \in 1 .. Len(q) /\ SameKey(q[First(q, k)].key, k)
    BY <2>1, <2>3
  <2>5. \A p \in 1 .. Len(q) : p < First(q, k) => ~ SameKey(q[p].key, k)
    BY <2>1, <2>3, <2>4
  <2> QED
    BY <2>4, <2>5 DEF IsFirst
<1> QED
  BY <1>1, <1>2

LEMMA FirstAtEnd ==
  ASSUME NEW S, NEW q \in Seq(S), NEW e \in S, NEW k
  PROVE  First(Append(q, e), k) =
           IF First(q, k) # 0 THEN First(q, k)
           ELSE IF SameKey(e.key, k) THEN Len(q) + 1 ELSE 0
<1> DEFINE r == Append(q, e)
           n == IF First(q, k) # 0 THEN First(q, k)
                ELSE IF SameKey(e.key, k) THEN Len(q) + 1 ELSE 0
<1>1. /\ Len(q) \in Nat /\ Len(r) = Len(q) + 1
      /\ \A p \in 1 .. Len(q) : r[p] = q[p]
      /\ r[Len(q) + 1] = e
  BY AtEnd
<1> HIDE DEF r
<1>2. IsFirst(q, k, First(q, k)) /\ First(q, k) \in 0 .. Len(q)
  BY <1>1, FirstIs
<1>3. IsFirst(r, k, n)
  <2>1. CASE First(q, k) # 0
    BY <1>1, <1>2, <2>1 DEF IsFirst
  <2>2. CASE First(q, k) = 0
    <3>1. \A p \in 1 .. Len(q) : ~ SameKey(r[p].key, k)
      BY <1>1, <1>2, <2>2 DEF IsFirst
    <3>2. \A p \in 1 .. Len(r) : p \in 1 .. Len(q) \/ p = Len(q) + 1
      BY <1>1
    <3> QED
      BY <1>1, <2>2, <3>1, <3>2 DEF IsFirst
  <2> QED
    BY <2>1, <2>2
<1>4. IsFirst(r, k, First(r, k))
  BY <1>1, FirstIs
<1>5. First(r, k) = n
  <2> HIDE DEF n
  <2> QED
    BY <1>1, <1>3, <1>4, FirstUnique
<1> QED
  BY <1>5 DEF r

LEMMA FirstAtPlace ==
  ASSUME NEW S, NEW q \in Seq(S), NEW e \in S, NEW i \in 1 .. Len(q),
         \A k : SameKey(e.key, k) <=> SameKey(q[i].key, k), NEW k
  PROVE  First([q EXCEPT ![i] = e], k) = First(q, k)
<1> DEFINE r == [q EXCEPT ![i] = e]
<1>1. /\ Len(q) \in Nat /\ Len(r) = Len(q)
      /\ \A p \in 1 .. Len(q) : r[p] = IF p = i THEN e ELSE q[p]
  BY AtPlace
<1> HIDE DEF r
<1>2. \A p \in 1 .. Len(q) : SameKey(r[p].key, k) <=> SameKey(q[p].key, k)
  BY <1>1
<1>3. IsFirst(q, k, First(q, k))
  BY <1>1, FirstIs
<1>4. IsFirst(r, k, First(q, k))
  BY <1>1, <1>2, <1>3 DEF IsFirst
<1>5. IsFirst(r, k, First(r, k))
  BY <1>1, FirstIs
<1> QED
  BY <1>1, <1>4, <1>5, FirstUnique DEF r

LEMMA FirstTakenOut ==
  ASSUME NEW S, NEW q \in Seq(S), NEW i \in 1 .. Len(q), NEW k, ~ SameKey(q[i].key, k)
  PROVE  First(SubSeq(q, 1, i - 1) \o SubSeq(q, i + 1, Len(q)), k) =
           IF First(q, k) > i THEN First(q, k) - 1 ELSE First(q, k)
<1> DEFINE r == SubSeq(q, 1, i - 1) \o SubSeq(q, i + 1, Len(q))
           n == IF First(q, k) > i THEN First(q, k) - 1 ELSE First(q, k)
<1>1. /\ Len(q) \in Nat \ {0} /\ Len(r) = Len(q) - 1
      /\ \A p \in 1 .. Len(q) - 1 : r[p] = IF p < i THEN q[p] ELSE q[p + 1]
  BY TakenOut
<1> HIDE DEF r
<1>2. IsFirst(q, k, First(q, k)) /\ First(q, k) \in 0 .. Len(q)
  BY <1>1, FirstIs
<1>3. First(q, k) # i
  BY <1>2 DEF IsFirst
<1>4. IsFirst(r, k, n)
  <2>1. CASE First(q, k) = 0
    <3>1. \A p \in 1 .. Len(q) : ~ SameKey(q[p].key, k)
      BY <1>2, <2>1 DEF IsFirst
    <3>2. n = 0
      BY <2>1
    <3>3. ASSUME NEW p \in 1 .. Len(r) PROVE ~ SameKey(r[p].key, k)
      <4>1. p \in 1 .. Len(q) /\ p + 1 \in 1 .. Len(q) /\ p \in 1 .. Len(q) - 1
        BY <1>1
      <4> QED
        BY <1>1, <3>1, <4>1
    <3> QED
      BY <3>2, <3>3 DEF IsFirst
  <2>2. CASE First(q, k) # 0
    <3>1. /\ First(q, k) \in 1 .. Len(q) /\ SameKey(q[First(q, k)].key, k)
          /\ \A p \in 1 .. Len(q) : p < First(q, k) => ~ SameKey(q[p].key, k)
      BY <1>2, <2>2 DEF IsFirst
    <3>2. /\ n \in 1 .. Len(q) - 1
          /\ r[n] = q[First(q, k)]
      BY <1>1, <1>3, <3>1
    <3>3. ASSUME NEW p \in 1 .. Len(r), p < n PROVE ~ SameKey(r[p].key, k)
      <4>1. p \in 1 .. Len(q) - 1 /\ p \in 1 .. Len(q) /\ p + 1 \in 1 .. Len(q)
        BY <1>1
      <4>2. CASE p < i
        <5>1. p < First(q, k)
          BY <1>2, <3>3, <4>1
        <5> QED
          BY <1>1, <3>1, <4>1, <4>2, <5>1
      <4>3. CASE ~ (p < i)
        <5>1. p + 1 < First(q, k)
          BY <1>2, <1>3, <3>3, <4>1, <4>3
        <5> QED
          BY <1>1, <3>1, <4>1, <4>3, <5>1
      <4> QED
        BY <4>2, <4>3
    <3> HIDE DEF n
    <3> QED
      BY <1>1, <3>1, <3>2, <3>3 DEF IsFirst
  <2> QED
    BY <2>1, <2>2
<1>5. IsFirst(r, k, First(r, k))
  BY <1>1, FirstIs
<1>6. First(r, k) = n
  <2>1. Len(r) \in Nat
    BY <1>1
  <2> HIDE DEF n
  <2> QED
    BY <1>4, <1>5, <2>1, FirstUnique
<1> QED
  BY <1>6 DEF r

-----------------------------------------------------------------------------
(* The invariant *)

ItemsInv ==
  /\ kind \in {"none", "object", "array", "scalar"}
  /\ items \in Seq(Entries)
  /\ \A p \in 1 .. Len(items) : items[p].key \in MemberKeys(kind)

RefsInv ==
  /\ DOMAIN objectRef \subseteq Keys /\ DOMAIN arrayRef \subseteq Indices
  /\ \A k \in DOMAIN objectRef : objectRef[k] \in Dangling .. Len(items)
  /\ \A i \in DOMAIN arrayRef : arrayRef[i] \in Dangling .. Len(items)
  /\ kind # "object" => \A k \in DOMAIN objectRef : objectRef[k] <= 0
  /\ kind # "array" => \A i \in DOMAIN arrayRef : arrayRef[i] <= 0

\* A wrapper points into the list only from the kind of document that it is for.
\* KeysCurrent is kept because a list of keys is only made of an object, which
\* stays one until Clear.
KeyInv ==
  /\ keyList \in Seq(Keys \cup {NoKey}) /\ at \in 1 .. Len(keyList) + 1
  /\ keyList # <<>> => kind = "object"
  /\ KeysCurrent

JsonInv == careful \in BOOLEAN /\ ItemsInv /\ RefsInv /\ KeyInv /\ WrappersCurrent

LEMMA Lengths ==
  /\ ItemsInv => Len(items) \in Nat /\ DOMAIN items = 1 .. Len(items)
  /\ ItemsInv' => Len(items') \in Nat /\ DOMAIN items' = 1 .. Len(items')
BY LenProperties DEF ItemsInv

LEMMA Fields ==
  ASSUME ItemsInv, NEW p \in 1 .. Len(items)
  PROVE  items[p].key \in Keys \cup {NoKey} /\ items[p].val \in SoundValues
<1>1. items[p] \in Entries
  <2>1. Len(items) \in Nat /\ items \in Seq(Entries)
    BY Lengths DEF ItemsInv
  <2> QED
    BY <2>1, ElementOfSeq
<1> QED
  BY <1>1 DEF Entries

\* Only objects and arrays have items.
LEMMA Childless ==
  ASSUME ItemsInv, kind \notin {"object", "array"}
  PROVE  Len(items) = 0 /\ items = <<>>
<1>1. Len(items) \in Nat /\ items \in Seq(Entries)
  BY Lengths DEF ItemsInv
<1>2. \A p \in 1 .. Len(items) : FALSE
  BY DEF ItemsInv, MemberKeys
<1>3. Len(items) = 0
  <2>1. CASE Len(items) # 0
    <3>1. 1 \in 1 .. Len(items)
      BY <1>1, <2>1
    <3> QED
      BY <1>2, <3>1
  <2> QED
    BY <2>1
<1> QED
  BY <1>1, <1>3, EmptySeq

LEMMA Focuses ==
  ASSUME NEW new \in {"object", "array"}, ItemsInv
  PROVE  /\ Focus(new) \in {"none", "object", "array", "scalar"}
         /\ Focus(new) = new => kind \in {"none", new}
         /\ Focus(new) # new => kind # "none" /\ Focus(new) = kind
BY DEF Focus, ItemsInv

LEMMA KeysForgotten == ForgetKeys => KeyInv'
<1> SUFFICES ASSUME ForgetKeys PROVE KeyInv'
  OBVIOUS
<1>1. keyList' = <<>> /\ at' = 1
  BY DEF ForgetKeys
<1>2. <<>> \in Seq(Keys \cup {NoKey}) /\ Len(<<>>) = 0
  BY EmptySeq
<1> QED
  BY <1>1, <1>2 DEF KeyInv, KeysCurrent

\* The list of keys stays right when nothing it is about changes.
LEMMA KeysKept ==
  ASSUME KeyInv, KeepKeys, kind # "object" \/ (kind' = kind /\ items' = items /\ (careful' => careful))
  PROVE  KeyInv'
<1>1. UNCHANGED <<keyList, at>>
  BY DEF KeepKeys
<1>2. CASE keyList = <<>>
  BY <1>1, <1>2 DEF KeyInv, KeysCurrent
<1>3. CASE keyList # <<>>
  <2>1. kind = "object" /\ kind' = kind /\ items' = items
    BY <1>3 DEF KeyInv
  <2>2. careful' => careful
    BY <2>1
  <2> QED
    BY <1>1, <2>1, <2>2 DEF KeyInv, KeysCurrent
<1> QED
  BY <1>2, <1>3

\* A wrapper points where the caller thinks.
KeyRefsRight == \A k \in DOMAIN objectRef : objectRef[k] = FirstOf(k)
IndexRefsRight == \A i \in DOMAIN arrayRef : arrayRef[i] = ItemAt(i)

LEMMA Wrappers ==
  /\ WrappersCurrent <=> (careful => KeyRefsRight /\ IndexRefsRight)
  /\ WrappersCurrent' <=> (careful' => KeyRefsRight' /\ IndexRefsRight')
BY DEF WrappersCurrent, KeyRefsRight, IndexRefsRight

\* Outside an array no index names an item, outside an object no key does.
LEMMA NoItem ==
  /\ kind # "array" => \A i : ItemAt(i) = 0
  /\ kind' # "array" => \A i : ItemAt(i)' = 0
  /\ kind # "object" => \A k : FirstOf(k) = 0
  /\ kind' # "object" => \A k : FirstOf(k)' = 0
BY FirstOfIs DEF ItemAt

LEMMA PlaceIs ==
  ASSUME ItemsInv, NEW k
  PROVE  /\ FirstOf(k) \in 0 .. Len(items)
         /\ FirstOf(k) # 0 => /\ kind = "object" /\ FirstOf(k) \in 1 .. Len(items)
                              /\ SameKey(items[FirstOf(k)].key, k)
<1>1. Len(items) \in Nat
  BY Lengths
<1>2. IsFirst(items, k, First(items, k)) /\ First(items, k) \in 0 .. Len(items)
  BY <1>1, FirstIs
<1> QED
  BY <1>1, <1>2, FirstOfIs DEF IsFirst

-----------------------------------------------------------------------------
(* By key *)

LEMMA MemberAppended ==
  ASSUME ItemsInv, KeyInv, NEW k \in Keys, NEW v \in SoundValues, AppendMember(k, v),
         careful' => careful
  PROVE  /\ ItemsInv' /\ KeyInv' /\ kind \in {"none", kind'}
         /\ Len(items') \in {Len(items), Len(items) + 1}
         /\ \A i : ItemAt(i)' = ItemAt(i)
         /\ kind' # "object" => \A j : FirstOf(j)' = FirstOf(j)
         /\ kind' = "object" =>
              \A j : FirstOf(j)' = IF FirstOf(j) # 0 THEN FirstOf(j)
                                   ELSE IF SameKey(k, j) THEN Len(items) + 1 ELSE 0
<1>1. Len(items) \in Nat /\ items \in Seq(Entries)
  BY Lengths DEF ItemsInv
<1>2. kind' = Focus("object") /\ kind' \in {"none", "object", "array", "scalar"}
  BY Focuses DEF AppendMember
<1>3. CASE kind' # "object"
  <2>1. kind' = kind /\ items' = items /\ KeepKeys
    BY <1>2, <1>3, Focuses DEF AppendMember
  <2>2. KeyInv'
    BY <2>1, KeysKept
  <2>3. \A j : FirstOf(j)' = FirstOf(j) /\ ItemAt(j)' = ItemAt(j)
    BY <2>1 DEF FirstOf, ItemAt
  <2> QED
    BY <1>1, <1>3, <2>1, <2>2, <2>3 DEF ItemsInv
<1>4. CASE kind' = "object"
  <2>1. kind \in {"none", "object"} /\ items' = Append(items, Item(k, v)) /\ ForgetKeys
    BY <1>2, <1>4, Focuses DEF AppendMember
  <2>2. Item(k, v) \in Entries /\ Item(k, v).key = k
    BY ItemIs
  <2>3. /\ items' \in Seq(Entries) /\ Len(items') = Len(items) + 1
        /\ \A p \in 1 .. Len(items) : items'[p] = items[p]
        /\ items'[Len(items) + 1] = Item(k, v)
    BY <1>1, <2>1, <2>2, AtEnd
  <2>4. \A p \in 1 .. Len(items) : items[p].key \in Keys
    BY <2>1, Childless, Lengths DEF ItemsInv, MemberKeys
  <2>5. ItemsInv'
    <3>1. ASSUME NEW p \in 1 .. Len(items') PROVE items'[p].key \in Keys
      BY <1>1, <2>2, <2>3, <2>4
    <3> QED
      BY <1>2, <1>4, <2>3, <3>1 DEF ItemsInv, MemberKeys
  <2>6. ASSUME NEW j
        PROVE FirstOf(j)' = IF FirstOf(j) # 0 THEN FirstOf(j)
                            ELSE IF SameKey(k, j) THEN Len(items) + 1 ELSE 0
    <3>1. First(items', j) = IF First(items, j) # 0 THEN First(items, j)
                             ELSE IF SameKey(k, j) THEN Len(items) + 1 ELSE 0
      BY <1>1, <2>1, <2>2, FirstAtEnd
    <3>2. First(items, j) = FirstOf(j)
      <4>1. CASE kind = "object"
        BY <4>1, FirstOfIs
      <4>2. CASE kind = "none"
        <5>1. items = <<>> /\ Len(items) = 0
          BY <4>2, Childless
        <5>2. First(items, j) \in 0 .. Len(items)
          BY <5>1, FirstIs
        <5> QED
          BY <4>2, <5>1, <5>2, FirstOfIs
      <4> QED
        BY <2>1, <4>1, <4>2
    <3> QED
      BY <1>4, <3>1, <3>2, FirstOfIs
  <2>7. \A i : ItemAt(i)' = ItemAt(i)
    BY <1>4, <2>1, NoItem
  <2> QED
    BY <1>4, <2>1, <2>3, <2>5, <2>6, <2>7, KeysForgotten
<1> QED
  BY <1>3, <1>4

LEMMA Dropped ==
  ASSUME NEW ref, NEW S
  PROVE  /\ DOMAIN Drop(ref, S) = DOMAIN ref \ S
         /\ \A x \in DOMAIN ref \ S : Drop(ref, S)[x] = ref[x]
BY DEF Drop, Restrict

\* When wrappers only go away and the list does not shrink.
LEMMA RefsKept ==
  ASSUME ItemsInv, RefsInv, ItemsInv', Len(items') \in {Len(items), Len(items) + 1},
         kind \in {"none", kind'},
         DOMAIN objectRef' \subseteq DOMAIN objectRef, DOMAIN arrayRef' \subseteq DOMAIN arrayRef,
         \A j \in DOMAIN objectRef' : objectRef'[j] = objectRef[j],
         \A j \in DOMAIN arrayRef' : arrayRef'[j] = arrayRef[j]
  PROVE  RefsInv'
<1>1. Len(items) \in Nat /\ Len(items') \in Nat
  BY Lengths
<1>2. Dangling .. Len(items) \subseteq Dangling .. Len(items')
  BY <1>1 DEF Dangling
<1>3. kind = "none" => kind # "object" /\ kind # "array"
  OBVIOUS
<1> QED
  BY <1>2, <1>3 DEF RefsInv

LEMMA SomeKey ==
  ASSUME NEW j, NEW k
  PROVE  SameKey(j, k) <=> SameKey(k, j)
BY DEF SameKey

LEMMA AddScalarStep ==
  ASSUME JsonInv, NEW k \in Keys, NEW v \in SoundValues, AddScalar(k, v)
  PROVE  JsonInv'
<1>1. careful' \in BOOLEAN /\ (careful' => careful)
      /\ (careful' => ~ (kind' = "object" /\ LookedUp(k) /\ ~ Present(k)))
  BY DEF AddScalar, JsonInv
<1>2. AppendMember(k, v) /\ UNCHANGED <<objectRef, arrayRef>>
  BY DEF AddScalar, KeepRefs
<1>3. /\ ItemsInv' /\ KeyInv' /\ kind \in {"none", kind'}
      /\ Len(items') \in {Len(items), Len(items) + 1}
      /\ \A i : ItemAt(i)' = ItemAt(i)
      /\ kind' # "object" => \A j : FirstOf(j)' = FirstOf(j)
      /\ kind' = "object" =>
           \A j : FirstOf(j)' = IF FirstOf(j) # 0 THEN FirstOf(j)
                                ELSE IF SameKey(k, j) THEN Len(items) + 1 ELSE 0
  BY <1>1, <1>2, MemberAppended DEF JsonInv
<1>4. RefsInv'
  BY <1>2, <1>3, RefsKept DEF JsonInv
<1>5. WrappersCurrent'
  <2> SUFFICES ASSUME careful' PROVE KeyRefsRight' /\ IndexRefsRight'
    BY Wrappers
  <2>1. KeyRefsRight /\ IndexRefsRight
    BY <1>1, Wrappers DEF JsonInv
  <2>2. ASSUME NEW j \in DOMAIN objectRef PROVE FirstOf(j)' = FirstOf(j)
    <3>1. CASE kind' # "object"
      BY <1>3, <3>1
    <3>2. CASE kind' = "object" /\ FirstOf(j) # 0
      BY <1>3, <3>2
    <3>3. CASE kind' = "object" /\ FirstOf(j) = 0
      <4>1. ~ SameKey(k, j)
        <5> SUFFICES ASSUME SameKey(k, j) PROVE FALSE
          OBVIOUS
        <5>1. LookedUp(k)
          BY SomeKey DEF LookedUp
        <5>2. FirstOf(k) = FirstOf(j)
          BY DEF FirstOf, SameKey
        <5> QED
          BY <1>1, <3>3, <5>1, <5>2 DEF Present
      <4> QED
        BY <1>3, <3>3, <4>1
    <3> QED
      BY <3>1, <3>2, <3>3
  <2> QED
    BY <1>2, <1>3, <2>1, <2>2 DEF KeyRefsRight, IndexRefsRight
<1> QED
  BY <1>1, <1>3, <1>4, <1>5 DEF JsonInv

LEMMA AddObjectStep ==
  ASSUME JsonInv, NEW k \in Keys, AddObject(k)
  PROVE  JsonInv'
<1>1. careful' \in BOOLEAN /\ (careful' => careful /\ ~ (OtherSpelling(k) /\ ~ Present(k)))
  BY DEF AddObject, JsonInv
<1>2. AppendMember(k, Struct) /\ UNCHANGED arrayRef /\ Struct \in SoundValues
  BY SoundInputs, SoundIs DEF AddObject
<1>3. /\ ItemsInv' /\ KeyInv' /\ kind \in {"none", kind'}
      /\ Len(items') \in {Len(items), Len(items) + 1}
      /\ \A i : ItemAt(i)' = ItemAt(i)
      /\ kind' # "object" => \A j : FirstOf(j)' = FirstOf(j)
      /\ kind' = "object" =>
           \A j : FirstOf(j)' = IF FirstOf(j) # 0 THEN FirstOf(j)
                                ELSE IF SameKey(k, j) THEN Len(items) + 1 ELSE 0
  BY <1>1, <1>2, MemberAppended DEF JsonInv
<1>4. /\ DOMAIN objectRef' \subseteq DOMAIN objectRef
      /\ \A j \in DOMAIN objectRef' : objectRef'[j] = objectRef[j]
      /\ kind' = "object" => k \notin DOMAIN objectRef'
  <2>1. CASE kind' = "object"
    <3>1. objectRef' = Drop(objectRef, {k})
      BY <2>1 DEF AddObject
    <3>2. /\ DOMAIN objectRef' = DOMAIN objectRef \ {k}
          /\ \A j \in DOMAIN objectRef \ {k} : objectRef'[j] = objectRef[j]
      BY <3>1, Dropped
    <3> QED
      BY <3>2
  <2>2. CASE kind' # "object"
    BY <2>2 DEF AddObject
  <2> QED
    BY <2>1, <2>2
<1>5. RefsInv'
  BY <1>2, <1>3, <1>4, RefsKept DEF JsonInv
<1>6. WrappersCurrent'
  <2> SUFFICES ASSUME careful' PROVE KeyRefsRight' /\ IndexRefsRight'
    BY Wrappers
  <2>1. KeyRefsRight /\ IndexRefsRight
    BY <1>1, Wrappers DEF JsonInv
  <2>2. ASSUME NEW j \in DOMAIN objectRef' PROVE FirstOf(j)' = FirstOf(j)
    <3>1. CASE kind' # "object"
      BY <1>3, <3>1
    <3>2. CASE kind' = "object" /\ FirstOf(j) # 0
      BY <1>3, <3>2
    <3>3. CASE kind' = "object" /\ FirstOf(j) = 0
      <4>1. ~ SameKey(k, j)
        <5> SUFFICES ASSUME SameKey(k, j) PROVE FALSE
          OBVIOUS
        <5>1. j # k /\ j \in DOMAIN objectRef /\ j \in Keys
          BY <1>4, <3>3 DEF JsonInv, RefsInv
        <5>2. OtherSpelling(k)
          BY <5>1, SomeKey DEF OtherSpelling, LookedUpAs
        <5>3. FirstOf(k) = FirstOf(j)
          BY DEF FirstOf, SameKey
        <5> QED
          BY <1>1, <3>3, <5>2, <5>3 DEF Present
      <4> QED
        BY <1>3, <3>3, <4>1
    <3> QED
      BY <3>1, <3>2, <3>3
  <2> QED
    BY <1>2, <1>3, <1>4, <2>1, <2>2 DEF KeyRefsRight, IndexRefsRight
<1> QED
  BY <1>1, <1>3, <1>5, <1>6 DEF JsonInv

\* A call that changes neither the items nor the wrappers, on a document that
\* may be created by it.
LEMMA AddNothingStep ==
  ASSUME JsonInv, NEW new \in {"object", "array"}, AddNothing(new)
  PROVE  JsonInv'
<1>1. /\ kind' = Focus(new) /\ UNCHANGED <<items, careful, objectRef, arrayRef>> /\ KeepKeys
      /\ ItemsInv
  BY DEF AddNothing, KeepRefs, JsonInv
<1>2. CASE kind' = kind
  BY <1>1, <1>2, Focuses
  DEF JsonInv, ItemsInv, RefsInv, KeyInv, KeepKeys, KeysCurrent, WrappersCurrent, FirstOf, ItemAt
<1>3. CASE kind' # kind
  <2>1. kind = "none" /\ kind' = new
    BY <1>1, <1>3, Focuses DEF Focus
  <2>2. items = <<>> /\ Len(items) = 0
    BY <1>1, <2>1, Childless
  <2>3. ItemsInv'
    BY <1>1, <2>1, <2>2, Focuses DEF ItemsInv
  <2>4. KeyInv'
    BY <1>1, <2>1, KeysKept DEF JsonInv
  <2>5. \A j : FirstOf(j)' = 0 /\ FirstOf(j) = 0
    <3> TAKE j
    <3>1. First(items, j) \in 0 .. Len(items)
      BY <2>2, FirstIs
    <3> QED
      BY <1>1, <2>2, <3>1, FirstOfIs
  <2>6. \A i \in Indices : ItemAt(i)' = 0 /\ ItemAt(i) = 0
    BY <1>1, <2>1, <2>2 DEF ItemAt, Indices
  <2>7. RefsInv'
    <3>1. kind # "object" /\ kind # "array" /\ items' = items
      BY <1>1, <2>1
    <3> QED
      BY <1>1, <3>1 DEF JsonInv, RefsInv
  <2>8. WrappersCurrent'
    BY <1>1, <2>5, <2>6 DEF JsonInv, RefsInv, WrappersCurrent
  <2> QED
    BY <1>1, <2>3, <2>4, <2>7, <2>8 DEF JsonInv
<1> QED
  BY <1>2, <1>3

\* The item under a key takes the spelling of the call and a new value; every
\* key finds what it found before.
LEMMA MemberReplaced ==
  ASSUME ItemsInv, KeyInv, NEW k \in Keys, NEW v \in SoundValues, ReplaceMember(k, v),
         careful' => careful /\ ~ Respells(k)
  PROVE  /\ ItemsInv' /\ KeyInv' /\ Len(items') = Len(items)
         /\ kind = "object" /\ kind' = kind
         /\ \A j : FirstOf(j)' = FirstOf(j)
         /\ \A i : ItemAt(i)' = ItemAt(i)
<1> DEFINE i == FirstOf(k)
<1>1. /\ kind = "object" /\ i \in 1 .. Len(items) /\ SameKey(items[i].key, k)
      /\ items \in Seq(Entries) /\ Len(items) \in Nat
  BY PlaceIs, Lengths DEF ReplaceMember, Present, ItemsInv
<1>2. kind' = kind /\ items' = [items EXCEPT ![i] = Item(k, v)] /\ KeepKeys
  BY DEF ReplaceMember
<1> HIDE DEF i
<1>3. Item(k, v) \in Entries /\ Item(k, v).key = k
  BY ItemIs
<1>4. /\ items' \in Seq(Entries) /\ Len(items') = Len(items)
      /\ \A p \in 1 .. Len(items) : items'[p] = IF p = i THEN Item(k, v) ELSE items[p]
  BY <1>1, <1>2, <1>3, AtPlace
<1>5. ItemsInv'
  BY <1>1, <1>2, <1>3, <1>4 DEF ItemsInv, MemberKeys
<1>6. ASSUME NEW j PROVE FirstOf(j)' = FirstOf(j)
  <2>1. \A x : SameKey(Item(k, v).key, x) <=> SameKey(items[i].key, x)
    BY <1>1, <1>3 DEF SameKey
  <2>2. First(items', j) = First(items, j)
    BY <1>1, <1>2, <1>3, <2>1, FirstAtPlace
  <2> QED
    BY <1>1, <1>2, <2>2, FirstOfIs
<1>7. \A j : ItemAt(j)' = ItemAt(j)
  BY <1>1, <1>2, NoItem
<1>8. KeyInv'
  <2>1. CASE keyList = <<>>
    BY <1>2, <2>1 DEF KeepKeys, KeyInv, KeysCurrent
  <2>2. CASE keyList # <<>>
    <3>1. UNCHANGED <<keyList, at>>
      BY <1>2 DEF KeepKeys
    <3>2. careful' => keyList = [p \in DOMAIN items |-> items[p].key]
      BY <2>2 DEF KeyInv, KeysCurrent
    <3>3. careful' => items[i].key = k
      BY <2>2 DEF Respells, i
    <3>4. DOMAIN items' = DOMAIN items /\ DOMAIN items = 1 .. Len(items)
      BY <1>4, <1>5, Lengths
    <3>5. careful' => \A p \in DOMAIN items : items'[p].key = items[p].key
      BY <1>3, <1>4, <3>3, <3>4
    <3>6. careful' => keyList' = [p \in DOMAIN items' |-> items'[p].key]
      BY <3>1, <3>2, <3>4, <3>5
    <3> QED
      BY <1>1, <1>2, <2>2, <3>1, <3>6 DEF KeyInv, KeysCurrent
  <2> QED
    BY <2>1, <2>2
<1> QED
  BY <1>1, <1>2, <1>4, <1>5, <1>6, <1>7, <1>8

\* The wrapper of a replaced item dangles.
LEMMA Replaced ==
  ASSUME NEW ref, NEW p
  PROVE  /\ DOMAIN AfterReplace(ref, p) = DOMAIN ref
         /\ \A x \in DOMAIN ref : AfterReplace(ref, p)[x] = IF ref[x] = p THEN Dangling ELSE ref[x]
BY DEF AfterReplace

LEMMA ReplaceScalarStep ==
  ASSUME JsonInv, NEW k \in Keys, NEW v \in SoundValues, ReplaceScalar(k, v)
  PROVE  JsonInv'
<1>1. careful' \in BOOLEAN /\ (careful' => careful /\ ~ LookedUp(k) /\ ~ Respells(k))
  BY DEF ReplaceScalar, JsonInv
<1>2. /\ ReplaceMember(k, v) /\ UNCHANGED arrayRef
      /\ objectRef' = AfterReplace(objectRef, FirstOf(k)) /\ FirstOf(k) # 0
  BY DEF ReplaceScalar, ReplaceMember, Present
<1>3. /\ ItemsInv' /\ KeyInv' /\ Len(items') = Len(items) /\ kind = "object" /\ kind' = kind
      /\ \A j : FirstOf(j)' = FirstOf(j)
      /\ \A i : ItemAt(i)' = ItemAt(i)
  BY <1>1, <1>2, MemberReplaced DEF JsonInv
<1>4. /\ DOMAIN objectRef' = DOMAIN objectRef
      /\ \A j \in DOMAIN objectRef :
           objectRef'[j] = IF objectRef[j] = FirstOf(k) THEN Dangling ELSE objectRef[j]
  BY <1>2, Replaced
<1>5. RefsInv'
  <2>1. Len(items) \in Nat /\ Dangling \in Dangling .. Len(items)
    BY Lengths DEF JsonInv, Dangling
  <2>2. \A j \in DOMAIN objectRef : objectRef'[j] \in Dangling .. Len(items)
    BY <1>4, <2>1 DEF JsonInv, RefsInv
  <2> QED
    BY <1>2, <1>3, <1>4, <2>2 DEF JsonInv, RefsInv
<1>6. WrappersCurrent'
  <2> SUFFICES ASSUME careful' PROVE KeyRefsRight' /\ IndexRefsRight'
    BY Wrappers
  <2>1. KeyRefsRight /\ IndexRefsRight
    BY <1>1, Wrappers DEF JsonInv
  <2>2. ASSUME NEW j \in DOMAIN objectRef PROVE objectRef[j] # FirstOf(k)
    <3> SUFFICES ASSUME objectRef[j] = FirstOf(k) PROVE FALSE
      OBVIOUS
    <3>1. FirstOf(j) = FirstOf(k)
      BY <2>1 DEF KeyRefsRight
    <3>2. SameKey(items[FirstOf(k)].key, j) /\ SameKey(items[FirstOf(k)].key, k)
      BY <1>2, <3>1, PlaceIs DEF JsonInv
    <3>3. LookedUp(k)
      BY <3>2 DEF LookedUp, SameKey
    <3> QED
      BY <1>1, <3>3
  <2> QED
    BY <1>2, <1>3, <1>4, <2>1, <2>2 DEF KeyRefsRight, IndexRefsRight
<1> QED
  BY <1>1, <1>3, <1>5, <1>6 DEF JsonInv

LEMMA ReplaceObjectStep ==
  ASSUME JsonInv, NEW k \in Keys, ReplaceObject(k)
  PROVE  JsonInv'
<1>1. careful' \in BOOLEAN /\ (careful' => careful /\ ~ OtherSpelling(k) /\ ~ Respells(k))
  BY DEF ReplaceObject, JsonInv
<1>2. /\ ReplaceMember(k, Struct) /\ UNCHANGED arrayRef /\ Struct \in SoundValues
      /\ objectRef' = Drop(AfterReplace(objectRef, FirstOf(k)), {k}) /\ FirstOf(k) # 0
  BY SoundInputs, SoundIs DEF ReplaceObject, ReplaceMember, Present
<1>3. /\ ItemsInv' /\ KeyInv' /\ Len(items') = Len(items) /\ kind = "object" /\ kind' = kind
      /\ \A j : FirstOf(j)' = FirstOf(j)
      /\ \A i : ItemAt(i)' = ItemAt(i)
  BY <1>1, <1>2, MemberReplaced DEF JsonInv
<1>4. /\ DOMAIN objectRef' = DOMAIN objectRef \ {k}
      /\ \A j \in DOMAIN objectRef \ {k} :
           objectRef'[j] = IF objectRef[j] = FirstOf(k) THEN Dangling ELSE objectRef[j]
  <2> DEFINE ref == AfterReplace(objectRef, FirstOf(k))
  <2>1. /\ DOMAIN ref = DOMAIN objectRef
        /\ \A x \in DOMAIN objectRef :
             ref[x] = IF objectRef[x] = FirstOf(k) THEN Dangling ELSE objectRef[x]
    BY Replaced
  <2>2. objectRef' = Drop(ref, {k})
    BY <1>2
  <2> HIDE DEF ref
  <2>3. DOMAIN objectRef' = DOMAIN ref \ {k} /\ \A x \in DOMAIN ref \ {k} : objectRef'[x] = ref[x]
    BY <2>2, Dropped
  <2> QED
    BY <2>1, <2>3
<1>5. RefsInv'
  <2>1. Len(items) \in Nat /\ Dangling \in Dangling .. Len(items)
    BY Lengths DEF JsonInv, Dangling
  <2>2. \A j \in DOMAIN objectRef \ {k} : objectRef'[j] \in Dangling .. Len(items)
    BY <1>4, <2>1 DEF JsonInv, RefsInv
  <2> QED
    BY <1>2, <1>3, <1>4, <2>2 DEF JsonInv, RefsInv
<1>6. WrappersCurrent'
  <2> SUFFICES ASSUME careful' PROVE KeyRefsRight' /\ IndexRefsRight'
    BY Wrappers
  <2>1. KeyRefsRight /\ IndexRefsRight
    BY <1>1, Wrappers DEF JsonInv
  <2>2. ASSUME NEW j \in DOMAIN objectRef \ {k} PROVE objectRef[j] # FirstOf(k)
    <3> SUFFICES ASSUME objectRef[j] = FirstOf(k) PROVE FALSE
      OBVIOUS
    <3>1. FirstOf(j) = FirstOf(k)
      BY <2>1 DEF KeyRefsRight
    <3>2. SameKey(items[FirstOf(k)].key, j) /\ SameKey(items[FirstOf(k)].key, k)
      BY <1>2, <3>1, PlaceIs DEF JsonInv
    <3>3. j \in Keys /\ LookedUpAs(k, j)
      BY <3>2 DEF LookedUpAs, SameKey, JsonInv, RefsInv
    <3> QED
      BY <1>1, <3>3 DEF OtherSpelling
  <2> QED
    BY <1>2, <1>3, <1>4, <2>1, <2>2 DEF KeyRefsRight, IndexRefsRight
<1> QED
  BY <1>1, <1>3, <1>5, <1>6 DEF JsonInv

\* The wrapper of a removed item dangles, those behind it move up.
Moved(x, p) == IF x = p THEN Dangling ELSE IF x > p THEN x - 1 ELSE x

LEMMA Removed ==
  \A ref, p, S :
    /\ DOMAIN Drop(AfterRemove(ref, p), S) = DOMAIN ref \ S
    /\ \A x \in DOMAIN ref \ S : Drop(AfterRemove(ref, p), S)[x] = Moved(ref[x], p)
<1> TAKE ref, p, S
<1>1. /\ DOMAIN AfterRemove(ref, p) = DOMAIN ref
      /\ \A x \in DOMAIN ref : AfterRemove(ref, p)[x] = Moved(ref[x], p)
  BY DEF AfterRemove, Moved
<1>2. Drop(AfterRemove(ref, p), S)
        = [x \in DOMAIN AfterRemove(ref, p) \ S |-> AfterRemove(ref, p)[x]]
  BY DEF Drop, Restrict
<1> QED
  BY <1>1, <1>2

LEMMA Moves ==
  ASSUME NEW n \in Nat, NEW p \in 1 .. n, NEW x \in Dangling .. n
  PROVE  /\ Moved(x, p) \in Dangling .. n - 1
         /\ x <= 0 => Moved(x, p) = x
BY DEF Moved, Dangling

LEMMA ItemRemoved ==
  ASSUME ItemsInv, NEW i \in 1 .. Len(items), items' = Without(i), kind' = kind
  PROVE  ItemsInv' /\ Len(items) \in Nat \ {0} /\ Len(items') = Len(items) - 1
<1>1. /\ items' \in Seq(Entries) /\ Len(items) \in Nat \ {0} /\ Len(items') = Len(items) - 1
      /\ \A p \in 1 .. Len(items) - 1 : items'[p] = IF p < i THEN items[p] ELSE items[p + 1]
  BY TakenOut DEF ItemsInv, Without
<1>2. \A p \in 1 .. Len(items) - 1 : p \in 1 .. Len(items) /\ p + 1 \in 1 .. Len(items)
  BY <1>1
<1>3. \A p \in 1 .. Len(items') : items'[p].key \in MemberKeys(kind)
  BY <1>1, <1>2 DEF ItemsInv
<1> QED
  BY <1>1, <1>3 DEF ItemsInv

LEMMA DeleteKeyStep ==
  ASSUME JsonInv, NEW k \in Keys, DeleteKey(k)
  PROVE  JsonInv'
<1>1. careful' \in BOOLEAN /\ (careful' => careful /\ ~ (Present(k) /\ OtherSpelling(k)))
  BY DEF DeleteKey, JsonInv
<1>2. kind = "object" /\ kind' = kind /\ ForgetKeys /\ UNCHANGED arrayRef /\ KeyInv'
  BY KeysForgotten DEF DeleteKey
<1>3. CASE ~ Present(k)
  <2>1. items' = items /\ objectRef' = Drop(objectRef, {k})
    BY <1>3 DEF DeleteKey
  <2>2. /\ DOMAIN objectRef' = DOMAIN objectRef \ {k}
        /\ \A j \in DOMAIN objectRef \ {k} : objectRef'[j] = objectRef[j]
    BY <2>1, Dropped
  <2>3. \A j : FirstOf(j)' = FirstOf(j) /\ ItemAt(j)' = ItemAt(j)
    BY <1>2, <2>1 DEF FirstOf, ItemAt
  <2>4. ItemsInv' /\ RefsInv'
    BY <1>2, <2>1, <2>2 DEF JsonInv, ItemsInv, RefsInv
  <2>5. WrappersCurrent'
    <3> SUFFICES ASSUME careful' PROVE KeyRefsRight' /\ IndexRefsRight'
      BY Wrappers
    <3>1. KeyRefsRight /\ IndexRefsRight
      BY <1>1, Wrappers DEF JsonInv
    <3> QED
      BY <1>2, <2>2, <2>3, <3>1 DEF KeyRefsRight, IndexRefsRight
  <2> QED
    BY <1>1, <1>2, <2>4, <2>5 DEF JsonInv
<1>4. CASE Present(k)
  <2> DEFINE i == FirstOf(k)
  <2>1. /\ i \in 1 .. Len(items) /\ SameKey(items[i].key, k) /\ items \in Seq(Entries)
    BY <1>4, PlaceIs DEF Present, JsonInv, ItemsInv
  <2>2. items' = Without(i) /\ objectRef' = Drop(AfterRemove(objectRef, i), {k})
    BY <1>4 DEF DeleteKey
  <2> HIDE DEF i
  <2>3. ItemsInv' /\ Len(items) \in Nat \ {0} /\ Len(items') = Len(items) - 1
    BY <1>2, <2>1, <2>2, ItemRemoved DEF JsonInv
  <2>4. /\ DOMAIN objectRef' = DOMAIN objectRef \ {k}
        /\ \A j \in DOMAIN objectRef \ {k} : objectRef'[j] = Moved(objectRef[j], i)
    <3>1. objectRef' = Drop(AfterRemove(objectRef, i), {k})
      BY <2>2
    <3>2. DOMAIN Drop(AfterRemove(objectRef, i), {k}) = DOMAIN objectRef \ {k}
      BY Removed, Zenon
    <3>3. ASSUME NEW j \in DOMAIN objectRef \ {k}
          PROVE  Drop(AfterRemove(objectRef, i), {k})[j] = Moved(objectRef[j], i)
      BY <3>3, Removed
    <3> QED
      BY <3>1, <3>2, <3>3
  <2>5. \A x \in Dangling .. Len(items) : Moved(x, i) \in Dangling .. Len(items) - 1
    BY <2>1, <2>3, Moves
  <2>6. \A j \in DOMAIN objectRef \ {k} : objectRef'[j] \in Dangling .. Len(items')
    BY <2>3, <2>4, <2>5 DEF JsonInv, RefsInv
  <2>7. careful' => KeyRefsRight /\ IndexRefsRight
    BY <1>1, Wrappers DEF JsonInv
  <2>8. \A j : ItemAt(j) = 0 /\ ItemAt(j)' = 0
    BY <1>2, NoItem
  <2>9. ASSUME NEW j, ~ SameKey(k, j)
        PROVE  FirstOf(j)' = IF FirstOf(j) > i THEN FirstOf(j) - 1 ELSE FirstOf(j)
    <3>1. ~ SameKey(items[i].key, j)
      BY <2>1, <2>9 DEF SameKey
    <3>2. First(items', j) = IF First(items, j) > i THEN First(items, j) - 1 ELSE First(items, j)
      BY <2>1, <2>2, <3>1, FirstTakenOut DEF Without
    <3> QED
      BY <1>2, <3>2, FirstOfIs
  <2>10. ASSUME careful', NEW j \in DOMAIN objectRef \ {k}
         PROVE  ~ SameKey(k, j) /\ FirstOf(j) # i
    <3>1. ~ SameKey(k, j)
      <4> SUFFICES ASSUME SameKey(k, j) PROVE FALSE
        OBVIOUS
      <4>1. OtherSpelling(k)
        BY SomeKey DEF OtherSpelling, LookedUpAs, JsonInv, RefsInv
      <4> QED
        BY <1>1, <1>4, <2>10, <4>1
    <3>2. FirstOf(j) = i => SameKey(items[i].key, j)
      BY <1>4, PlaceIs DEF Present, JsonInv, i
    <3> QED
      BY <2>1, <3>1, <3>2 DEF SameKey
  <2>11. careful' => KeyRefsRight'
    BY <2>4, <2>7, <2>9, <2>10 DEF KeyRefsRight, Moved
  <2>12. careful' => IndexRefsRight'
    BY <1>2, <2>7, <2>8 DEF IndexRefsRight
  <2>13. RefsInv'
    <3>1. \A j \in DOMAIN objectRef' : objectRef'[j] \in Dangling .. Len(items')
      BY <2>4, <2>6
    <3>2. \A x \in DOMAIN arrayRef : arrayRef[x] \in Dangling .. Len(items')
      BY <1>2, <2>3 DEF JsonInv, RefsInv, Dangling
    <3> QED
      BY <1>2, <2>4, <3>1, <3>2 DEF JsonInv, RefsInv
  <2> QED
    BY <1>1, <1>2, <2>3, <2>11, <2>12, <2>13, Wrappers DEF JsonInv
<1> QED
  BY <1>3, <1>4

-----------------------------------------------------------------------------
(* Looking up *)

LEMMA SameList ==
  ASSUME ItemsInv, UNCHANGED <<kind, items>>
  PROVE  /\ ItemsInv' /\ Len(items') = Len(items) /\ Len(items) \in Nat
         /\ \A k : FirstOf(k)' = FirstOf(k)
         /\ \A i : ItemAt(i)' = ItemAt(i)
<1>1. ItemsInv' /\ Len(items') = Len(items) /\ Len(items) \in Nat
  BY Lengths DEF ItemsInv
<1>2. \A k : FirstOf(k)' = FirstOf(k)
  BY DEF FirstOf
<1>3. \A i : ItemAt(i)' = ItemAt(i)
  BY DEF ItemAt
<1> QED
  BY <1>1, <1>2, <1>3

LEMMA IndexPlaceIs ==
  ASSUME ItemsInv, NEW i \in Indices \cup {-1}
  PROVE  /\ ItemAt(i) \in 0 .. Len(items)
         /\ ItemAt(i) # 0 => kind = "array" /\ ItemAt(i) \in 1 .. Len(items)
         /\ i \in Indices /\ ItemAt(i) # 0 => ItemAt(i) = i + 1
         /\ i = -1 /\ ItemAt(i) # 0 => ItemAt(i) = 1
<1>1. Len(items) \in Nat
  BY Lengths
<1>2. i \in Int /\ i >= -1 /\ (i \in Indices => i >= 0)
  BY TopIs DEF Indices
<1>3. CASE kind # "array" \/ i >= Len(items)
  BY <1>1, <1>3 DEF ItemAt
<1>4. CASE kind = "array" /\ i < 0 /\ ~ (i >= Len(items))
  <2>1. i = -1 /\ ItemAt(i) = IF items = <<>> THEN 0 ELSE 1
    BY <1>2, <1>4 DEF ItemAt
  <2>2. items # <<>> => Len(items) >= 1
    BY <1>1, EmptySeq DEF ItemsInv
  <2> QED
    BY <1>1, <1>2, <1>4, <2>1, <2>2
<1>5. CASE kind = "array" /\ ~ (i < 0) /\ ~ (i >= Len(items))
  <2>1. ItemAt(i) = i + 1
    BY <1>5 DEF ItemAt
  <2> QED
    BY <1>1, <1>2, <1>5, <2>1
<1> QED
  BY <1>3, <1>4, <1>5

LEMMA RefKeyStep ==
  ASSUME JsonInv, NEW k \in Keys, RefKey(k)
  PROVE  JsonInv'
<1>1. /\ UNCHANGED <<kind, items, arrayRef, careful>> /\ KeepKeys
      /\ objectRef' = [j \in DOMAIN objectRef \cup {k} |->
                         IF j = k THEN FirstOf(k) ELSE objectRef[j]]
  BY DEF RefKey
<1>2. /\ ItemsInv' /\ Len(items') = Len(items) /\ Len(items) \in Nat
      /\ \A j : FirstOf(j)' = FirstOf(j)
      /\ \A i : ItemAt(i)' = ItemAt(i)
  BY <1>1, SameList DEF JsonInv
<1>3. /\ DOMAIN objectRef' = DOMAIN objectRef \cup {k} /\ objectRef'[k] = FirstOf(k)
      /\ \A j \in DOMAIN objectRef \cup {k} : j # k => objectRef'[j] = objectRef[j]
  BY <1>1
<1>4. /\ FirstOf(k) \in Dangling .. Len(items)
      /\ kind # "object" => FirstOf(k) <= 0
  BY <1>2, PlaceIs, NoItem DEF JsonInv, Dangling
<1>5. RefsInv'
  <2>1. \A j \in DOMAIN objectRef' :
          /\ objectRef'[j] \in Dangling .. Len(items)
          /\ kind # "object" => objectRef'[j] <= 0
    BY <1>3, <1>4 DEF JsonInv, RefsInv
  <2> QED
    BY <1>1, <1>2, <1>3, <2>1 DEF JsonInv, RefsInv
<1>6. KeyInv'
  BY <1>1, KeysKept DEF JsonInv
<1>7. WrappersCurrent'
  <2> SUFFICES ASSUME careful' PROVE KeyRefsRight' /\ IndexRefsRight'
    BY Wrappers
  <2>1. KeyRefsRight /\ IndexRefsRight
    BY <1>1, Wrappers DEF JsonInv
  <2> QED
    BY <1>1, <1>2, <1>3, <2>1 DEF KeyRefsRight, IndexRefsRight
<1>8. careful' \in BOOLEAN
  BY <1>1 DEF JsonInv
<1> QED
  BY <1>2, <1>5, <1>6, <1>7, <1>8 DEF JsonInv

LEMMA RefIndexStep ==
  ASSUME JsonInv, NEW i \in Indices, RefIndex(i)
  PROVE  JsonInv'
<1>1. /\ UNCHANGED <<kind, items, objectRef, careful>> /\ KeepKeys
      /\ arrayRef' = [j \in DOMAIN arrayRef \cup {i} |->
                        IF j = i THEN ItemAt(i) ELSE arrayRef[j]]
  BY DEF RefIndex
<1>2. /\ ItemsInv' /\ Len(items') = Len(items) /\ Len(items) \in Nat
      /\ \A j : FirstOf(j)' = FirstOf(j)
      /\ \A j : ItemAt(j)' = ItemAt(j)
  BY <1>1, SameList DEF JsonInv
<1>3. /\ DOMAIN arrayRef' = DOMAIN arrayRef \cup {i} /\ arrayRef'[i] = ItemAt(i)
      /\ \A j \in DOMAIN arrayRef \cup {i} : j # i => arrayRef'[j] = arrayRef[j]
  BY <1>1
<1>4. /\ ItemAt(i) \in Dangling .. Len(items)
      /\ kind # "array" => ItemAt(i) <= 0
  BY <1>2, IndexPlaceIs, NoItem DEF JsonInv, Dangling
<1>5. RefsInv'
  <2>1. \A j \in DOMAIN arrayRef' :
          /\ arrayRef'[j] \in Dangling .. Len(items)
          /\ kind # "array" => arrayRef'[j] <= 0
    BY <1>3, <1>4 DEF JsonInv, RefsInv
  <2> QED
    BY <1>1, <1>2, <1>3, <2>1 DEF JsonInv, RefsInv
<1>6. KeyInv'
  BY <1>1, KeysKept DEF JsonInv
<1>7. WrappersCurrent'
  <2> SUFFICES ASSUME careful' PROVE KeyRefsRight' /\ IndexRefsRight'
    BY Wrappers
  <2>1. KeyRefsRight /\ IndexRefsRight
    BY <1>1, Wrappers DEF JsonInv
  <2> QED
    BY <1>1, <1>2, <1>3, <2>1 DEF KeyRefsRight, IndexRefsRight
<1>8. careful' \in BOOLEAN
  BY <1>1 DEF JsonInv
<1> QED
  BY <1>2, <1>5, <1>6, <1>7, <1>8 DEF JsonInv

\* The wrapper that was assigned to is right only if the key names nothing.
LEMMA AssignRefStep ==
  ASSUME JsonInv, NEW k \in Keys, AssignRef(k)
  PROVE  JsonInv'
<1>1. /\ UNCHANGED <<kind, items, arrayRef>> /\ KeepKeys
      /\ objectRef' = [j \in DOMAIN objectRef \cup {k} |->
                         IF j = k THEN Orphan ELSE objectRef[j]]
  BY DEF AssignRef
<1>2. /\ ItemsInv' /\ Len(items') = Len(items) /\ Len(items) \in Nat
      /\ \A j : FirstOf(j)' = FirstOf(j)
      /\ \A i : ItemAt(i)' = ItemAt(i)
  BY <1>1, SameList DEF JsonInv
<1>3. /\ DOMAIN objectRef' = DOMAIN objectRef \cup {k} /\ objectRef'[k] = Orphan
      /\ \A j \in DOMAIN objectRef \cup {k} : j # k => objectRef'[j] = objectRef[j]
  BY <1>1
<1>4. careful' \in BOOLEAN /\ (careful' => careful /\ FirstOf(k) = 0)
  BY DEF AssignRef, Present, JsonInv
<1>5. RefsInv'
  <2>1. Orphan \in Dangling .. Len(items) /\ Orphan <= 0
    BY <1>2 DEF Orphan, Dangling
  <2>2. \A j \in DOMAIN objectRef' :
          /\ objectRef'[j] \in Dangling .. Len(items)
          /\ kind # "object" => objectRef'[j] <= 0
    BY <1>3, <2>1 DEF JsonInv, RefsInv
  <2> QED
    BY <1>1, <1>2, <1>3, <2>2 DEF JsonInv, RefsInv
<1>6. KeyInv'
  BY <1>1, <1>4, KeysKept DEF JsonInv
<1>7. WrappersCurrent'
  <2> SUFFICES ASSUME careful' PROVE KeyRefsRight' /\ IndexRefsRight'
    BY Wrappers
  <2>1. KeyRefsRight /\ IndexRefsRight /\ FirstOf(k) = Orphan
    BY <1>4, Wrappers DEF JsonInv, Orphan
  <2> QED
    BY <1>1, <1>2, <1>3, <2>1 DEF KeyRefsRight, IndexRefsRight
<1> QED
  BY <1>2, <1>4, <1>5, <1>6, <1>7 DEF JsonInv

\* A list with one entry for each place of another.
LEMMA Mapped ==
  ASSUME NEW S, NEW n \in Nat, NEW f \in [1 .. n -> S]
  PROVE  f \in Seq(S) /\ Len(f) = n /\ DOMAIN f = 1 .. n
<1>1. f \in Seq(S)
  BY SeqDef
<1> QED
  BY <1>1

LEMMA GetKeyStep ==
  ASSUME JsonInv, GetKey
  PROVE  JsonInv'
<1>1. UNCHANGED <<kind, items, objectRef, arrayRef, careful>>
  BY DEF GetKey, KeepRefs
<1>2. /\ ItemsInv' /\ Len(items') = Len(items) /\ Len(items) \in Nat
      /\ \A j : FirstOf(j)' = FirstOf(j)
      /\ \A i : ItemAt(i)' = ItemAt(i)
  BY <1>1, SameList DEF JsonInv
<1>3. RefsInv'
  BY <1>1, <1>2 DEF JsonInv, RefsInv
<1>4. WrappersCurrent'
  BY <1>1, <1>2 DEF JsonInv, WrappersCurrent
<1>5. keyList' \in Seq(Keys \cup {NoKey}) /\ at' \in 1 .. Len(keyList') + 1
  <2> DEFINE keys == [p \in DOMAIN items |-> items[p].key]
  <2>1. PICK list, pos :
          /\ list = IF keyList # <<>> THEN keyList ELSE IF kind = "object" THEN keys ELSE <<>>
          /\ pos = IF keyList # <<>> THEN at ELSE 1
          /\ keyList' = list /\ at' = IF pos > Len(list) THEN 1 ELSE pos + 1
    BY DEF GetKey
  <2>2. keys \in Seq(Keys \cup {NoKey})
    <3>1. keys \in [1 .. Len(items) -> Keys \cup {NoKey}]
      BY Lengths, Fields DEF JsonInv
    <3> HIDE DEF keys
    <3> QED
      BY <1>2, <3>1, Mapped
  <2>3. <<>> \in Seq(Keys \cup {NoKey})
    BY EmptySeq
  <2> HIDE DEF keys
  <2>4. list \in Seq(Keys \cup {NoKey})
    BY <2>1, <2>2, <2>3 DEF JsonInv, KeyInv
  <2>5. Len(list) \in Nat
    BY <2>4, LenProperties
  <2>6. pos \in 1 .. Len(list) + 1
    <3>1. CASE keyList # <<>>
      BY <2>1, <3>1 DEF JsonInv, KeyInv
    <3>2. CASE keyList = <<>>
      BY <2>1, <2>5, <3>2
    <3> QED
      BY <3>1, <3>2
  <2> QED
    BY <2>1, <2>4, <2>5, <2>6
<1>6. KeyInv'
  <2>1. CASE keyList # <<>>
    <3>1. keyList' = keyList
      BY <2>1 DEF GetKey
    <3> QED
      BY <1>1, <1>5, <2>1, <3>1 DEF JsonInv, KeyInv, KeysCurrent
  <2>2. CASE keyList = <<>> /\ kind = "object"
    <3>1. keyList' = [p \in DOMAIN items |-> items[p].key]
      BY <2>2 DEF GetKey
    <3> QED
      BY <1>1, <1>5, <2>2, <3>1 DEF KeyInv, KeysCurrent
  <2>3. CASE keyList = <<>> /\ kind # "object"
    <3>1. keyList' = <<>>
      BY <2>3 DEF GetKey
    <3> QED
      BY <1>5, <3>1 DEF KeyInv, KeysCurrent
  <2> QED
    BY <2>1, <2>2, <2>3
<1>7. careful' \in BOOLEAN
  BY <1>1 DEF JsonInv
<1> QED
  BY <1>2, <1>3, <1>4, <1>6, <1>7 DEF JsonInv

-----------------------------------------------------------------------------
(* Clear and Parse *)

LEMMA Cleared ==
  ASSUME Clear, ItemsInv'
  PROVE  JsonInv'
<1>1. objectRef' = <<>> /\ arrayRef' = <<>> /\ careful' = TRUE /\ ForgetKeys
  BY DEF Clear
<1>2. DOMAIN objectRef' = {} /\ DOMAIN arrayRef' = {}
  BY <1>1
<1>3. RefsInv' /\ WrappersCurrent'
  BY <1>2 DEF RefsInv, WrappersCurrent
<1> QED
  BY <1>1, <1>3, KeysForgotten DEF JsonInv

LEMMA ParseStep ==
  ASSUME Parse
  PROVE  JsonInv'
<1>1. PICK k \in {"none", "object", "array", "scalar"} :
        /\ Clear /\ kind' = k
        /\ \E n \in 0 .. MaxItems :
             items' \in [1 .. n -> {Item(j, Plain("null")) : j \in MemberKeys(k)}]
  BY DEF Parse
<1>2. PICK n \in 0 .. MaxItems :
        items' \in [1 .. n -> {Item(j, Plain("null")) : j \in MemberKeys(k)}]
  BY <1>1
<1>3. n \in Nat
  BY TopIs
<1>4. MemberKeys(k) \subseteq Keys \cup {NoKey}
  BY DEF MemberKeys
<1>5. ASSUME NEW j \in MemberKeys(k)
      PROVE  Item(j, Plain("null")) \in Entries /\ Item(j, Plain("null")).key = j
  BY <1>4, SoundInputs, SoundIs, ItemIs
<1>6. ASSUME NEW p \in 1 .. n
      PROVE  items'[p] \in Entries /\ items'[p].key \in MemberKeys(k)
  BY <1>2, <1>5
<1>7. items' \in [1 .. n -> Entries]
  BY <1>2, <1>6
<1>8. items' \in Seq(Entries) /\ Len(items') = n
  BY <1>3, <1>7, Mapped
<1>9. ItemsInv'
  BY <1>1, <1>6, <1>8 DEF ItemsInv
<1> QED
  BY <1>1, <1>9, Cleared

LEMMA CopyStep ==
  ASSUME JsonInv, Copy
  PROVE  JsonInv'
<1>1. /\ Clear /\ kind' = kind
      /\ \E slip \in [DOMAIN items -> -Slip .. Slip] :
           items' = [p \in DOMAIN items |->
                       Item(items[p].key, Reparsed(items[p].val, slip[p]))]
  BY DEF Copy
<1>2. PICK slip \in [DOMAIN items -> -Slip .. Slip] :
         items' = [p \in DOMAIN items |->
                     Item(items[p].key, Reparsed(items[p].val, slip[p]))]
  BY <1>1
<1> DEFINE value(p) == Reparsed(items[p].val, slip[p])
<1>3. Len(items) \in Nat /\ DOMAIN items = 1 .. Len(items) /\ items \in Seq(Entries)
  BY Lengths DEF JsonInv, ItemsInv
<1>4. items' = [p \in 1 .. Len(items) |-> Item(items[p].key, value(p))]
  BY <1>2, <1>3
<1>7. ASSUME NEW p \in 1 .. Len(items)
      PROVE  items[p].key \in Keys \cup {NoKey} /\ value(p) \in SoundValues
  <2>1. items[p].key \in Keys \cup {NoKey} /\ items[p].val \in SoundValues
    BY Fields DEF JsonInv
  <2>2. slip[p] \in -Slip .. Slip
    BY <1>2, <1>3
  <2> QED
    BY <2>1, <2>2, SoundIs, SoundCopies
<1> HIDE DEF value
<1>8. ASSUME NEW p \in 1 .. Len(items)
      PROVE  items'[p] \in Entries /\ items'[p].key = items[p].key
  BY <1>4, <1>7, ItemIs
<1>9. items' \in [1 .. Len(items) -> Entries]
  BY <1>4, <1>8
<1>5. items' \in Seq(Entries) /\ Len(items') = Len(items)
  BY <1>3, <1>9, Mapped
<1>6. ItemsInv'
  BY <1>1, <1>5, <1>8 DEF JsonInv, ItemsInv
<1> QED
  BY <1>1, <1>6, Cleared

-----------------------------------------------------------------------------
(* By index *)

LEMMA ItemGrown ==
  ASSUME JsonInv, NEW v \in SoundValues, NEW i \in {-1, 0}, Grown(v, i), careful' => careful
  PROVE  /\ ItemsInv' /\ KeyInv' /\ UNCHANGED objectRef /\ Len(items) \in Nat
         /\ kind \in {"none", kind'}
         /\ \A k : FirstOf(k)' = FirstOf(k)
         /\ kind' # "array" => /\ UNCHANGED <<kind, items>>
                               /\ \A x : ItemAt(x)' = ItemAt(x)
         /\ kind' = "array" => Len(items') = Len(items) + 1
         /\ kind = "none" => Len(items) = 0
<1>1. Len(items) \in Nat /\ items \in Seq(Entries) /\ ItemsInv /\ (kind = "none" => Len(items) = 0)
  BY Lengths, Childless DEF JsonInv, ItemsInv
<1>2. kind' = Focus("array") /\ kind' \in {"none", "object", "array", "scalar"} /\ UNCHANGED objectRef
  BY <1>1, Focuses DEF Grown
<1>3. KeepKeys
  BY DEF Grown
<1>4. CASE kind' # "array"
  <2>1. kind' = kind /\ items' = items
    BY <1>1, <1>2, <1>4, Focuses DEF Grown
  <2>2. KeyInv'
    BY <1>3, <2>1, KeysKept DEF JsonInv
  <2> QED
    BY <1>1, <1>2, <1>4, <2>1, <2>2, SameList
<1>5. CASE kind' = "array"
  <2>1. kind \in {"none", "array"}
    BY <1>1, <1>2, <1>5, Focuses
  <2>2. items' = IF i = 0 THEN <<Item(NoKey, v)>> \o items ELSE Append(items, Item(NoKey, v))
    BY <1>5 DEF Grown
  <2>3. Item(NoKey, v) \in Entries /\ Item(NoKey, v).key = NoKey
    BY ItemIs
  <2>4. \A p \in 1 .. Len(items) : items[p].key = NoKey
    BY <1>1, <2>1 DEF ItemsInv, MemberKeys
  <2>5. /\ items' \in Seq(Entries) /\ Len(items') = Len(items) + 1
        /\ \A p \in 1 .. Len(items') : items'[p].key = NoKey
    <3>1. CASE i = 0
      <4>1. /\ items' \in Seq(Entries) /\ Len(items') = Len(items) + 1
            /\ items'[1] = Item(NoKey, v)
            /\ \A p \in 2 .. Len(items) + 1 : items'[p] = items[p - 1]
        BY <1>1, <2>2, <2>3, <3>1, AtHead
      <4>2. ASSUME NEW p \in 1 .. Len(items') PROVE items'[p].key = NoKey
        <5>1. p = 1 \/ (p \in 2 .. Len(items) + 1 /\ p - 1 \in 1 .. Len(items))
          BY <1>1, <4>1
        <5> QED
          BY <2>3, <2>4, <4>1, <5>1
      <4> QED
        BY <4>1, <4>2
    <3>2. CASE i # 0
      <4>1. /\ items' \in Seq(Entries) /\ Len(items') = Len(items) + 1
            /\ \A p \in 1 .. Len(items) : items'[p] = items[p]
            /\ items'[Len(items) + 1] = Item(NoKey, v)
        BY <1>1, <2>2, <2>3, <3>2, AtEnd
      <4>2. ASSUME NEW p \in 1 .. Len(items') PROVE items'[p].key = NoKey
        <5>1. p = Len(items) + 1 \/ p \in 1 .. Len(items)
          BY <1>1, <4>1
        <5> QED
          BY <2>3, <2>4, <4>1, <5>1
      <4> QED
        BY <4>1, <4>2
    <3> QED
      BY <3>1, <3>2
  <2>6. ItemsInv'
    BY <1>5, <2>5 DEF ItemsInv, MemberKeys
  <2>7. KeyInv'
    BY <1>3, <2>1, KeysKept DEF JsonInv
  <2>8. \A k : FirstOf(k)' = FirstOf(k)
    BY <1>5, <2>1, NoItem
  <2> QED
    BY <1>1, <1>2, <1>5, <2>1, <2>5, <2>6, <2>7, <2>8
<1> QED
  BY <1>4, <1>5

\* What an index finds in a list that is one longer.
LEMMA ItemAtLonger ==
  ASSUME Len(items) \in Nat, kind \in {"none", "array"}, kind = "none" => Len(items) = 0,
         kind' = "array", Len(items') = Len(items) + 1, NEW i \in Indices
  PROVE  ItemAt(i)' = IF i = Len(items) THEN i + 1 ELSE ItemAt(i)
<1>1. i \in Nat
  BY TopIs DEF Indices
<1>2. ItemAt(i)' = IF i >= Len(items) + 1 THEN 0 ELSE i + 1
  <2>1. ItemAt(i)' = IF i >= Len(items') THEN 0
                     ELSE IF i < 0 THEN (IF items' = <<>> THEN 0 ELSE 1) ELSE i + 1
    BY DEF ItemAt
  <2> QED
    BY <1>1, <2>1
<1>3. ItemAt(i) = IF i >= Len(items) THEN 0 ELSE i + 1
  BY <1>1 DEF ItemAt
<1> QED
  BY <1>1, <1>2, <1>3

LEMMA AppendScalarStep ==
  ASSUME JsonInv, NEW v \in SoundValues, AppendScalar(v)
  PROVE  JsonInv'
<1>1. /\ careful' \in BOOLEAN
      /\ careful' => careful /\ ~ (kind' = "array" /\ Len(items) \in DOMAIN arrayRef)
      /\ Grown(v, -1) /\ UNCHANGED arrayRef
  BY DEF AppendScalar, JsonInv
<1>2. /\ ItemsInv' /\ KeyInv' /\ UNCHANGED objectRef /\ Len(items) \in Nat
      /\ kind \in {"none", kind'}
      /\ \A k : FirstOf(k)' = FirstOf(k)
      /\ kind' # "array" => UNCHANGED <<kind, items>> /\ \A x : ItemAt(x)' = ItemAt(x)
      /\ kind' = "array" => Len(items') = Len(items) + 1
      /\ kind = "none" => Len(items) = 0
  BY <1>1, ItemGrown
<1>3. RefsInv'
  BY <1>1, <1>2, RefsKept DEF JsonInv
<1>4. WrappersCurrent'
  <2> SUFFICES ASSUME careful' PROVE KeyRefsRight' /\ IndexRefsRight'
    BY Wrappers
  <2>1. KeyRefsRight /\ IndexRefsRight
    BY <1>1, Wrappers DEF JsonInv
  <2>2. ASSUME NEW i \in DOMAIN arrayRef PROVE ItemAt(i)' = ItemAt(i)
    <3>1. CASE kind' # "array"
      BY <1>2, <3>1
    <3>2. CASE kind' = "array"
      <4>1. i \in Indices /\ i # Len(items)
        BY <1>1, <3>2 DEF JsonInv, RefsInv
      <4> QED
        BY <1>2, <3>2, <4>1, ItemAtLonger
    <3> QED
      BY <3>1, <3>2
  <2> QED
    BY <1>1, <1>2, <2>1, <2>2 DEF KeyRefsRight, IndexRefsRight
<1> QED
  BY <1>1, <1>2, <1>3, <1>4 DEF JsonInv

LEMMA AppendObjectStep ==
  ASSUME JsonInv, AppendObject
  PROVE  JsonInv'
<1>1. /\ careful' \in BOOLEAN /\ careful' = careful
      /\ Grown(Struct, -1) /\ Struct \in SoundValues
  BY SoundInputs, SoundIs DEF AppendObject, JsonInv
<1>2. /\ ItemsInv' /\ KeyInv' /\ UNCHANGED objectRef /\ Len(items) \in Nat
      /\ kind \in {"none", kind'}
      /\ \A k : FirstOf(k)' = FirstOf(k)
      /\ kind' # "array" => UNCHANGED <<kind, items>> /\ \A x : ItemAt(x)' = ItemAt(x)
      /\ kind' = "array" => Len(items') = Len(items) + 1
      /\ kind = "none" => Len(items) = 0
  BY <1>1, ItemGrown
<1>3. /\ DOMAIN arrayRef' \subseteq DOMAIN arrayRef
      /\ \A i \in DOMAIN arrayRef' : arrayRef'[i] = arrayRef[i]
      /\ kind' = "array" => Len(items) \notin DOMAIN arrayRef'
  <2>1. CASE kind' # "array"
    BY <2>1 DEF AppendObject
  <2>2. CASE kind' = "array"
    <3> DEFINE S == {i \in Indices : i >= Len(items)}
    <3>1. arrayRef' = Drop(arrayRef, S)
      BY <2>2 DEF AppendObject
    <3>2. Len(items) \in DOMAIN arrayRef => Len(items) \in S
      BY <1>2 DEF JsonInv, RefsInv
    <3> HIDE DEF S
    <3>3. DOMAIN arrayRef' = DOMAIN arrayRef \ S
      BY <3>1, Dropped
    <3>4. \A i \in DOMAIN arrayRef \ S : arrayRef'[i] = arrayRef[i]
      BY <3>1, Dropped
    <3> QED
      BY <3>2, <3>3, <3>4
  <2> QED
    BY <2>1, <2>2
<1>4. RefsInv'
  <2>1. DOMAIN objectRef' \subseteq DOMAIN objectRef /\ \A j \in DOMAIN objectRef' : objectRef'[j] = objectRef[j]
    BY <1>2
  <2>2. Len(items') \in {Len(items), Len(items) + 1}
    BY <1>2
  <2> QED
    BY <1>2, <1>3, <2>1, <2>2, RefsKept DEF JsonInv
<1>5. WrappersCurrent'
  <2> SUFFICES ASSUME careful' PROVE KeyRefsRight' /\ IndexRefsRight'
    BY Wrappers
  <2>1. KeyRefsRight /\ IndexRefsRight
    BY <1>1, Wrappers DEF JsonInv
  <2>2. ASSUME NEW i \in DOMAIN arrayRef' PROVE ItemAt(i)' = ItemAt(i)
    <3>1. CASE kind' # "array"
      BY <1>2, <3>1
    <3>2. CASE kind' = "array"
      <4>1. i \in Indices /\ i # Len(items)
        BY <1>3, <3>2 DEF JsonInv, RefsInv
      <4> QED
        BY <1>2, <3>2, <4>1, ItemAtLonger
    <3> QED
      BY <3>1, <3>2
  <2> QED
    BY <1>1, <1>2, <1>3, <2>1, <2>2 DEF KeyRefsRight, IndexRefsRight
<1> QED
  BY <1>1, <1>2, <1>4, <1>5 DEF JsonInv

\* Pushing at the head moves the wrappers with their items, away from their
\* indices.
LEMMA PushScalarStep ==
  ASSUME JsonInv, NEW v \in SoundValues, PushScalar(v)
  PROVE  JsonInv'
<1>1. /\ careful' \in BOOLEAN
      /\ careful' => careful /\ ~ (kind' = "array" /\ DOMAIN arrayRef # {})
      /\ Grown(v, 0)
      /\ arrayRef' = IF kind' = "array" THEN AfterHead(arrayRef) ELSE arrayRef
  BY DEF PushScalar, JsonInv
<1>2. /\ ItemsInv' /\ KeyInv' /\ UNCHANGED objectRef /\ Len(items) \in Nat
      /\ kind \in {"none", kind'}
      /\ \A k : FirstOf(k)' = FirstOf(k)
      /\ kind' # "array" => UNCHANGED <<kind, items>> /\ \A x : ItemAt(x)' = ItemAt(x)
      /\ kind' = "array" => Len(items') = Len(items) + 1
      /\ kind = "none" => Len(items) = 0
  BY <1>1, ItemGrown
<1>3. CASE kind' # "array"
  <2>1. UNCHANGED <<kind, items, objectRef, arrayRef>>
    BY <1>1, <1>2, <1>3
  <2>2. RefsInv'
    BY <2>1 DEF JsonInv, RefsInv
  <2>3. WrappersCurrent'
    BY <1>1, <1>2, <1>3, <2>1 DEF JsonInv, WrappersCurrent
  <2> QED
    BY <1>1, <1>2, <2>2, <2>3 DEF JsonInv
<1>4. CASE kind' = "array"
  <2>1. /\ DOMAIN arrayRef' = DOMAIN arrayRef
        /\ \A i \in DOMAIN arrayRef :
             arrayRef'[i] = IF arrayRef[i] >= 1 THEN arrayRef[i] + 1 ELSE arrayRef[i]
    BY <1>1, <1>4 DEF AfterHead
  <2>2. kind # "object" /\ kind' # "object"
    BY <1>2, <1>4
  <2>3. RefsInv'
    <3>1. \A i \in DOMAIN arrayRef : arrayRef'[i] \in Dangling .. Len(items) + 1
      BY <1>2, <2>1 DEF JsonInv, RefsInv, Dangling
    <3>2. \A k \in DOMAIN objectRef :
            objectRef[k] \in Dangling .. Len(items) + 1 /\ objectRef[k] <= 0
      BY <1>2, <2>2 DEF JsonInv, RefsInv, Dangling
    <3> QED
      BY <1>2, <1>4, <2>1, <3>1, <3>2 DEF JsonInv, RefsInv
  <2>4. WrappersCurrent'
    <3> SUFFICES ASSUME careful' PROVE KeyRefsRight' /\ IndexRefsRight'
      BY Wrappers
    <3>1. KeyRefsRight /\ DOMAIN arrayRef = {}
      BY <1>1, <1>4, Wrappers DEF JsonInv
    <3> QED
      BY <1>2, <2>1, <3>1 DEF KeyRefsRight, IndexRefsRight
  <2> QED
    BY <1>1, <1>2, <2>3, <2>4 DEF JsonInv
<1> QED
  BY <1>3, <1>4

LEMMA PushObjectStep ==
  ASSUME JsonInv, PushObject
  PROVE  JsonInv'
<1>1. /\ careful' \in BOOLEAN /\ careful' = careful
      /\ Grown(Struct, 0) /\ Struct \in SoundValues
      /\ arrayRef' = IF kind' = "array" THEN <<>> ELSE arrayRef
  BY SoundInputs, SoundIs DEF PushObject, JsonInv
<1>2. /\ ItemsInv' /\ KeyInv' /\ UNCHANGED objectRef /\ Len(items) \in Nat
      /\ kind \in {"none", kind'}
      /\ \A k : FirstOf(k)' = FirstOf(k)
      /\ kind' # "array" => UNCHANGED <<kind, items>> /\ \A x : ItemAt(x)' = ItemAt(x)
      /\ kind' = "array" => Len(items') = Len(items) + 1
      /\ kind = "none" => Len(items) = 0
  BY <1>1, ItemGrown
<1>3. CASE kind' # "array"
  <2>1. UNCHANGED <<kind, items, objectRef, arrayRef>>
    BY <1>1, <1>2, <1>3
  <2>2. RefsInv'
    BY <2>1 DEF JsonInv, RefsInv
  <2>3. WrappersCurrent'
    BY <1>1, <1>2, <1>3, <2>1 DEF JsonInv, WrappersCurrent
  <2> QED
    BY <1>1, <1>2, <2>2, <2>3 DEF JsonInv
<1>4. CASE kind' = "array"
  <2>1. DOMAIN arrayRef' = {}
    BY <1>1, <1>4
  <2>2. RefsInv'
    <3>1. \A i \in DOMAIN arrayRef' : arrayRef'[i] = arrayRef[i]
      BY <2>1
    <3> QED
      BY <1>2, <1>4, <2>1, <3>1, RefsKept DEF JsonInv
  <2>3. WrappersCurrent'
    BY <1>1, <1>2, <2>1 DEF JsonInv, WrappersCurrent
  <2> QED
    BY <1>1, <1>2, <2>2, <2>3 DEF JsonInv
<1> QED
  BY <1>3, <1>4

\* A replacement leaves every index the item that it had.
LEMMA ItemReplaced ==
  ASSUME JsonInv, NEW i \in Indices \cup {-1}, NEW v \in SoundValues, ReplaceItem(i, v)
  PROVE  /\ ItemsInv' /\ KeyInv' /\ UNCHANGED objectRef
         /\ kind = "array" /\ kind' = kind /\ Len(items') = Len(items) /\ Len(items) \in Nat
         /\ ItemAt(i) \in 1 .. Len(items)
         /\ \A k : FirstOf(k)' = FirstOf(k)
         /\ \A x \in Indices : ItemAt(x)' = ItemAt(x)
<1> DEFINE p == ItemAt(i)
<1>1. kind = "array" /\ p \in 1 .. Len(items) /\ items \in Seq(Entries) /\ Len(items) \in Nat
  BY IndexPlaceIs, Lengths DEF ReplaceItem, JsonInv, ItemsInv
<1>2. kind' = kind /\ items' = [items EXCEPT ![p] = Item(NoKey, v)] /\ KeepKeys /\ UNCHANGED objectRef
  BY DEF ReplaceItem
<1> HIDE DEF p
<1>3. Item(NoKey, v) \in Entries /\ Item(NoKey, v).key = NoKey
  BY ItemIs
<1>4. /\ items' \in Seq(Entries) /\ Len(items') = Len(items)
      /\ \A q \in 1 .. Len(items) : items'[q] = IF q = p THEN Item(NoKey, v) ELSE items[q]
  BY <1>1, <1>2, <1>3, AtPlace
<1>5. ItemsInv'
  BY <1>1, <1>2, <1>3, <1>4 DEF JsonInv, ItemsInv, MemberKeys
<1>6. KeyInv'
  BY <1>1, <1>2, KeysKept DEF JsonInv
<1>7. \A k : FirstOf(k)' = FirstOf(k)
  BY <1>1, <1>2, NoItem
<1>8. ASSUME NEW x \in Indices PROVE ItemAt(x)' = ItemAt(x)
  <2>1. ~ (x < 0)
    BY TopIs DEF Indices
  <2>2. ItemAt(x) = IF x >= Len(items) THEN 0 ELSE x + 1
    BY <1>1, <2>1 DEF ItemAt
  <2>3. ItemAt(x)' = IF x >= Len(items') THEN 0 ELSE x + 1
    BY <1>1, <1>2, <2>1 DEF ItemAt
  <2> QED
    BY <1>4, <2>2, <2>3
<1> QED
  BY <1>1, <1>2, <1>4, <1>5, <1>6, <1>7, <1>8 DEF p

LEMMA SetScalarStep ==
  ASSUME JsonInv, NEW i \in Indices \cup {-1}, NEW v \in SoundValues, SetScalar(i, v)
  PROVE  JsonInv'
<1>1. /\ careful' \in BOOLEAN /\ (careful' => careful /\ ItemAt(i) - 1 \notin DOMAIN arrayRef)
      /\ ReplaceItem(i, v) /\ arrayRef' = AfterReplace(arrayRef, ItemAt(i))
  BY DEF SetScalar, JsonInv
<1>2. /\ ItemsInv' /\ KeyInv' /\ UNCHANGED objectRef
      /\ kind = "array" /\ kind' = kind /\ Len(items') = Len(items) /\ Len(items) \in Nat
      /\ ItemAt(i) \in 1 .. Len(items)
      /\ \A k : FirstOf(k)' = FirstOf(k)
      /\ \A x \in Indices : ItemAt(x)' = ItemAt(x)
  BY <1>1, ItemReplaced
<1>3. /\ DOMAIN arrayRef' = DOMAIN arrayRef
      /\ \A x \in DOMAIN arrayRef :
           arrayRef'[x] = IF arrayRef[x] = ItemAt(i) THEN Dangling ELSE arrayRef[x]
  BY <1>1, Replaced
<1>4. RefsInv'
  <2>1. Dangling \in Dangling .. Len(items)
    BY <1>2 DEF Dangling
  <2>2. \A x \in DOMAIN arrayRef : arrayRef'[x] \in Dangling .. Len(items)
    BY <1>3, <2>1 DEF JsonInv, RefsInv
  <2> QED
    BY <1>2, <1>3, <2>2 DEF JsonInv, RefsInv
<1>5. WrappersCurrent'
  <2> SUFFICES ASSUME careful' PROVE KeyRefsRight' /\ IndexRefsRight'
    BY Wrappers
  <2>1. KeyRefsRight /\ IndexRefsRight
    BY <1>1, Wrappers DEF JsonInv
  <2>2. ASSUME NEW x \in DOMAIN arrayRef PROVE arrayRef[x] # ItemAt(i) /\ x \in Indices
    <3>1. x \in Indices /\ arrayRef[x] = ItemAt(x)
      BY <2>1 DEF IndexRefsRight, JsonInv, RefsInv
    <3>2. ItemAt(x) # 0 => ItemAt(x) = x + 1
      BY <3>1, IndexPlaceIs DEF JsonInv
    <3>3. ItemAt(x) = ItemAt(i) => x = ItemAt(i) - 1
      <4>1. x \in Int
        BY <3>1 DEF Indices
      <4> QED
        BY <1>2, <3>2, <4>1
    <3> QED
      BY <1>1, <3>1, <3>3
  <2> QED
    BY <1>2, <1>3, <2>1, <2>2 DEF KeyRefsRight, IndexRefsRight
<1> QED
  BY <1>1, <1>2, <1>4, <1>5 DEF JsonInv

LEMMA SetObjectStep ==
  ASSUME JsonInv, NEW i \in Indices \cup {-1}, SetObject(i)
  PROVE  JsonInv'
<1>1. /\ careful' \in BOOLEAN /\ (careful' => careful /\ ~ (i < 0 /\ 0 \in DOMAIN arrayRef))
      /\ ReplaceItem(i, Struct) /\ Struct \in SoundValues
      /\ arrayRef' = Drop(AfterReplace(arrayRef, ItemAt(i)), {i})
  BY SoundInputs, SoundIs DEF SetObject, JsonInv
<1>2. /\ ItemsInv' /\ KeyInv' /\ UNCHANGED objectRef
      /\ kind = "array" /\ kind' = kind /\ Len(items') = Len(items) /\ Len(items) \in Nat
      /\ ItemAt(i) \in 1 .. Len(items)
      /\ \A k : FirstOf(k)' = FirstOf(k)
      /\ \A x \in Indices : ItemAt(x)' = ItemAt(x)
  BY <1>1, ItemReplaced
<1>3. /\ DOMAIN arrayRef' = DOMAIN arrayRef \ {i}
      /\ \A x \in DOMAIN arrayRef \ {i} :
           arrayRef'[x] = IF arrayRef[x] = ItemAt(i) THEN Dangling ELSE arrayRef[x]
  <2> DEFINE ref == AfterReplace(arrayRef, ItemAt(i))
  <2>1. /\ DOMAIN ref = DOMAIN arrayRef
        /\ \A x \in DOMAIN arrayRef :
             ref[x] = IF arrayRef[x] = ItemAt(i) THEN Dangling ELSE arrayRef[x]
    BY Replaced
  <2>2. arrayRef' = Drop(ref, {i})
    BY <1>1
  <2> HIDE DEF ref
  <2>3. DOMAIN arrayRef' = DOMAIN ref \ {i} /\ \A x \in DOMAIN ref \ {i} : arrayRef'[x] = ref[x]
    BY <2>2, Dropped
  <2> QED
    BY <2>1, <2>3
<1>4. RefsInv'
  <2>1. Dangling \in Dangling .. Len(items)
    BY <1>2 DEF Dangling
  <2>2. \A x \in DOMAIN arrayRef \ {i} : arrayRef'[x] \in Dangling .. Len(items)
    BY <1>3, <2>1 DEF JsonInv, RefsInv
  <2> QED
    BY <1>2, <1>3, <2>2 DEF JsonInv, RefsInv
<1>5. WrappersCurrent'
  <2> SUFFICES ASSUME careful' PROVE KeyRefsRight' /\ IndexRefsRight'
    BY Wrappers
  <2>1. KeyRefsRight /\ IndexRefsRight
    BY <1>1, Wrappers DEF JsonInv
  <2>2. ASSUME NEW x \in DOMAIN arrayRef \ {i} PROVE arrayRef[x] # ItemAt(i) /\ x \in Indices
    <3>1. x \in Indices /\ arrayRef[x] = ItemAt(x) /\ x \in Int
      BY <2>1 DEF IndexRefsRight, JsonInv, RefsInv, Indices
    <3>2. ItemAt(x) # 0 => ItemAt(x) = x + 1
      BY <3>1, IndexPlaceIs DEF JsonInv
    <3>3. /\ ItemAt(i) # 0 /\ (i = -1 => ItemAt(i) = 1)
          /\ i \in Indices => i \in Int /\ ItemAt(i) = i + 1
      BY <1>2, IndexPlaceIs DEF JsonInv, Indices
    <3>4. ItemAt(x) = ItemAt(i) => x = 0 /\ i = -1
      BY <3>1, <3>2, <3>3
    <3> QED
      BY <1>1, <3>1, <3>4
  <2> QED
    BY <1>2, <1>3, <2>1, <2>2 DEF KeyRefsRight, IndexRefsRight
<1> QED
  BY <1>1, <1>2, <1>4, <1>5 DEF JsonInv

LEMMA DeleteIndexStep ==
  ASSUME JsonInv, NEW i \in Indices \cup {-1}, DeleteIndex(i)
  PROVE  JsonInv'
<1> DEFINE S == {x \in Indices : i >= 0 /\ x >= i}
           p == ItemAt(i)
<1>1. /\ careful' \in BOOLEAN /\ (careful' => careful /\ ~ (i < 0 /\ DOMAIN arrayRef # {}))
      /\ kind = "array" /\ kind' = kind /\ UNCHANGED objectRef /\ KeepKeys
  BY DEF DeleteIndex, JsonInv
<1>2. KeyInv'
  BY <1>1, KeysKept DEF JsonInv
<1>3. \A k : FirstOf(k)' = FirstOf(k)
  BY <1>1, NoItem
<1>4. \A k \in DOMAIN objectRef : objectRef[k] \in Dangling .. 0
  BY <1>1 DEF JsonInv, RefsInv, Dangling
<1>5. ASSUME NEW x \in DOMAIN arrayRef \ S, careful'
      PROVE  x \in Indices /\ x \in Nat /\ i \in Nat /\ x < i
  BY <1>1, <1>5, TopIs DEF JsonInv, RefsInv, Indices
<1>6. CASE p = 0
  <2>1. items' = items /\ arrayRef' = Drop(arrayRef, S)
    BY <1>6 DEF DeleteIndex
  <2> HIDE DEF S, p
  <2>2. /\ DOMAIN arrayRef' = DOMAIN arrayRef \ S
        /\ \A x \in DOMAIN arrayRef \ S : arrayRef'[x] = arrayRef[x]
    BY <2>1, Dropped
  <2>3. ItemsInv' /\ \A x : ItemAt(x)' = ItemAt(x)
    BY <1>1, <2>1, SameList DEF JsonInv
  <2>4. RefsInv'
    BY <1>1, <2>1, <2>2 DEF JsonInv, RefsInv
  <2>5. WrappersCurrent'
    BY <1>1, <1>3, <2>2, <2>3 DEF JsonInv, WrappersCurrent
  <2> QED
    BY <1>1, <1>2, <2>3, <2>4, <2>5 DEF JsonInv
<1>7. CASE p # 0
  <2>1. /\ p \in 1 .. Len(items)
        /\ i \in Nat => p = i + 1
    <3>1. i \in Nat => i \in Indices
      BY TopIs
    <3> QED
      BY <1>7, <3>1, IndexPlaceIs DEF JsonInv
  <2>2. items' = Without(p) /\ arrayRef' = Drop(AfterRemove(arrayRef, p), S)
    BY <1>7 DEF DeleteIndex
  <2> HIDE DEF S, p
  <2>3. ItemsInv' /\ Len(items) \in Nat \ {0} /\ Len(items') = Len(items) - 1
    BY <1>1, <2>1, <2>2, ItemRemoved DEF JsonInv
  <2>4. /\ DOMAIN arrayRef' = DOMAIN arrayRef \ S
        /\ \A x \in DOMAIN arrayRef \ S : arrayRef'[x] = Moved(arrayRef[x], p)
    <3>2. DOMAIN Drop(AfterRemove(arrayRef, p), S) = DOMAIN arrayRef \ S
      BY Removed, Zenon
    <3>3. ASSUME NEW x \in DOMAIN arrayRef \ S
          PROVE  Drop(AfterRemove(arrayRef, p), S)[x] = Moved(arrayRef[x], p)
      BY <3>3, Removed
    <3> QED
      BY <2>2, <3>2, <3>3
  <2>5. \A x \in Dangling .. Len(items) : Moved(x, p) \in Dangling .. Len(items) - 1
    BY <2>1, <2>3, Moves
  <2>6. RefsInv'
    <3>1. \A x \in DOMAIN arrayRef' : arrayRef'[x] \in Dangling .. Len(items')
      BY <2>3, <2>4, <2>5 DEF JsonInv, RefsInv
    <3>2. \A k \in DOMAIN objectRef : objectRef[k] \in Dangling .. Len(items') /\ objectRef[k] <= 0
      BY <1>4, <2>3 DEF Dangling
    <3> QED
      BY <1>1, <2>4, <3>1, <3>2 DEF JsonInv, RefsInv
  <2>7. WrappersCurrent'
    <3> SUFFICES ASSUME careful' PROVE KeyRefsRight' /\ IndexRefsRight'
      BY Wrappers
    <3>1. KeyRefsRight /\ IndexRefsRight
      BY <1>1, Wrappers DEF JsonInv
    <3>2. ASSUME NEW x \in DOMAIN arrayRef \ S PROVE arrayRef'[x] = ItemAt(x)'
      <4>1. x \in Nat /\ i \in Nat /\ x < i /\ p = i + 1
        BY <1>5, <2>1
      <4>2. x < Len(items) /\ x < Len(items') /\ ~ (x < 0)
        BY <2>1, <2>3, <4>1
      <4>3. ItemAt(x) = x + 1 /\ ItemAt(x)' = x + 1
        BY <1>1, <2>3, <4>1, <4>2 DEF ItemAt
      <4>4. arrayRef[x] = x + 1 /\ arrayRef'[x] = Moved(arrayRef[x], p)
        BY <2>4, <3>1, <4>3 DEF IndexRefsRight
      <4> QED
        BY <4>1, <4>3, <4>4 DEF Moved
    <3> QED
      BY <1>1, <1>3, <2>4, <3>1, <3>2 DEF KeyRefsRight, IndexRefsRight
  <2> QED
    BY <1>1, <1>2, <2>3, <2>6, <2>7 DEF JsonInv
<1> QED
  BY <1>6, <1>7

-----------------------------------------------------------------------------
(* The theorems *)

LEMMA InputValues ==
  /\ Texts \subseteq SoundValues /\ Bools \subseteq SoundValues /\ Reals \subseteq SoundValues
  /\ IntegerValues \subseteq SoundValues /\ HeadIntegers \subseteq SoundValues
  /\ Plain("object") \in SoundValues /\ Plain("array") \in SoundValues
BY SoundInputs, SoundIs

LEMMA InitInv == Init => JsonInv
<1> SUFFICES ASSUME Init PROVE JsonInv
  OBVIOUS
<1>1. /\ kind = "none" /\ items = <<>> /\ objectRef = <<>> /\ arrayRef = <<>>
      /\ keyList = <<>> /\ at = 1 /\ careful = TRUE
  BY DEF Init
<1>2. <<>> \in Seq(Entries) /\ <<>> \in Seq(Keys \cup {NoKey}) /\ Len(<<>>) = 0
  BY EmptySeq
<1>3. ItemsInv
  BY <1>1, <1>2 DEF ItemsInv
<1>4. DOMAIN objectRef = {} /\ DOMAIN arrayRef = {}
  BY <1>1
<1>5. RefsInv /\ WrappersCurrent
  BY <1>4 DEF RefsInv, WrappersCurrent
<1>6. KeyInv
  BY <1>1, <1>2 DEF KeyInv, KeysCurrent
<1> QED
  BY <1>1, <1>3, <1>5, <1>6 DEF JsonInv

LEMMA KeyStep ==
  ASSUME JsonInv, NEW k \in Keys, ByKey(k)
  PROVE  JsonInv'
<1>1. ASSUME NEW v \in SoundValues, AddScalar(k, v) \/ ReplaceScalar(k, v) PROVE JsonInv'
  BY <1>1, AddScalarStep, ReplaceScalarStep
<1>2. CASE AddText(k) \/ AddInteger(k) \/ AddBool(k) \/ AddReal(k)
  BY <1>1, <1>2, InputValues DEF AddText, AddInteger, AddBool, AddReal
<1>3. CASE AddEmptySubObject(k) \/ AddEmptySubArray(k)
  BY <1>1, <1>3, InputValues DEF AddEmptySubObject, AddEmptySubArray
<1>4. CASE ReplaceText(k) \/ ReplaceInteger(k) \/ ReplaceBool(k) \/ ReplaceReal(k)
  BY <1>1, <1>4, InputValues DEF ReplaceText, ReplaceInteger, ReplaceBool, ReplaceReal
<1> QED
  BY <1>2, <1>3, <1>4, AddObjectStep, ReplaceObjectStep, DeleteKeyStep, RefKeyStep, AssignRefStep
  DEF ByKey

LEMMA EndStep ==
  ASSUME JsonInv, AtEnds
  PROVE  JsonInv'
<1>1. ASSUME NEW v \in SoundValues, AppendScalar(v) \/ PushScalar(v) PROVE JsonInv'
  BY <1>1, AppendScalarStep, PushScalarStep
<1>2. CASE AppendText \/ AppendInteger \/ AppendBool \/ AppendReal
  BY <1>1, <1>2, InputValues DEF AppendText, AppendInteger, AppendBool, AppendReal
<1>3. CASE PushText \/ PushInteger \/ PushBool \/ PushReal
  BY <1>1, <1>3, InputValues DEF PushText, PushInteger, PushBool, PushReal
<1> QED
  BY <1>2, <1>3, AppendObjectStep, PushObjectStep DEF AtEnds

LEMMA IndexStep ==
  ASSUME JsonInv, NEW i \in Indices \cup {-1}, ByIndex(i)
  PROVE  JsonInv'
<1>1. ASSUME NEW v \in SoundValues, SetScalar(i, v) PROVE JsonInv'
  BY <1>1, SetScalarStep
<1>2. CASE SetText(i) \/ SetInteger(i) \/ SetBool(i) \/ SetReal(i)
  BY <1>1, <1>2, InputValues DEF SetText, SetInteger, SetBool, SetReal
<1> QED
  BY <1>2, SetObjectStep, DeleteIndexStep DEF ByIndex

LEMMA JsonStep == JsonInv /\ [Next]_vars => JsonInv'
<1> SUFFICES ASSUME JsonInv, [Next]_vars PROVE JsonInv'
  OBVIOUS
<1>1. CASE UNCHANGED vars
  <2>1. UNCHANGED <<kind, items, objectRef, arrayRef, keyList, at, careful>>
    BY <1>1 DEF vars
  <2>2. ItemsInv' /\ \A k : FirstOf(k)' = FirstOf(k) /\ \A i : ItemAt(i)' = ItemAt(i)
    BY <2>1, SameList DEF JsonInv
  <2>3. RefsInv' /\ KeyInv'
    BY <2>1 DEF JsonInv, RefsInv, KeyInv, KeysCurrent
  <2>4. WrappersCurrent'
    BY <2>1, <2>2 DEF JsonInv, WrappersCurrent
  <2>5. careful' \in BOOLEAN
    BY <2>1 DEF JsonInv
  <2> QED
    BY <2>2, <2>3, <2>4, <2>5 DEF JsonInv
<1>2. CASE Next
  BY <1>2, KeyStep, EndStep, IndexStep, RefIndexStep, AddNothingStep, GetKeyStep, ParseStep, CopyStep
  DEF Next
<1> QED
  BY <1>1, <1>2

LEMMA Invariance == Spec => []JsonInv
BY InitInv, JsonStep, PTL DEF Spec

\* Every variable keeps its type; no wrapper points behind the list, and no
\* stored integer needs more than 64 bits.
THEOREM TypeCorrect == Spec => []TypeOK
<1>1. JsonInv => TypeOK
  <2> SUFFICES ASSUME JsonInv PROVE TypeOK
    OBVIOUS
  <2>1. DOMAIN items = 1 .. Len(items)
    BY Lengths DEF JsonInv
  <2>2. ASSUME NEW p \in DOMAIN items
        PROVE  /\ items[p].key \in MemberKeys(kind)
               /\ items[p].val.kind = "int" => items[p].val.num \in 0 .. Greatest("uint64")
    <3>1. Sound(items[p].val)
      BY <2>1, Fields, SoundIs DEF JsonInv
    <3>2. items[p].val.kind = "int" => items[p].val.num \in 0 .. 2 * Top64 - 1
      <4>1. items[p].val.kind = "int" =>
              items[p].val.given \in Int /\ items[p].val.num = Bits(items[p].val.given)
        BY <3>1 DEF Sound
      <4> QED
        BY <4>1, BitsAre
    <3>3. Greatest("uint64") = 2 * Top64 - 1
      BY DEF Greatest
    <3> QED
      BY <2>1, <3>2, <3>3 DEF JsonInv, ItemsInv
  <2> QED
    BY <2>2 DEF JsonInv, ItemsInv, RefsInv, KeyInv, TypeOK
<1> QED
  BY <1>1, Invariance, PTL

\* As long as the caller keeps to what the wrappers are told about, obj["k"] and
\* obj[i] are the items that the document has there now, whatever was added,
\* replaced, deleted, looked up or copied in between.
THEOREM WrappersAreCurrent == Spec => []WrappersCurrent
<1>1. JsonInv => WrappersCurrent
  BY DEF JsonInv
<1> QED
  BY <1>1, Invariance, PTL

\* The keys that GetKey goes through are those of the members.
THEOREM KeysAreCurrent == Spec => []KeysCurrent
<1>1. JsonInv => KeysCurrent
  BY DEF JsonInv, KeyInv
<1> QED
  BY <1>1, Invariance, PTL

\* By key an integer below 2^53 is the double of the same number.
LEMMA DoubleIs ==
  ASSUME NEW n \in 0 .. DoubleDigits - 1
  PROVE  ToDouble(n) = {n * Unit}
<1>1. DoubleDigits \in Nat \ {0} /\ n \in Int
  BY JsonAssumption DEF JsonAssumption
<1>2. DoubleDigits * 0 + n = n
  BY <1>1
<1>3. n \div DoubleDigits = 0
  BY <1>1, <1>2, Quotient
<1>4. n - 0 .. n + 0 = {n}
  BY <1>1
<1> QED
  BY <1>3, <1>4 DEF ToDouble

\* Whatever the width of the types, the precision of the doubles and the number
\* of copies: an integer that a long double has is read back and printed as it
\* was given, and a double is off by no more than one rounding to six decimals.
THEOREM NumbersAreKept == Spec => []NumbersKept
<1>1. JsonInv => NumbersKept
  <2> SUFFICES ASSUME JsonInv, NEW p \in DOMAIN items, NEW v, v = items[p].val
               PROVE  /\ v.kind = "int" =>
                           /\ \A w \in Widths :
                                v.given \in Least(w) .. Greatest(w) =>
                                  ReadsInteger(v, w) = v.given
                           /\ kind = "object" /\ v.given \in 0 .. DoubleDigits - 1 =>
                                ReadsDouble(v) = {v.given * Unit}
                      /\ v.kind = "whole" => ReadsDouble(v) = {v.given * Unit}
                      /\ v.kind = "fraction" =>
                           Near(v.num, v.given) /\ Printed(v) = Nearest(v.given)
                      /\ v.kind \in {"int", "whole"} =>
                           \/ v.sign = -1 /\ v.given > Greatest("int64")
                           \/ Printed(v) = v.given
                      /\ Near(v.drift, 0)
                      /\ v.kind = "lost" => ~ Exact(v.given)
    BY DEF NumbersKept
  <2>1. Sound(v)
    <3>1. p \in 1 .. Len(items)
      BY Lengths DEF JsonInv
    <3> QED
      BY <3>1, Fields, SoundIs DEF JsonInv
  <2>2. CASE v.kind = "int"
    <3>1. \A w \in Widths : v.given \in Least(w) .. Greatest(w) => ReadsInteger(v, w) = v.given
      BY <2>1, <2>2, SoundReads
    <3>2. kind = "object" /\ v.given \in 0 .. DoubleDigits - 1 => ReadsDouble(v) = {v.given * Unit}
      <4> HAVE kind = "object" /\ v.given \in 0 .. DoubleDigits - 1
      <4>1. v.num = v.given
        BY <2>1, <2>2, Turn
      <4>2. ReadsDouble(v) = ToDouble(v.num)
        BY <2>2 DEF ReadsDouble
      <4> QED
        BY <4>1, <4>2, DoubleIs
    <3>3. ~ (v.sign = -1 /\ v.given > Top64 - 1) => Printed(v) = v.given
      BY <2>1, <2>2, SoundPrints
    <3>4. Greatest("int64") = Top64 - 1
      BY DEF Greatest
    <3> QED
      BY <2>1, <2>2, <3>1, <3>2, <3>3, <3>4 DEF Sound
  <2>3. CASE v.kind = "whole"
    BY <2>1, <2>3 DEF Sound, ReadsDouble, Printed
  <2>4. CASE v.kind \notin {"int", "whole"}
    BY <2>1, <2>4 DEF Sound, Printed
  <2> QED
    BY <2>2, <2>3, <2>4
<1> QED
  BY <1>1, Invariance, PTL

=============================================================================
