---------------------------- MODULE ToolNamesProofs ----------------------------
(***************************************************************************)
(* The names under which tools are offered are acceptable and distinct,    *)
(* and lead back to the tools, for any tools in any number and order.      *)
(*                                                                         *)
(* That they are distinct rests on safe_name finding a name that is free:  *)
(* decimals differ when numbers do, so do numbered names even when the     *)
(* name is cut to make room, and among more numbers than names are used    *)
(* one is free.                                                            *)
(***************************************************************************)
EXTENDS ToolNames, SequenceTheorems, FiniteSetTheorems, WellFoundedInduction, TLAPS

\* The order of the naturals, as a relation, is well founded.
LEMMA SmallerIsWellFounded == IsWellFoundedOn({ p \in Nat \X Nat : p[1] < p[2] }, Nat)
<1>1. IsWellFoundedOn(OpToRel(<, Nat), Nat)
  BY NatLessThanWellFounded
<1>2. { p \in Nat \X Nat : p[1] < p[2] } = OpToRel(<, Nat)
  BY DEF OpToRel
<1> QED BY <1>1, <1>2

\* A set of numbers that is not empty has a least one.
LEMMA Least ==
    ASSUME NEW T \in SUBSET Nat, T # {}
    PROVE  \E x \in T : \A y \in T : x <= y
<1> DEFINE R == { p \in Nat \X Nat : p[1] < p[2] }
<1>1. PICK x \in T : \A y \in T : ~(<< y, x >> \in R)
  <2>1. IsWellFoundedOn(R, Nat)
    BY SmallerIsWellFounded
  <2> HIDE DEF R
  <2> QED BY <2>1, WFMin
<1>2. \A y \in T : ~(y < x)
  BY <1>1
<1> QED BY <1>2

\* A set that holds 0, and with each number the next, holds all numbers.
LEMMA AllNumbers ==
    ASSUME NEW Q \in SUBSET Nat, 0 \in Q, \A n \in Q : n + 1 \in Q
    PROVE  Q = Nat
<1>1. SUFFICES ASSUME Nat \ Q # {} PROVE FALSE
  OBVIOUS
<1>2. PICK x \in Nat \ Q : \A y \in Nat \ Q : x <= y
  BY <1>1, Least
<1>3. CASE x = 0
  BY <1>2, <1>3
<1>4. CASE x # 0
  <2>1. x - 1 \in Nat /\ ~(x <= x - 1) /\ (x - 1) + 1 = x
    BY <1>4
  <2>2. x - 1 \in Q
    BY <1>2, <2>1
  <2> QED BY <1>2, <2>1, <2>2
<1> QED BY <1>3, <1>4

------------------------------------------------------------------------------
(***************************************************************************)
(* Decimals.                                                               *)
(***************************************************************************)
Digit == { Digits[i] : i \in 1 .. 10 }

\* Digits are different, are no underscore, and may be in a name.
LEMMA DigitsDiffer ==
    /\ \A i, j \in 0 .. 9 : Digits[i + 1] = Digits[j + 1] => i = j
    /\ \A i \in 0 .. 9 : Digits[i + 1] \in Digit
    /\ Underscore \notin Digit /\ Digit \subseteq Safe /\ Underscore \in Safe
<1>1. DOMAIN Digits = 1 .. 10
  BY DEF Digits
<1>2. Digit = Range(Digits)
  BY <1>1 DEF Digit, Range
<1>3. Digit \subseteq Safe /\ Underscore \in Safe
  BY <1>2, NamesAssumption
<1>4. ASSUME NEW i \in 0 .. 9, NEW j \in 0 .. 9, i < j PROVE Digits[i + 1] # Digits[j + 1]
  BY <1>4 DEF Digits
<1>5. \A i, j \in 0 .. 9 : Digits[i + 1] = Digits[j + 1] => i = j
  BY <1>4
<1>6. Underscore \notin Digit
  <2>1. \A i \in 1 .. 10 : Digits[i] # Underscore
    <3>1. /\ Digits[1] # Underscore /\ Digits[2] # Underscore /\ Digits[3] # Underscore
          /\ Digits[4] # Underscore /\ Digits[5] # Underscore /\ Digits[6] # Underscore
          /\ Digits[7] # Underscore /\ Digits[8] # Underscore /\ Digits[9] # Underscore
          /\ Digits[10] # Underscore
      BY Zenon DEF Digits, Underscore
    <3>2. \A i \in 1 .. 10 : \/ i = 1 \/ i = 2 \/ i = 3 \/ i = 4 \/ i = 5
                            \/ i = 6 \/ i = 7 \/ i = 8 \/ i = 9 \/ i = 10
      OBVIOUS
    <3> QED BY <3>1, <3>2
  <2> QED BY <2>1 DEF Digit
<1>7. \A i \in 0 .. 9 : Digits[i + 1] \in Digit
  BY DEF Digit
<1> QED BY <1>3, <1>5, <1>6, <1>7

\* A number and its last digit.
LEMMA LastDigit ==
    ASSUME NEW n \in Nat, ~(n < 10)
    PROVE  /\ n \div 10 \in Nat /\ n \div 10 < n /\ n % 10 \in 0 .. 9
           /\ n = 10 * (n \div 10) + (n % 10)
  OBVIOUS

\* What Decimal[n] is, if f is Decimal.
Written(f, n) ==
    IF n < 10 THEN << Digits[n + 1] >> ELSE Append(f[n \div 10], Digits[(n % 10) + 1])

Writes(f, S) == f = [ n \in S |-> Written(f, n) ]

\* Decimal is a function that writes the numbers, if there is one.
LEMMA DecimalChosen == (\E f : Writes(f, Nat)) => Writes(Decimal, Nat)
<1>1. Decimal = CHOOSE f : Writes(f, Nat)
  BY Zenon DEF Decimal, Writes, Written
<1> QED BY <1>1, Zenon

\* For small numbers there is one, whatever small means.
LEMMA WritesSmall ==
    ASSUME NEW k \in Nat
    PROVE  \E f : Writes(f, 0 .. k)
<1> DEFINE Q == { m \in Nat : \E f : Writes(f, 0 .. m) }
<1>1. 0 \in Q
  <2> DEFINE f == [ n \in 0 .. 0 |-> << Digits[n + 1] >> ]
  <2>1. Writes(f, 0 .. 0)
    BY DEF Writes, Written
  <2> HIDE DEF f
  <2> QED BY <2>1
<1>2. ASSUME NEW m \in Q PROVE m + 1 \in Q
  <2>1. PICK f : Writes(f, 0 .. m)
    OBVIOUS
  <2> DEFINE g == [ n \in 0 .. m + 1 |-> Written(f, n) ]
  <2>2. ASSUME NEW n \in 0 .. m PROVE g[n] = f[n]
    BY <2>1 DEF Writes
  <2>3. ASSUME NEW n \in 0 .. m + 1 PROVE Written(f, n) = Written(g, n)
    <3>1. CASE n < 10
      BY <3>1 DEF Written
    <3>2. CASE ~(n < 10)
      <4>1. n \div 10 \in Nat /\ n \div 10 < n
        BY <3>2, LastDigit
      <4>2. n \div 10 \in 0 .. m
        BY <4>1
      <4>3. g[n \div 10] = f[n \div 10]
        BY <2>2, <4>2
      <4> HIDE DEF g
      <4> QED BY <3>2, <4>3 DEF Written
    <3> QED BY <3>1, <3>2
  <2>4. Writes(g, 0 .. m + 1)
    BY <2>3 DEF Writes
  <2> HIDE DEF g
  <2> QED BY <2>4
<1>3. Q = Nat
  <2>1. Q \in SUBSET Nat
    OBVIOUS
  <2> HIDE DEF Q
  <2> QED BY <1>1, <1>2, <2>1, AllNumbers
<1> QED BY <1>3

\* Two of them agree on the numbers that are small for both.
LEMMA WritesAgree ==
    ASSUME NEW k \in Nat, NEW m \in Nat, NEW f, NEW g, Writes(f, 0 .. k), Writes(g, 0 .. m),
           NEW n \in 0 .. k, n \in 0 .. m
    PROVE  f[n] = g[n]
<1> DEFINE T == { i \in 0 .. k : i \in 0 .. m /\ f[i] # g[i] }
<1>1. SUFFICES ASSUME T # {} PROVE FALSE
  OBVIOUS
<1>2. PICK x \in T : \A y \in T : x <= y
  <2>1. T \in SUBSET Nat
    OBVIOUS
  <2> HIDE DEF T
  <2> QED BY <1>1, <2>1, Least
<1>3. f[x] = Written(f, x) /\ g[x] = Written(g, x)
  BY DEF Writes
<1>4. CASE x < 10
  BY <1>3, <1>4 DEF Written
<1>5. CASE ~(x < 10)
  <2>1. x \div 10 \in Nat /\ x \div 10 < x
    BY <1>5, LastDigit
  <2>2. x \div 10 \in 0 .. k /\ x \div 10 \in 0 .. m
    BY <2>1
  <2>3. f[x \div 10] = g[x \div 10]
    BY <1>2, <2>1, <2>2
  <2> QED BY <1>3, <1>5, <2>3 DEF Written
<1> QED BY <1>4, <1>5

\* So Decimal satisfies its equation.
LEMMA DecimalWritten ==
    ASSUME NEW n \in Nat
    PROVE  Decimal[n] = Written(Decimal, n)
<1> DEFINE Of(k) == CHOOSE f : Writes(f, 0 .. k)
           D == [ k \in Nat |-> Of(k)[k] ]
<1>1. \A k \in Nat : Writes(Of(k), 0 .. k)
  BY WritesSmall
<1> HIDE DEF Of
<1>2. ASSUME NEW k \in Nat PROVE D[k] = Written(D, k)
  <2>1. D[k] = Written(Of(k), k)
    BY <1>1 DEF Writes
  <2>2. CASE k < 10
    BY <2>1, <2>2 DEF Written
  <2>3. CASE ~(k < 10)
    <3> DEFINE j == k \div 10
    <3>1. j \in Nat /\ j < k
      BY <2>3, LastDigit
    <3> HIDE DEF j
    <3>2. j \in 0 .. j /\ j \in 0 .. k
      BY <3>1
    <3>3. Of(j)[j] = Of(k)[j]
      BY <1>1, <3>1, <3>2, WritesAgree
    <3>4. D[j] = Of(k)[j]
      BY <3>1, <3>3
    <3> HIDE DEF D
    <3> QED BY <2>1, <2>3, <3>4 DEF Written, j
  <2> QED BY <2>2, <2>3
<1>3. Writes(D, Nat)
  <2>1. D = [ k \in Nat |-> D[k] ]
    OBVIOUS
  <2> HIDE DEF D
  <2>2. [ k \in Nat |-> D[k] ] = [ k \in Nat |-> Written(D, k) ]
    BY <1>2
  <2> QED BY <2>1, <2>2 DEF Writes
<1> HIDE DEF D
<1>4. Writes(Decimal, Nat)
  BY <1>3, DecimalChosen
<1> QED BY <1>4 DEF Writes

\* A decimal is made of digits.
LEMMA DecimalDigits ==
    ASSUME NEW n \in Nat
    PROVE  Decimal[n] \in Seq(Digit) /\ Len(Decimal[n]) >= 1
<1> DEFINE T == { i \in Nat : ~(Decimal[i] \in Seq(Digit) /\ Len(Decimal[i]) >= 1) }
<1>1. SUFFICES ASSUME T # {} PROVE FALSE
  OBVIOUS
<1>2. PICK x \in T : \A y \in T : x <= y
  <2>1. T \in SUBSET Nat
    OBVIOUS
  <2> HIDE DEF T
  <2> QED BY <1>1, <2>1, Least
<1>3. Decimal[x] = Written(Decimal, x)
  BY DecimalWritten
<1>4. CASE x < 10
  <2>1. Digits[x + 1] \in Digit
    <3>1. x \in 0 .. 9
      BY <1>4
    <3> QED BY <3>1, DigitsDiffer
  <2>2. Decimal[x] = << Digits[x + 1] >>
    BY <1>3, <1>4 DEF Written
  <2>3. Decimal[x] \in Seq(Digit) /\ Len(Decimal[x]) >= 1
    BY <2>1, <2>2
  <2> QED BY <2>3
<1>5. CASE ~(x < 10)
  <2>1. x \div 10 \in Nat /\ x \div 10 < x /\ x % 10 \in 0 .. 9
    BY <1>5, LastDigit
  <2>2. Decimal[x \div 10] \in Seq(Digit) /\ Len(Decimal[x \div 10]) >= 1
    BY <1>2, <2>1
  <2>3. Digits[(x % 10) + 1] \in Digit
    BY <2>1, DigitsDiffer
  <2>4. Decimal[x] = Append(Decimal[x \div 10], Digits[(x % 10) + 1])
    BY <1>3, <1>5 DEF Written
  <2>5. Decimal[x] \in Seq(Digit) /\ Len(Decimal[x]) >= 1
    BY <2>2, <2>3, <2>4, AppendProperties
  <2> QED BY <2>5
<1> QED BY <1>4, <1>5

(***************************************************************************)
(* Different numbers have different decimals.                              *)
(***************************************************************************)
LEMMA DecimalsDiffer ==
    ASSUME NEW n \in Nat, NEW m \in Nat, Decimal[n] = Decimal[m]
    PROVE  n = m
<1> DEFINE T == { i \in Nat : \E j \in Nat : i # j /\ Decimal[i] = Decimal[j] }
<1>1. SUFFICES ASSUME T # {} PROVE FALSE
  OBVIOUS
<1>2. PICK x \in T : \A y \in T : x <= y
  <2>1. T \in SUBSET Nat
    OBVIOUS
  <2> HIDE DEF T
  <2> QED BY <1>1, <2>1, Least
<1>3. PICK y \in Nat : x # y /\ Decimal[x] = Decimal[y]
  OBVIOUS
<1>4. \A i \in Nat : /\ i < 10 => Decimal[i] = << Digits[i + 1] >>
                     /\ ~(i < 10) => Decimal[i] = Append(Decimal[i \div 10], Digits[(i % 10) + 1])
  BY DecimalWritten DEF Written
<1>5. \A i \in Nat : ~(i < 10) => Len(Decimal[i]) >= 2
  <2>1. SUFFICES ASSUME NEW i \in Nat, ~(i < 10) PROVE Len(Decimal[i]) >= 2
    OBVIOUS
  <2>2. i \div 10 \in Nat /\ i % 10 \in 0 .. 9
    BY <2>1, LastDigit
  <2>3. Decimal[i \div 10] \in Seq(Digit) /\ Len(Decimal[i \div 10]) >= 1 /\ Digits[(i % 10) + 1] \in Digit
    BY <2>2, DecimalDigits, DigitsDiffer
  <2>4. Len(Append(Decimal[i \div 10], Digits[(i % 10) + 1])) >= 2
    BY <2>3, AppendProperties
  <2> QED BY <1>4, <2>1, <2>4
<1>6. \A i \in Nat : i < 10 => Len(Decimal[i]) = 1
  <2>1. SUFFICES ASSUME NEW i \in Nat, i < 10 PROVE Len(Decimal[i]) = 1
    OBVIOUS
  <2>2. Decimal[i] = << Digits[i + 1] >>
    BY <1>4, <2>1
  <2> QED BY <2>2
<1>7. x \in Nat /\ (x < 10 <=> y < 10)
  <2>1. x \in Nat /\ Len(Decimal[x]) = Len(Decimal[y])
    BY <1>3
  <2> HIDE DEF T
  <2>2. /\ x < 10 => Len(Decimal[x]) = 1
        /\ ~(x < 10) => Len(Decimal[x]) >= 2
        /\ y < 10 => Len(Decimal[y]) = 1
        /\ ~(y < 10) => Len(Decimal[y]) >= 2
    BY <1>5, <1>6, <2>1
  <2>3. ~(1 >= 2)
    OBVIOUS
  <2> QED BY <2>1, <2>2, <2>3
<1>8. CASE x < 10
  <2>1. << Digits[x + 1] >> = << Digits[y + 1] >> /\ x \in 0 .. 9 /\ y \in 0 .. 9
    BY <1>3, <1>4, <1>7, <1>8
  <2>2. Digits[x + 1] = Digits[y + 1]
    BY <2>1
  <2> QED BY <1>3, <2>1, <2>2, DigitsDiffer
<1>9. CASE ~(x < 10)
  <2> DEFINE u == x \div 10
             v == y \div 10
             p == x % 10
             q == y % 10
  <2>1. /\ u \in Nat /\ u < x /\ p \in 0 .. 9 /\ x = 10 * u + p
        /\ v \in Nat /\ q \in 0 .. 9 /\ y = 10 * v + q
    BY <1>7, <1>9, LastDigit
  <2>2. Append(Decimal[u], Digits[p + 1]) = Append(Decimal[v], Digits[q + 1])
    BY <1>3, <1>4, <1>7, <1>9
  <2> HIDE DEF u, v, p, q
  <2>3. /\ Decimal[u] \in Seq(Digit) /\ Decimal[v] \in Seq(Digit)
        /\ Digits[p + 1] \in Digit /\ Digits[q + 1] \in Digit
    BY <2>1, DecimalDigits, DigitsDiffer
  <2>4. Decimal[u] = Decimal[v] /\ Digits[p + 1] = Digits[q + 1]
    <3>1. \A s, t \in Seq(Digit) : \A d, e \in Digit : Append(s, d) = Append(t, e) => s = t /\ d = e
      BY AppendInjective
    <3> DEFINE c == Decimal[u]
               d == Decimal[v]
               e == Digits[p + 1]
               f == Digits[q + 1]
    <3>2. Append(c, e) = Append(d, f) /\ c \in Seq(Digit) /\ d \in Seq(Digit) /\ e \in Digit /\ f \in Digit
      BY <2>2, <2>3
    <3> HIDE DEF c, d, e, f
    <3>3. c = d /\ e = f
      BY <3>1, <3>2
    <3> QED BY <3>3 DEF c, d, e, f
  <2>5. p = q
    BY <2>1, <2>4, DigitsDiffer
  <2>6. u # v
    BY <1>3, <2>1, <2>5
  <2>7. u \in T
    BY <2>1, <2>4, <2>6
  <2> QED BY <1>2, <1>7, <2>1, <2>7
<1> QED BY <1>8, <1>9

------------------------------------------------------------------------------
(***************************************************************************)
(* Names.                                                                  *)
(***************************************************************************)

\* What is left of a name that is cut.
LEMMA Cuts ==
    ASSUME NEW S, NEW s \in Seq(S), NEW n \in Nat
    PROVE  /\ Cut(s, n) \in Seq(S)
           /\ Len(Cut(s, n)) = IF Len(s) < n THEN Len(s) ELSE n
<1> DEFINE m == IF Len(s) < n THEN Len(s) ELSE n
<1>1. m \in Int /\ 1 \in Int /\ 0 <= m /\ m <= Len(s) /\ Len(s) \in Nat
  OBVIOUS
<1>2. Cut(s, n) = SubSeq(s, 1, m)
  BY DEF Cut
<1> HIDE DEF m
<1>3. \A i \in 1 .. m : s[i] \in S
  BY <1>1, ElementOfSeq
<1>4. SubSeq(s, 1, m) \in Seq(S) /\ Len(SubSeq(s, 1, m)) = IF 1 <= m THEN m - 1 + 1 ELSE 0
  BY <1>1, <1>3, SubSeqProperties
<1>5. (IF 1 <= m THEN m - 1 + 1 ELSE 0) = m
  BY <1>1
<1> QED BY <1>2, <1>4, <1>5 DEF m

\* The name that is made safe.
LEMMA BaseIsSafe ==
    ASSUME NEW original \in Seq(STRING), original # << >>
    PROVE  Base(original) \in Seq(Safe) /\ Len(Base(original)) \in 1 .. MaxLen
<1> DEFINE s == [ i \in DOMAIN original |-> IF original[i] \in Safe THEN original[i] ELSE Underscore ]
<1>1. MaxLen \in Nat /\ MaxLen >= 1 /\ Underscore \in Safe
  <2>1. Len(SearchName) \in Nat /\ 0 < Len(SearchName) /\ Len(SearchName) <= MaxLen /\ MaxLen \in Nat
    BY NamesAssumption DEF Name
  <2> QED BY <2>1, DigitsDiffer
<1>2. DOMAIN original = 1 .. Len(original) /\ Len(original) \in Nat /\ Len(original) >= 1
  <2>1. Len(original) # 0
    BY EmptySeq
  <2> QED BY <2>1
<1>3. s \in [ 1 .. Len(original) -> Safe ]
  BY <1>1, <1>2
<1>4. s \in Seq(Safe) /\ Len(s) = Len(original)
  <2> HIDE DEF s
  <2>1. s \in Seq(Safe)
    BY <1>2, <1>3, SeqDef
  <2>2. DOMAIN s = 1 .. Len(s) /\ Len(s) \in Nat /\ DOMAIN s = 1 .. Len(original)
    BY <1>3, <2>1
  <2>3. 1 .. Len(s) = 1 .. Len(original)
    BY <2>2
  <2>4. Len(original) \in 1 .. Len(s)
    BY <1>2, <2>3
  <2>5. Len(s) \in 1 .. Len(original)
    BY <2>2, <2>3, <2>4
  <2>6. Len(s) = Len(original)
    <3>1. \A i, j \in Nat : i \in 1 .. j /\ j \in 1 .. i => i = j
      OBVIOUS
    <3> QED BY <1>2, <2>2, <2>4, <2>5, <3>1, Zenon
  <2> QED BY <2>1, <2>6
<1>5. Base(original) = Cut(s, MaxLen)
  BY DEF Base
<1> HIDE DEF s
<1>6. Cut(s, MaxLen) \in Seq(Safe) /\ Len(Cut(s, MaxLen)) = IF Len(s) < MaxLen THEN Len(s) ELSE MaxLen
  BY <1>1, <1>4, Cuts
<1> QED BY <1>1, <1>2, <1>4, <1>5, <1>6

\* Names that end in an underscore and different digits differ.
LEMMA TailsDiffer ==
    ASSUME NEW x \in Seq(Safe), NEW y \in Seq(Safe), NEW p \in Seq(Digit), NEW q \in Seq(Digit),
           x \o (<< Underscore >> \o p) = y \o (<< Underscore >> \o q)
    PROVE  p = q
<1> DEFINE v == << Underscore >> \o p
           w == << Underscore >> \o q
           s == x \o v
           t == y \o w
<1>1. /\ Len(x) \in Nat /\ Len(y) \in Nat /\ Len(p) \in Nat /\ Len(q) \in Nat
      /\ p \in Seq(Safe) /\ q \in Seq(Safe) /\ << Underscore >> \in Seq(Safe) /\ Len(<< Underscore >>) = 1
  BY DigitsDiffer
<1>2. /\ v \in Seq(Safe) /\ Len(v) = 1 + Len(p) /\ v[1] = Underscore /\ \A i \in 1 .. Len(p) : v[i + 1] = p[i]
      /\ w \in Seq(Safe) /\ Len(w) = 1 + Len(q) /\ w[1] = Underscore /\ \A i \in 1 .. Len(q) : w[i + 1] = q[i]
  BY <1>1, ConcatProperties
<1> HIDE DEF v, w
<1>3. /\ Len(s) = Len(x) + 1 + Len(p) /\ \A i \in 1 .. 1 + Len(p) : s[Len(x) + i] = v[i]
      /\ Len(t) = Len(y) + 1 + Len(q) /\ \A i \in 1 .. 1 + Len(q) : t[Len(y) + i] = w[i]
  BY <1>1, <1>2, ConcatProperties
<1>4. s = t
  BY DEF v, w
<1> HIDE DEF s, t
<1>5. \A i \in 1 .. Len(p) : p[i] \in Digit
  BY ElementOfSeq
<1>6. \A i \in 1 .. Len(q) : q[i] \in Digit
  BY ElementOfSeq
<1>7. CASE Len(p) < Len(q)
  <2> DEFINE i == Len(q) - Len(p)
  <2>1. i \in 1 .. Len(q) /\ i + 1 \in 1 .. 1 + Len(q) /\ Len(x) + 1 = Len(y) + (i + 1)
    BY <1>1, <1>3, <1>4, <1>7
  <2> HIDE DEF i
  <2>2. s[Len(x) + 1] = Underscore
    BY <1>1, <1>2, <1>3
  <2>3. t[Len(y) + (i + 1)] = q[i]
    BY <1>2, <1>3, <2>1
  <2> QED BY <1>4, <1>6, <2>1, <2>2, <2>3, DigitsDiffer
<1>8. CASE Len(q) < Len(p)
  <2> DEFINE i == Len(p) - Len(q)
  <2>1. i \in 1 .. Len(p) /\ i + 1 \in 1 .. 1 + Len(p) /\ Len(y) + 1 = Len(x) + (i + 1)
    BY <1>1, <1>3, <1>4, <1>8
  <2> HIDE DEF i
  <2>2. t[Len(y) + 1] = Underscore
    BY <1>1, <1>2, <1>3
  <2>3. s[Len(x) + (i + 1)] = p[i]
    BY <1>2, <1>3, <2>1
  <2> QED BY <1>4, <1>5, <2>1, <2>2, <2>3, DigitsDiffer
<1>9. CASE Len(p) = Len(q)
  <2>1. Len(x) = Len(y)
    BY <1>1, <1>3, <1>4, <1>9
  <2>2. ASSUME NEW i \in 1 .. Len(p) PROVE p[i] = q[i]
    <3>1. i + 1 \in 1 .. 1 + Len(p) /\ i + 1 \in 1 .. 1 + Len(q) /\ i \in 1 .. Len(q)
      BY <1>1, <1>9
    <3>2. s[Len(x) + (i + 1)] = p[i] /\ t[Len(y) + (i + 1)] = q[i]
      BY <1>2, <1>3, <3>1
    <3> QED BY <1>4, <2>1, <3>2
  <2> QED BY <1>9, <2>2, SeqEqual
<1> QED BY <1>1, <1>7, <1>8, <1>9

\* The name with a number behind it.
LEMMA NumberedIsSafe ==
    ASSUME NEW base \in Seq(Safe), NEW n \in Nat
    PROVE  /\ Numbered(base, n) \in Seq(Safe) /\ Len(Numbered(base, n)) >= 1
           /\ Len(Decimal[n]) < MaxLen => Len(Numbered(base, n)) <= MaxLen
           /\ \E x \in Seq(Safe) : Numbered(base, n) = x \o (<< Underscore >> \o Decimal[n])
<1> DEFINE p == Decimal[n]
           v == << Underscore >> \o p
           k == IF Len(v) > MaxLen THEN 0 ELSE MaxLen - Len(v)
           x == Cut(base, k)
<1>1. /\ p \in Seq(Safe) /\ Len(p) \in Nat /\ MaxLen \in Nat
      /\ << Underscore >> \in Seq(Safe) /\ Len(<< Underscore >>) = 1
  <2>1. p \in Seq(Digit)
    BY DecimalDigits
  <2> HIDE DEF p
  <2>2. MaxLen \in Nat
    BY NamesAssumption
  <2> QED BY <2>1, <2>2, DigitsDiffer
<1>2. Numbered(base, n) = x \o v
  BY DEF Numbered
<1> HIDE DEF p
<1>3. v \in Seq(Safe) /\ Len(v) = 1 + Len(p)
  BY <1>1, ConcatProperties
<1> HIDE DEF v
<1>4. k \in Nat /\ (Len(v) <= MaxLen => k = MaxLen - Len(v))
  BY <1>1, <1>3
<1> HIDE DEF k
<1>5. x \in Seq(Safe) /\ Len(x) = IF Len(base) < k THEN Len(base) ELSE k
  BY <1>4, Cuts
<1>6. Len(x) \in Nat /\ Len(x) <= k
  BY <1>4, <1>5
<1> HIDE DEF x
<1>7. x \o v \in Seq(Safe) /\ Len(x \o v) = Len(x) + Len(v)
  BY <1>3, <1>5, ConcatProperties
<1>8. Len(x \o v) >= 1 /\ (Len(p) < MaxLen => Len(x \o v) <= MaxLen)
  BY <1>1, <1>3, <1>4, <1>6, <1>7
<1> QED BY <1>2, <1>5, <1>7, <1>8 DEF v, p

\* Different numbers make different names, also where the name is cut to make room.
LEMMA NumberedDiffer ==
    ASSUME NEW base \in Seq(Safe), NEW n \in Nat, NEW m \in Nat, Numbered(base, n) = Numbered(base, m)
    PROVE  n = m
<1>1. PICK x \in Seq(Safe) : Numbered(base, n) = x \o (<< Underscore >> \o Decimal[n])
  BY NumberedIsSafe
<1>2. PICK y \in Seq(Safe) : Numbered(base, m) = y \o (<< Underscore >> \o Decimal[m])
  BY NumberedIsSafe
<1> DEFINE p == Decimal[n]
           q == Decimal[m]
<1>3. p \in Seq(Digit) /\ q \in Seq(Digit)
  BY DecimalDigits
<1>4. x \o (<< Underscore >> \o p) = y \o (<< Underscore >> \o q)
  BY <1>1, <1>2
<1> HIDE DEF p, q
<1>5. p = q
  BY <1>3, <1>4, TailsDiffer
<1> QED BY <1>5, DecimalsDiffer DEF p, q

(***************************************************************************)
(* safe_name finds a name that is not used yet, and the name fits.         *)
(***************************************************************************)
LEMMA SafeNameIsFree ==
    ASSUME NEW used, IsFiniteSet(used), NEW original \in Seq(STRING), original # << >>
    PROVE  LET chat == SafeName(used, original)
           IN  /\ chat \notin used /\ chat \in Seq(Safe) /\ Len(chat) >= 1
               /\ Cardinality(used) < MaxNames => Len(chat) <= MaxLen
<1> DEFINE base == Base(original)
           c == Cardinality(used)
           S == 2 .. c + 2
           free == { n \in S : Numbered(base, n) \notin used }
<1>1. base \in Seq(Safe) /\ Len(base) >= 1 /\ Len(base) <= MaxLen
  BY BaseIsSafe
<1>2. c \in Nat
  BY FS_CardinalityType
<1>3. SafeName(used, original) = IF base \notin used THEN base ELSE Numbered(base, Min(free))
  BY DEF SafeName
<1> HIDE DEF base, c
<1>4. free # {}
  <2>1. SUFFICES ASSUME \A n \in S : Numbered(base, n) \in used PROVE FALSE
    OBVIOUS
  <2> DEFINE f == [ n \in S |-> Numbered(base, n) ]
  <2>2. f \in [ S -> used ]
    BY <2>1
  <2>3. IsFiniteSet(S) /\ Cardinality(S) = c + 1
    <3>1. 2 \in Int /\ c + 2 \in Int /\ (IF 2 > c + 2 THEN 0 ELSE (c + 2) - 2 + 1) = c + 1
      BY <1>2
    <3> QED BY <3>1, FS_Interval
  <2>4. c < c + 1
    BY <1>2
  <2> HIDE DEF f
  <2>5. PICK n, m \in S : n # m /\ f[n] = f[m]
    <3> HIDE DEF S
    <3> QED BY <2>2, <2>3, <2>4, FS_PigeonHole DEF c
  <2>6. n \in Nat /\ m \in Nat
    BY <1>2
  <2>7. Numbered(base, n) = Numbered(base, m)
    BY <2>5 DEF f
  <2> QED BY <1>1, <2>5, <2>6, <2>7, NumberedDiffer
<1>5. Min(free) \in free
  <2>1. free \in SUBSET Nat
    BY <1>2
  <2> HIDE DEF free
  <2>2. \E x \in free : \A y \in free : x <= y
    BY <1>4, <2>1, Least
  <2> QED BY <2>2 DEF Min
<1> DEFINE n == Min(free)
<1>6. n \in 2 .. c + 2 /\ Numbered(base, n) \notin used
  BY <1>5
<1> HIDE DEF n
<1>7. n \in Nat
  BY <1>2, <1>6
<1>8. Numbered(base, n) \in Seq(Safe) /\ Len(Numbered(base, n)) >= 1
  BY <1>1, <1>7, NumberedIsSafe
<1>9. c < MaxNames => Len(Numbered(base, n)) <= MaxLen
  <2>1. SUFFICES ASSUME c < MaxNames PROVE Len(Numbered(base, n)) <= MaxLen
    OBVIOUS
  <2>2. n \in 2 .. MaxNames + 1
    BY <1>2, <1>6, <2>1, NamesAssumption
  <2>3. Len(Decimal[n]) < MaxLen
    BY <2>2, RoomAssumption
  <2> QED BY <1>1, <1>7, <2>3, NumberedIsSafe
<1>10. SafeName(used, original) = IF base \notin used THEN base ELSE Numbered(base, n)
  BY <1>3 DEF n
<1> QED BY <1>1, <1>6, <1>8, <1>9, <1>10 DEF c

------------------------------------------------------------------------------
(***************************************************************************)
(* Sequences, one after the other.                                         *)
(***************************************************************************)

\* f[n] is the first n of the sequences put together.
Flattens(f, seqs, n) ==
    f = [ i \in 1 .. n |-> IF i = 1 THEN seqs[i] ELSE f[i - 1] \o seqs[i] ]

\* Such an f exists.
LEMMA FlattensExist ==
    ASSUME NEW seqs, NEW n \in Nat
    PROVE  \E f : Flattens(f, seqs, n)
<1> DEFINE Q == { m \in Nat : \E f : Flattens(f, seqs, m) }
<1>1. 0 \in Q
  <2> DEFINE f == [ i \in 1 .. 0 |-> seqs[i] ]
  <2>1. Flattens(f, seqs, 0)
    BY DEF Flattens
  <2> HIDE DEF f
  <2> QED BY <2>1
<1>2. ASSUME NEW m \in Q PROVE m + 1 \in Q
  <2>1. PICK f : Flattens(f, seqs, m)
    OBVIOUS
  <2> DEFINE g == [ i \in 1 .. m + 1 |-> IF i = 1 THEN seqs[i] ELSE f[i - 1] \o seqs[i] ]
  <2>2. ASSUME NEW i \in 1 .. m + 1, i # 1 PROVE g[i - 1] = f[i - 1]
    <3>1. i - 1 \in 1 .. m /\ i - 1 \in 1 .. m + 1
      BY <2>2
    <3>2. f[i - 1] = IF i - 1 = 1 THEN seqs[i - 1] ELSE f[(i - 1) - 1] \o seqs[i - 1]
      BY <2>1, <3>1 DEF Flattens
    <3> QED BY <3>1, <3>2
  <2>3. Flattens(g, seqs, m + 1)
    BY <2>2 DEF Flattens
  <2> HIDE DEF g
  <2> QED BY <2>3
<1>3. Q = Nat
  <2>1. Q \in SUBSET Nat
    OBVIOUS
  <2> HIDE DEF Q
  <2> QED BY <1>1, <1>2, <2>1, AllNumbers
<1> QED BY <1>3

\* Its first values depend on the first sequences only.
LEMMA FlattensAgree ==
    ASSUME NEW s, NEW t, NEW n \in Nat, NEW m \in Nat, NEW f, NEW g, Flattens(f, s, n), Flattens(g, t, m),
           NEW k \in 1 .. n, k \in 1 .. m, \A i \in 1 .. k : s[i] = t[i]
    PROVE  f[k] = g[k]
<1> DEFINE T == { i \in 1 .. k : f[i] # g[i] }
<1>1. SUFFICES ASSUME T # {} PROVE FALSE
  OBVIOUS
<1>2. PICK x \in T : \A y \in T : x <= y
  <2>1. T \in SUBSET Nat
    OBVIOUS
  <2> HIDE DEF T
  <2> QED BY <1>1, <2>1, Least
<1>3. x \in 1 .. n /\ x \in 1 .. m
  OBVIOUS
<1>4. /\ f[x] = IF x = 1 THEN s[x] ELSE f[x - 1] \o s[x]
      /\ g[x] = IF x = 1 THEN t[x] ELSE g[x - 1] \o t[x]
  BY <1>3 DEF Flattens
<1>5. x # 1 => f[x - 1] = g[x - 1]
  BY <1>2
<1> QED BY <1>4, <1>5

\* What FlattenSeq is the last value of.
LEMMA FlattenIs ==
    ASSUME NEW seqs, Len(seqs) \in Nat, Len(seqs) # 0
    PROVE  \E f : Flattens(f, seqs, Len(seqs)) /\ FlattenSeq(seqs) = f[Len(seqs)]
<1> DEFINE f == CHOOSE g : Flattens(g, seqs, Len(seqs))
<1>1. Flattens(f, seqs, Len(seqs))
  BY FlattensExist
<1>2. FlattenSeq(seqs) = f[Len(seqs)]
  BY DEF FlattenSeq, Flattens
<1> QED BY <1>1, <1>2

(***************************************************************************)
(* One sequence more.                                                      *)
(***************************************************************************)
LEMMA FlattenAppend ==
    ASSUME NEW S, NEW seqs \in Seq(Seq(S)), NEW s \in Seq(S)
    PROVE  FlattenSeq(Append(seqs, s)) = FlattenSeq(seqs) \o s
<1> DEFINE more == Append(seqs, s)
           n == Len(seqs)
<1>1. /\ n \in Nat /\ Len(more) = n + 1 /\ more[n + 1] = s /\ \A i \in 1 .. n : more[i] = seqs[i]
  BY AppendProperties
<1> HIDE DEF more
<1>2. Len(more) \in Nat /\ Len(more) # 0
  BY <1>1
<1>3. PICK g : Flattens(g, more, n + 1) /\ FlattenSeq(more) = g[n + 1]
  BY <1>1, <1>2, FlattenIs
<1>4. CASE n = 0
  <2>1. FlattenSeq(seqs) = << >>
    <3>1. seqs = << >>
      BY <1>4
    <3> QED BY <1>4, <3>1 DEF FlattenSeq
  <2>2. g[n + 1] = s
    BY <1>1, <1>3, <1>4 DEF Flattens
  <2>3. << >> \o s = s
    BY ConcatEmptySeq
  <2> QED BY <1>3, <2>1, <2>2, <2>3 DEF more
<1>5. CASE n # 0
  <2>1. PICK f : Flattens(f, seqs, n) /\ FlattenSeq(seqs) = f[n]
    BY <1>1, <1>5, FlattenIs
  <2>2. n \in 1 .. n /\ n \in 1 .. n + 1 /\ n + 1 \in 1 .. n + 1 /\ n + 1 # 1 /\ (n + 1) - 1 = n
    BY <1>1, <1>5
  <2> HIDE DEF n
  <2>3. f[n] = g[n]
    BY <1>1, <1>3, <2>1, <2>2, FlattensAgree
  <2>4. g[n + 1] = g[n] \o s
    BY <1>1, <1>3, <2>2 DEF Flattens
  <2> QED BY <1>3, <2>1, <2>3, <2>4 DEF more
<1> QED BY <1>4, <1>5

\* No sequence.
LEMMA FlattenNothing == FlattenSeq(<< >>) = << >>
  BY DEF FlattenSeq

------------------------------------------------------------------------------
(***************************************************************************)
(* The context.                                                            *)
(***************************************************************************)
Kinds == { "function", "custom", "tool_search", "namespace" }

ItemSet == [ kind : Kinds, name : Seq(STRING), namespace : Seq(STRING) ]

\* the name that add_chat_tool gets for a tool
Original(spec) ==
    IF spec.kind = "namespace" THEN InNamespace(spec.namespace, spec.name) ELSE spec.name

\* the names are acceptable and distinct
NamesFit(c) ==
    /\ c.chatTools \in Seq(Seq(Safe))
    /\ \A i \in DOMAIN c.chatTools :
         /\ Len(c.chatTools[i]) >= 1
         /\ Len(c.chatTools) <= MaxNames => Len(c.chatTools[i]) <= MaxLen
         /\ \A j \in DOMAIN c.chatTools : c.chatTools[i] = c.chatTools[j] => i = j

\* the maps are about the names that are offered
MapsFit(c) ==
    /\ c.used = Range(c.chatTools) /\ DOMAIN c.specs = c.used /\ DOMAIN c.reverse = c.used
    /\ IsFiniteSet(c.used) /\ Cardinality(c.used) = Len(c.chatTools)

\* and agree with each other
Agreeing(c) ==
    /\ \A chat \in c.used :
         /\ c.reverse[chat] = Original(c.specs[chat])
         /\ c.specs[chat].kind = "namespace" =>
              << c.specs[chat].namespace, c.specs[chat].name >> \in DOMAIN c.byNamespace
    /\ \A key \in DOMAIN c.byNamespace :
         LET chat == c.byNamespace[key]
         IN  /\ chat \in c.used /\ c.specs[chat].kind = "namespace"
             /\ << c.specs[chat].namespace, c.specs[chat].name >> = key

CInv(c) == NamesFit(c) /\ MapsFit(c) /\ Agreeing(c)

\* The context offers the items, in order, and knows each by its name.
Offers(c, items) ==
    /\ Len(c.chatTools) = Len(items)
    /\ \A i \in DOMAIN items : /\ c.chatTools[i] \in DOMAIN c.specs
                               /\ c.specs[c.chatTools[i]] = items[i]

\* From c to d the items were added.
Adds(c, d, items) ==
    /\ CInv(d)
    /\ \A before \in Seq(ItemSet) : Offers(c, before) => Offers(d, before \o items)

\* The empty context is good.
LEMMA EmptyIsGood == CInv(EmptyContext) /\ Offers(EmptyContext, << >>)
<1> DEFINE c == EmptyContext
<1>1. /\ c.chatTools = << >> /\ c.used = {} /\ c.specs = << >> /\ c.reverse = << >>
      /\ c.byNamespace = << >>
  BY DEF EmptyContext
<1>2. << >> \in Seq(Seq(Safe)) /\ Len(<< >>) = 0 /\ DOMAIN << >> = {}
  OBVIOUS
<1> HIDE DEF c
<1>3. NamesFit(c)
  BY <1>1, <1>2 DEF NamesFit
<1>4. MapsFit(c)
  <2>1. Range(<< >>) = {}
    BY <1>2 DEF Range
  <2> QED BY <1>1, <1>2, <2>1, FS_EmptySet DEF MapsFit
<1>5. Agreeing(c)
  BY <1>1, <1>2 DEF Agreeing
<1>6. Offers(c, << >>)
  BY <1>1, <1>2 DEF Offers
<1> QED BY <1>3, <1>4, <1>5, <1>6 DEF CInv, c

(***************************************************************************)
(* A tool that is added gets a name of its own, and nothing that was known *)
(* before is lost.                                                         *)
(***************************************************************************)
LEMMA AddToolAdds ==
    ASSUME NEW c, CInv(c), NEW spec \in ItemSet, Original(spec) \in Seq(STRING), Original(spec) # << >>
    PROVE  Adds(c, AddTool(c, Original(spec), spec.kind, spec.name, spec.namespace), << spec >>)
<1> DEFINE original == Original(spec)
           chat == SafeName(c.used, original)
           d == AddTool(c, original, spec.kind, spec.name, spec.namespace)
           n == Len(c.chatTools)
           key == << spec.namespace, spec.name >>
<1>1. /\ chat \notin c.used /\ chat \in Seq(Safe) /\ Len(chat) >= 1
      /\ Cardinality(c.used) < MaxNames => Len(chat) <= MaxLen
  BY SafeNameIsFree DEF CInv, MapsFit
<1>2. [ kind |-> spec.kind, name |-> spec.name, namespace |-> spec.namespace ] = spec
  BY DEF ItemSet
<1>3. /\ d.chatTools = Append(c.chatTools, chat)
      /\ d.used = c.used \cup { chat }
      /\ d.specs = With(c.specs, chat, spec)
      /\ d.reverse = With(c.reverse, chat, original)
      /\ d.byNamespace = IF spec.kind = "namespace" THEN With(c.byNamespace, key, chat) ELSE c.byNamespace
  <2> HIDE DEF chat
  <2>1. d = [ chatTools   |-> Append(c.chatTools, chat),
              used        |-> c.used \cup { chat },
              specs       |-> With(c.specs, chat, [ kind |-> spec.kind, name |-> spec.name,
                                                    namespace |-> spec.namespace ]),
              reverse     |-> With(c.reverse, chat, original),
              byNamespace |-> IF spec.kind = "namespace"
                              THEN With(c.byNamespace, key, chat) ELSE c.byNamespace ]
    BY DEF AddTool, chat
  <2> HIDE DEF d, original
  <2> QED BY <1>2, <2>1
<1> HIDE DEF d, chat, original, key
<1>4. /\ DOMAIN d.specs = c.used \cup { chat } /\ d.specs[chat] = spec
      /\ \A x \in c.used : d.specs[x] = c.specs[x]
      /\ DOMAIN d.reverse = c.used \cup { chat } /\ d.reverse[chat] = original
      /\ \A x \in c.used : d.reverse[x] = c.reverse[x]
  BY <1>1, <1>3 DEF With, CInv, MapsFit
<1>5. /\ n \in Nat /\ DOMAIN c.chatTools = 1 .. n
      /\ \A i \in 1 .. n : c.chatTools[i] \in c.used /\ c.chatTools[i] \in Seq(Safe)
  <2>1. c.chatTools \in Seq(Seq(Safe)) /\ c.used = Range(c.chatTools)
    BY DEF CInv, NamesFit, MapsFit
  <2>2. n \in Nat /\ DOMAIN c.chatTools = 1 .. n
    BY <2>1
  <2> HIDE DEF n
  <2> QED BY <2>1, <2>2 DEF Range
<1>6. /\ d.chatTools \in Seq(Seq(Safe)) /\ Len(d.chatTools) = n + 1 /\ DOMAIN d.chatTools = 1 .. n + 1
      /\ \A i \in 1 .. n : d.chatTools[i] = c.chatTools[i]
      /\ d.chatTools[n + 1] = chat
  BY <1>1, <1>3, AppendProperties DEF CInv, NamesFit
<1>7. Cardinality(c.used) = n
  BY DEF CInv, MapsFit
<1> HIDE DEF n
<1>8. NamesFit(d)
  <2>1. /\ \A i, j \in 1 .. n : c.chatTools[i] = c.chatTools[j] => i = j
        /\ \A i \in 1 .. n : Len(c.chatTools[i]) >= 1 /\ (n <= MaxNames => Len(c.chatTools[i]) <= MaxLen)
    BY <1>5 DEF CInv, NamesFit, n
  <2>2. MaxNames \in Nat
    BY NamesAssumption
  <2>3. ASSUME NEW i \in 1 .. n + 1
        PROVE  /\ Len(d.chatTools[i]) >= 1
               /\ n + 1 <= MaxNames => Len(d.chatTools[i]) <= MaxLen
               /\ \A j \in 1 .. n + 1 : d.chatTools[i] = d.chatTools[j] => i = j
    <3>1. CASE i = n + 1
      <4>1. \A j \in 1 .. n : d.chatTools[j] # chat
        BY <1>1, <1>5, <1>6
      <4>2. n + 1 <= MaxNames => Len(chat) <= MaxLen
        BY <1>1, <1>5, <1>7, <2>2
      <4>3. \A j \in 1 .. n + 1 : j = n + 1 \/ j \in 1 .. n
        BY <1>5
      <4> QED BY <1>1, <1>6, <3>1, <4>1, <4>2, <4>3
    <3>2. CASE i # n + 1
      <4>1. i \in 1 .. n
        BY <1>5, <3>2
      <4>2. d.chatTools[i] = c.chatTools[i] /\ d.chatTools[i] # chat
        BY <1>1, <1>5, <1>6, <4>1
      <4>3. n + 1 <= MaxNames => n <= MaxNames
        BY <1>5, <2>2
      <4>4. \A j \in 1 .. n + 1 : j = n + 1 \/ j \in 1 .. n
        BY <1>5
      <4>5. \A j \in 1 .. n + 1 : d.chatTools[i] = d.chatTools[j] => i = j
        BY <1>6, <2>1, <4>1, <4>2, <4>4
      <4> QED BY <2>1, <4>1, <4>2, <4>3, <4>5
    <3> QED BY <3>1, <3>2
  <2> QED BY <1>6, <2>3 DEF NamesFit
<1>9. MapsFit(d)
  <2>1. Range(d.chatTools) = c.used \cup { chat }
    <3>1. c.used = { c.chatTools[i] : i \in 1 .. n }
      BY <1>5 DEF CInv, MapsFit, Range
    <3>2. Range(d.chatTools) = { d.chatTools[i] : i \in 1 .. n + 1 }
      BY <1>6 DEF Range
    <3>3. \A j \in 1 .. n + 1 : j = n + 1 \/ j \in 1 .. n
      BY <1>5
    <3>4. n + 1 \in 1 .. n + 1 /\ \A j \in 1 .. n : j \in 1 .. n + 1
      BY <1>5
    <3> QED BY <1>6, <3>1, <3>2, <3>3, <3>4
  <2>2. IsFiniteSet(c.used \cup { chat }) /\ Cardinality(c.used \cup { chat }) = n + 1
    BY <1>1, <1>7, FS_AddElement DEF CInv, MapsFit
  <2> QED BY <1>3, <1>4, <1>6, <2>1, <2>2 DEF MapsFit
<1>10. Agreeing(d)
  <2>1. \A x \in DOMAIN c.byNamespace : x \in DOMAIN d.byNamespace
    BY <1>3 DEF With
  <2>2. spec.kind = "namespace" => key \in DOMAIN d.byNamespace
    BY <1>3 DEF With
  <2>3. ASSUME NEW x \in d.used
        PROVE  /\ d.reverse[x] = Original(d.specs[x])
               /\ d.specs[x].kind = "namespace" =>
                    << d.specs[x].namespace, d.specs[x].name >> \in DOMAIN d.byNamespace
    <3>1. CASE x = chat
      BY <1>4, <2>2, <3>1 DEF original, key
    <3>2. CASE x # chat
      <4>1. x \in c.used
        BY <1>3, <3>2
      <4> QED BY <1>4, <2>1, <4>1 DEF CInv, Agreeing
    <3> QED BY <3>1, <3>2
  <2>4. ASSUME NEW k \in DOMAIN d.byNamespace
        PROVE  LET x == d.byNamespace[k]
               IN  /\ x \in d.used /\ d.specs[x].kind = "namespace"
                   /\ << d.specs[x].namespace, d.specs[x].name >> = k
    <3>1. CASE spec.kind = "namespace" /\ k = key
      <4>1. d.byNamespace[k] = chat
        BY <1>3, <3>1 DEF With
      <4> QED BY <1>3, <1>4, <3>1, <4>1 DEF key
    <3>2. CASE ~(spec.kind = "namespace" /\ k = key)
      <4>1. k \in DOMAIN c.byNamespace /\ d.byNamespace[k] = c.byNamespace[k]
        BY <1>3, <3>2 DEF With
      <4> DEFINE x == c.byNamespace[k]
      <4>2. /\ x \in c.used /\ c.specs[x].kind = "namespace"
            /\ << c.specs[x].namespace, c.specs[x].name >> = k
        BY <4>1 DEF CInv, Agreeing
      <4> HIDE DEF x
      <4>3. d.specs[x] = c.specs[x] /\ x \in d.used
        BY <1>3, <1>4, <4>2
      <4> QED BY <4>1, <4>2, <4>3 DEF x
    <3> QED BY <3>1, <3>2
  <2> QED BY <2>3, <2>4 DEF Agreeing
<1>11. ASSUME NEW before \in Seq(ItemSet), Offers(c, before) PROVE Offers(d, before \o << spec >>)
  <2> DEFINE after == before \o << spec >>
  <2>1. Len(before) = n /\ \A i \in 1 .. n : c.specs[c.chatTools[i]] = before[i]
    <3>1. DOMAIN before = 1 .. Len(before)
      OBVIOUS
    <3> QED BY <1>11, <3>1 DEF Offers, n
  <2>2. << spec >> \in Seq(ItemSet) /\ Len(<< spec >>) = 1 /\ << spec >>[1] = spec
    OBVIOUS
  <2>3. /\ Len(after) = n + 1 /\ DOMAIN after = 1 .. n + 1 /\ after[n + 1] = spec
        /\ \A i \in 1 .. n : after[i] = before[i]
    <3>1. after = Append(before, spec)
      BY AppendIsConcat
    <3> HIDE DEF after
    <3> QED BY <2>1, <3>1, AppendProperties
  <2> HIDE DEF after
  <2>4. ASSUME NEW i \in 1 .. n + 1
        PROVE  d.chatTools[i] \in DOMAIN d.specs /\ d.specs[d.chatTools[i]] = after[i]
    <3>1. CASE i = n + 1
      BY <1>4, <1>6, <2>3, <3>1
    <3>2. CASE i # n + 1
      <4>1. i \in 1 .. n
        BY <1>5, <3>2
      <4> QED BY <1>4, <1>5, <1>6, <2>1, <2>3, <4>1, ZenonT(60)
    <3> QED BY <3>1, <3>2
  <2> QED BY <1>6, <2>3, <2>4 DEF Offers, after
<1>12. Adds(c, d, << spec >>)
  BY <1>8, <1>9, <1>10, <1>11 DEF Adds, CInv
<1> QED BY <1>12 DEF d, original

\* Nothing is added.
LEMMA AddsNothing ==
    ASSUME NEW c, CInv(c)
    PROVE  Adds(c, c, << >>)
<1>1. \A before \in Seq(ItemSet) : before \o << >> = before
  BY ConcatEmptySeq
<1> QED BY <1>1 DEF Adds

\* What is added in two steps.
LEMMA AddsMore ==
    ASSUME NEW c, NEW d, NEW e, NEW xs \in Seq(ItemSet), NEW ys \in Seq(ItemSet),
           Adds(c, d, xs), Adds(d, e, ys)
    PROVE  Adds(c, e, xs \o ys)
<1>1. ASSUME NEW before \in Seq(ItemSet), Offers(c, before) PROVE Offers(e, before \o (xs \o ys))
  <2>1. Offers(d, before \o xs) /\ before \o xs \in Seq(ItemSet)
    BY <1>1, ConcatProperties DEF Adds
  <2>2. Offers(e, (before \o xs) \o ys)
    BY <2>1 DEF Adds
  <2>3. (before \o xs) \o ys = before \o (xs \o ys)
    BY ConcatAssociative
  <2> QED BY <2>2, <2>3
<1> QED BY <1>1 DEF Adds

\* What is declared under a name, if there is one.
LEMMA NamedType ==
    ASSUME NEW kind \in Kinds, NEW name \in Seq(STRING), NEW namespace \in Seq(STRING)
    PROVE  /\ Named(kind, name, namespace) \in Seq(ItemSet)
           /\ name = << >> => Named(kind, name, namespace) = << >>
           /\ name # << >> => Named(kind, name, namespace) = << Item(kind, name, namespace) >>
           /\ Item(kind, name, namespace) \in ItemSet
           /\ Item(kind, name, namespace).kind = kind
           /\ Item(kind, name, namespace).name = name
           /\ Item(kind, name, namespace).namespace = namespace
<1>1. /\ Item(kind, name, namespace) \in ItemSet
      /\ Item(kind, name, namespace).kind = kind
      /\ Item(kind, name, namespace).name = name
      /\ Item(kind, name, namespace).namespace = namespace
  BY DEF Item, ItemSet
<1>2. << >> \in Seq(ItemSet) /\ << Item(kind, name, namespace) >> \in Seq(ItemSet)
  BY <1>1
<1> QED BY <1>1, <1>2 DEF Named

\* Two elements of a set.
LEMMA TwoAreASequence ==
    ASSUME NEW S, NEW x \in S, NEW y \in S
    PROVE  << x, y >> \in Seq(S)
  OBVIOUS

\* A function of a namespace is added.
LEMMA AddChildAdds ==
    ASSUME NEW c, CInv(c), NEW namespace \in Seq(STRING), namespace # << >>, NEW name \in Seq(STRING)
    PROVE  Adds(c, AddChild(c, namespace, name), Named("namespace", name, namespace))
<1>1. CASE name = << >>
  <2>1. AddChild(c, namespace, name) = c /\ Named("namespace", name, namespace) = << >>
    BY <1>1 DEF AddChild, Named
  <2> QED BY <2>1, AddsNothing
<1>2. CASE name # << >>
  <2> DEFINE spec == Item("namespace", name, namespace)
             original == InNamespace(namespace, name)
  <2>1. /\ spec \in ItemSet /\ spec.kind = "namespace" /\ spec.name = name /\ spec.namespace = namespace
        /\ Named("namespace", name, namespace) = << spec >>
    <3>1. "namespace" \in Kinds
      BY DEF Kinds
    <3> QED BY <1>2, <3>1, NamedType
  <2>2. AddChild(c, namespace, name) = AddTool(c, original, "namespace", name, namespace)
    BY <1>2 DEF AddChild
  <2>3. original \in Seq(STRING) /\ original # << >>
    <3> DEFINE bars == << Underscore, Underscore >>
    <3>1. bars \in Seq(STRING)
      <4>1. Underscore \in STRING
        BY NamesAssumption
      <4> QED BY <4>1, TwoAreASequence
    <3>2. original = (namespace \o bars) \o name
      BY DEF InNamespace
    <3> HIDE DEF bars, original
    <3>3. /\ namespace \o bars \in Seq(STRING)
          /\ Len(namespace \o bars) = Len(namespace) + Len(bars)
      BY <3>1, ConcatProperties
    <3>4. /\ (namespace \o bars) \o name \in Seq(STRING)
          /\ Len((namespace \o bars) \o name) = Len(namespace \o bars) + Len(name)
      BY <3>3, ConcatProperties
    <3>5. Len(namespace) \in Nat /\ Len(name) \in Nat /\ Len(bars) \in Nat /\ Len(name) # 0
      BY <1>2, <3>1, EmptySeq
    <3>6. Len(original) # 0
      BY <3>2, <3>3, <3>4, <3>5
    <3> QED BY <3>2, <3>4, <3>6
  <2> HIDE DEF spec, original
  <2>4. Original(spec) = original
    BY <2>1 DEF Original, original
  <2> QED BY <2>1, <2>2, <2>3, <2>4, AddToolAdds
<1> QED BY <1>1, <1>2

\* f[m] is the context with the first m functions of the namespace.
AddsChildren(f, c, t, n) ==
    f = [ m \in 0 .. n |-> IF m = 0 THEN c ELSE AddChild(f[m - 1], t.name, t.children[m]) ]

\* Such an f exists.
LEMMA ChildrenExist ==
    ASSUME NEW c, NEW t, NEW n \in Nat
    PROVE  \E f : AddsChildren(f, c, t, n)
<1> DEFINE Q == { k \in Nat : \E f : AddsChildren(f, c, t, k) }
<1>1. 0 \in Q
  <2> DEFINE f == [ m \in 0 .. 0 |-> c ]
  <2>1. AddsChildren(f, c, t, 0)
    BY DEF AddsChildren
  <2> HIDE DEF f
  <2> QED BY <2>1
<1>2. ASSUME NEW k \in Q PROVE k + 1 \in Q
  <2>1. PICK f : AddsChildren(f, c, t, k)
    OBVIOUS
  <2> DEFINE g == [ m \in 0 .. k + 1 |-> IF m = 0 THEN c ELSE AddChild(f[m - 1], t.name, t.children[m]) ]
  <2>2. ASSUME NEW m \in 0 .. k + 1, m # 0 PROVE g[m - 1] = f[m - 1]
    <3>1. m - 1 \in 0 .. k /\ m - 1 \in 0 .. k + 1
      BY <2>2
    <3>2. f[m - 1] = IF m - 1 = 0 THEN c ELSE AddChild(f[(m - 1) - 1], t.name, t.children[m - 1])
      BY <2>1, <3>1 DEF AddsChildren
    <3> QED BY <3>1, <3>2
  <2>3. AddsChildren(g, c, t, k + 1)
    BY <2>2 DEF AddsChildren
  <2> HIDE DEF g
  <2> QED BY <2>3
<1>3. Q = Nat
  <2>1. Q \in SUBSET Nat
    OBVIOUS
  <2> HIDE DEF Q
  <2> QED BY <1>1, <1>2, <2>1, AllNumbers
<1> QED BY <1>3

\* A function on the first numbers is a sequence.
LEMMA FirstNumbers ==
    ASSUME NEW S, NEW n \in Nat, NEW f \in [ 1 .. n -> S ]
    PROVE  f \in Seq(S) /\ Len(f) = n
<1>1. f \in Seq(S)
  BY SeqDef
<1>2. DOMAIN f = 1 .. Len(f) /\ Len(f) \in Nat /\ DOMAIN f = 1 .. n
  BY <1>1
<1>3. 1 .. Len(f) = 1 .. n
  BY <1>2
<1>4. \A i, j \in Nat : 1 .. i = 1 .. j => i = j
  <2>1. ASSUME NEW i \in Nat, NEW j \in Nat, 1 .. i = 1 .. j, i < j PROVE FALSE
    <3>1. j \in 1 .. j /\ j \notin 1 .. i
      BY <2>1
    <3> QED BY <2>1, <3>1
  <2> QED BY <2>1
<1> QED BY <1>1, <1>2, <1>3, <1>4, Zenon

\* A sequence that has one element more.
LEMMA OneMore ==
    ASSUME NEW S, NEW s \in Seq(S), NEW r \in Seq(S), NEW x \in S, Len(r) = Len(s) + 1,
           \A i \in 1 .. Len(s) : r[i] = s[i], r[Len(s) + 1] = x
    PROVE  r = Append(s, x)
<1>1. /\ Append(s, x) \in Seq(S) /\ Len(Append(s, x)) = Len(s) + 1
      /\ \A i \in 1 .. Len(s) : Append(s, x)[i] = s[i]
      /\ Append(s, x)[Len(s) + 1] = x
  BY AppendProperties
<1>2. \A i \in 1 .. Len(s) + 1 : i \in 1 .. Len(s) \/ i = Len(s) + 1
  OBVIOUS
<1>3. \A i \in 1 .. Len(r) : r[i] = Append(s, x)[i]
  BY <1>1, <1>2
<1> QED BY <1>1, <1>3, SeqEqual

\* What AddNamespace is the last value of.
LEMMA AddNamespaceIs ==
    ASSUME NEW c, NEW t, t.name # << >>, Len(t.children) \in Nat
    PROVE  \E f : AddsChildren(f, c, t, Len(t.children)) /\ AddNamespace(c, t) = f[Len(t.children)]
<1> DEFINE f == CHOOSE g : AddsChildren(g, c, t, Len(t.children))
<1>1. AddsChildren(f, c, t, Len(t.children))
  BY ChildrenExist
<1>2. AddNamespace(c, t) = f[Len(t.children)]
  BY DEF AddNamespace, AddsChildren
<1> QED BY <1>1, <1>2

\* The items of the first n functions of a namespace.
ChildItems(t, n) == FlattenSeq([ i \in 1 .. n |-> Named("namespace", t.children[i], t.name) ])

(***************************************************************************)
(* The functions of a namespace are added, by induction on their number.   *)
(***************************************************************************)
LEMMA ChildrenAdd ==
    ASSUME NEW c, CInv(c), NEW t, t.name \in Seq(STRING), t.name # << >>,
           t.children \in Seq(Seq(STRING)), NEW f, AddsChildren(f, c, t, Len(t.children)),
           NEW n \in 0 .. Len(t.children)
    PROVE  Adds(c, f[n], ChildItems(t, n)) /\ ChildItems(t, n) \in Seq(ItemSet)
<1> DEFINE size == Len(t.children)
           Q == { k \in Nat : k \in 0 .. size =>
                      Adds(c, f[k], ChildItems(t, k)) /\ ChildItems(t, k) \in Seq(ItemSet) }
           named(i) == Named("namespace", t.children[i], t.name)
           first(k) == [ i \in 1 .. k |-> named(i) ]
<1>1. size \in Nat /\ \A i \in 1 .. size : t.children[i] \in Seq(STRING)
  OBVIOUS
<1>2. \A k \in 0 .. size : f[k] = IF k = 0 THEN c ELSE AddChild(f[k - 1], t.name, t.children[k])
  BY DEF AddsChildren
<1> HIDE DEF size
<1>3. \A i \in 1 .. size : named(i) \in Seq(ItemSet)
  <2>1. "namespace" \in Kinds
    BY DEF Kinds
  <2> QED BY <1>1, <2>1, NamedType
<1> HIDE DEF named
<1>4. ASSUME NEW k \in 0 .. size
      PROVE  first(k) \in Seq(Seq(ItemSet)) /\ Len(first(k)) = k
  <2>1. k \in Nat /\ first(k) \in [ 1 .. k -> Seq(ItemSet) ]
    BY <1>1, <1>3
  <2> HIDE DEF first
  <2> QED BY <2>1, FirstNumbers
<1>5. \A k : ChildItems(t, k) = FlattenSeq(first(k))
  BY DEF ChildItems, named
<1>6. 0 \in Q
  <2>1. f[0] = c
    BY <1>1, <1>2
  <2>2. ChildItems(t, 0) = << >>
    <3>1. first(0) = << >>
      OBVIOUS
    <3> QED BY <1>5, <3>1, FlattenNothing
  <2>3. << >> \in Seq(ItemSet)
    OBVIOUS
  <2> QED BY <2>1, <2>2, <2>3, AddsNothing
<1>7. ASSUME NEW k \in Q PROVE k + 1 \in Q
  <2>1. SUFFICES ASSUME k + 1 \in 0 .. size
                 PROVE  /\ Adds(c, f[k + 1], ChildItems(t, k + 1))
                        /\ ChildItems(t, k + 1) \in Seq(ItemSet)
    OBVIOUS
  <2>2. k \in 0 .. size /\ k + 1 \in 1 .. size /\ k \in Nat
    BY <1>1, <2>1
  <2>3. Adds(c, f[k], ChildItems(t, k)) /\ ChildItems(t, k) \in Seq(ItemSet)
    BY <2>2
  <2> HIDE DEF Q
  <2>4. f[k + 1] = AddChild(f[k], t.name, t.children[k + 1])
    BY <1>2, <2>1, <2>2
  <2>5. Adds(f[k], f[k + 1], named(k + 1))
    BY <1>1, <2>2, <2>3, <2>4, AddChildAdds DEF Adds, named
  <2>6. first(k + 1) = Append(first(k), named(k + 1))
    <3>1. /\ first(k) \in Seq(Seq(ItemSet)) /\ Len(first(k)) = k
          /\ first(k + 1) \in Seq(Seq(ItemSet)) /\ Len(first(k + 1)) = k + 1
      BY <1>4, <2>1, <2>2
    <3>2. \A i \in 1 .. k : first(k + 1)[i] = first(k)[i]
      BY <2>2
    <3>3. first(k + 1)[k + 1] = named(k + 1)
      BY <2>2
    <3> HIDE DEF first
    <3> QED BY <1>3, <2>2, <3>1, <3>2, <3>3, OneMore
  <2>7. ChildItems(t, k + 1) = ChildItems(t, k) \o named(k + 1)
    <3>1. first(k) \in Seq(Seq(ItemSet)) /\ named(k + 1) \in Seq(ItemSet)
      BY <1>3, <1>4, <2>2
    <3> HIDE DEF first
    <3> QED BY <1>5, <2>6, <3>1, FlattenAppend, ZenonT(60)
  <2>8. named(k + 1) \in Seq(ItemSet)
    BY <1>3, <2>2
  <2> HIDE DEF first
  <2>9. Adds(c, f[k + 1], ChildItems(t, k) \o named(k + 1))
    BY <2>3, <2>5, <2>8, AddsMore
  <2> QED BY <2>3, <2>7, <2>8, <2>9, ConcatProperties
<1>8. Q = Nat
  <2>1. Q \in SUBSET Nat
    OBVIOUS
  <2> HIDE DEF Q
  <2> QED BY <1>6, <1>7, <2>1, AllNumbers
<1>9. n \in Nat /\ n \in 0 .. size
  BY DEF size
<1> QED BY <1>8, <1>9

(***************************************************************************)
(* A tool of the request is added with all that it declares.               *)
(***************************************************************************)
LEMMA AddResponseToolAdds ==
    ASSUME NEW c, CInv(c), NEW t \in Tools
    PROVE  Adds(c, AddResponseTool(c, t), ItemsOf(t)) /\ ItemsOf(t) \in Seq(ItemSet)
<1>1. /\ t.type \in Kinds /\ t.name \in Seq(STRING) /\ t.children \in Seq(Seq(STRING))
      /\ SearchName \in Seq(STRING) /\ SearchName # << >>
  BY NamesAssumption DEF Name, Kinds
<1>2. NoNamespace \in Seq(STRING)
  BY DEF NoNamespace
<1>3. ASSUME NEW kind \in Kinds, kind # "namespace", NEW name \in Seq(STRING)
      PROVE  /\ Adds(c, AddTool(c, name, kind, name, NoNamespace), Named(kind, name, NoNamespace))
             /\ Named(kind, name, NoNamespace) \in Seq(ItemSet)
  <2> DEFINE spec == Item(kind, name, NoNamespace)
  <2>1. /\ Named(kind, name, NoNamespace) \in Seq(ItemSet)
        /\ name = << >> => Named(kind, name, NoNamespace) = << >>
        /\ name # << >> => Named(kind, name, NoNamespace) = << spec >>
        /\ spec \in ItemSet /\ spec.kind = kind /\ spec.name = name /\ spec.namespace = NoNamespace
    BY <1>2, NamedType
  <2> HIDE DEF spec
  <2>2. Original(spec) = name
    BY <1>3, <2>1 DEF Original
  <2>3. CASE name = << >>
    <3>1. AddTool(c, name, kind, name, NoNamespace) = c
      BY <2>3 DEF AddTool
    <3> QED BY <2>1, <2>3, <3>1, AddsNothing
  <2>4. CASE name # << >>
    <3>1. Adds(c, AddTool(c, Original(spec), spec.kind, spec.name, spec.namespace), << spec >>)
      BY <2>1, <2>2, <2>4, AddToolAdds
    <3> QED BY <2>1, <2>2, <2>4, <3>1
  <2> QED BY <2>3, <2>4
<1>4. CASE t.type = "namespace"
  <2>1. AddResponseTool(c, t) = AddNamespace(c, t)
    BY <1>4 DEF AddResponseTool
  <2>2. CASE t.name = << >>
    <3>1. AddNamespace(c, t) = c
      BY <2>2 DEF AddNamespace
    <3>2. ItemsOf(t) = << >> /\ << >> \in Seq(ItemSet)
      BY <1>4, <2>2 DEF ItemsOf
    <3> QED BY <2>1, <3>1, <3>2, AddsNothing
  <2>3. CASE t.name # << >>
    <3> DEFINE size == Len(t.children)
    <3>1. size \in Nat /\ DOMAIN t.children = 1 .. size /\ size \in 0 .. size
      BY <1>1
    <3>2. ItemsOf(t) = ChildItems(t, size)
      BY <1>4, <2>3, <3>1 DEF ItemsOf, ChildItems
    <3>3. PICK f : AddsChildren(f, c, t, size) /\ AddNamespace(c, t) = f[size]
      BY <2>3, <3>1, AddNamespaceIs
    <3>4. Adds(c, f[size], ChildItems(t, size)) /\ ChildItems(t, size) \in Seq(ItemSet)
      BY <1>1, <2>3, <3>1, <3>3, ChildrenAdd
    <3> QED BY <2>1, <3>2, <3>3, <3>4
  <2> QED BY <2>2, <2>3
<1>5. CASE t.type = "tool_search"
  <2>1. /\ AddResponseTool(c, t) = AddTool(c, SearchName, "tool_search", SearchName, NoNamespace)
        /\ ItemsOf(t) = Named("tool_search", SearchName, NoNamespace)
    BY <1>5 DEF AddResponseTool, ItemsOf
  <2>2. "tool_search" \in Kinds /\ "tool_search" # "namespace"
    BY DEF Kinds
  <2> QED BY <1>1, <1>3, <2>1, <2>2
<1>6. CASE t.type # "namespace" /\ t.type # "tool_search"
  <2>1. /\ AddResponseTool(c, t) = AddTool(c, t.name, t.type, t.name, NoNamespace)
        /\ ItemsOf(t) = Named(t.type, t.name, NoNamespace)
    BY <1>6 DEF AddResponseTool, ItemsOf
  <2> QED BY <1>1, <1>3, <1>6, <2>1
<1> QED BY <1>4, <1>5, <1>6

------------------------------------------------------------------------------
(***************************************************************************)
(* The invariant: the context is good, and offers what was declared.       *)
(***************************************************************************)
NInv ==
    /\ declared \in Seq(Tools)
    /\ CInv(context)
    /\ Items \in Seq(ItemSet) /\ Offers(context, Items)
    /\ Len(context.chatTools) <= MaxNames

\* It holds of the context of no tools.
LEMMA InitNInv == Init => NInv
<1> SUFFICES ASSUME Init PROVE NInv
  OBVIOUS
<1>1. declared = << >> /\ context = EmptyContext
  BY DEF Init
<1>2. Items = << >>
  <2>1. [ n \in DOMAIN declared |-> ItemsOf(declared[n]) ] = << >>
    BY <1>1
  <2> QED BY <2>1, FlattenNothing DEF Items
<1>3. Len(context.chatTools) <= MaxNames
  <2>1. context.chatTools = << >> /\ MaxNames \in Nat
    BY <1>1, NamesAssumption DEF EmptyContext
  <2> QED BY <2>1
<1>4. declared \in Seq(Tools) /\ << >> \in Seq(ItemSet)
  BY <1>1
<1> QED BY <1>1, <1>2, <1>3, <1>4, EmptyIsGood DEF NInv

\* And is kept by one more tool.
LEMMA NextNInv == NInv /\ [Next]_vars => NInv'
<1> SUFFICES ASSUME NInv, [Next]_vars PROVE NInv'
  OBVIOUS
<1>1. CASE UNCHANGED vars
  <2>1. declared' = declared /\ context' = context
    BY <1>1 DEF vars
  <2>2. Items' = Items
    BY <2>1 DEF Items
  <2> QED BY <2>1, <2>2 DEF NInv, Offers, CInv, NamesFit, MapsFit, Agreeing
<1>2. ASSUME NEW t \in Tools, Declare(t) PROVE NInv'
  <2> DEFINE size == Len(declared)
             of == [ n \in DOMAIN declared |-> ItemsOf(declared[n]) ]
  <2>1. /\ declared' = Append(declared, t) /\ context' = AddResponseTool(context, t)
        /\ Len(context'.chatTools) <= MaxNames
    BY <1>2 DEF Declare
  <2>2. Adds(context, AddResponseTool(context, t), ItemsOf(t)) /\ ItemsOf(t) \in Seq(ItemSet)
    BY AddResponseToolAdds DEF NInv
  <2>3. /\ declared \in Seq(Tools) /\ Items \in Seq(ItemSet) /\ Offers(context, Items)
        /\ size \in Nat /\ DOMAIN declared = 1 .. size
        /\ \A n \in 1 .. size : declared[n] \in Tools
    BY DEF NInv
  <2>4. /\ declared' \in Seq(Tools) /\ DOMAIN declared' = 1 .. size + 1
        /\ declared'[size + 1] = t /\ \A n \in 1 .. size : declared'[n] = declared[n]
    BY <2>1, <2>3, AppendProperties
  <2>5. of \in Seq(Seq(ItemSet)) /\ Len(of) = size
    <3>1. \A n \in 1 .. size : ItemsOf(declared[n]) \in Seq(ItemSet)
      BY <2>3, AddResponseToolAdds DEF NInv
    <3>2. of \in [ 1 .. size -> Seq(ItemSet) ]
      BY <2>3, <3>1
    <3> HIDE DEF of
    <3> QED BY <2>3, <3>2, FirstNumbers
  <2>6. Items' = Items \o ItemsOf(t)
    <3> DEFINE more == [ n \in DOMAIN declared' |-> ItemsOf(declared'[n]) ]
    <3>1. more \in Seq(Seq(ItemSet)) /\ Len(more) = size + 1
      <4>1. \A n \in 1 .. size + 1 : declared'[n] \in Tools
        BY <2>4
      <4>2. \A n \in 1 .. size + 1 : ItemsOf(declared'[n]) \in Seq(ItemSet)
        BY <4>1, AddResponseToolAdds DEF NInv
      <4>3. more \in [ 1 .. size + 1 -> Seq(ItemSet) ] /\ size + 1 \in Nat
        BY <2>3, <2>4, <4>2
      <4> HIDE DEF more
      <4> QED BY <4>3, FirstNumbers
    <3>2. /\ \A n \in 1 .. size : more[n] = of[n]
          /\ more[size + 1] = ItemsOf(t)
      BY <2>3, <2>4
    <3> HIDE DEF more, of, size
    <3>3. more = Append(of, ItemsOf(t))
      BY <2>2, <2>5, <3>1, <3>2, OneMore
    <3>4. FlattenSeq(more) = FlattenSeq(of) \o ItemsOf(t)
      BY <2>2, <2>5, <3>3, FlattenAppend
    <3>5. Items = FlattenSeq(of)
      BY DEF Items, of
    <3>6. Items' = FlattenSeq(more)
      BY DEF Items, more
    <3> QED BY <3>4, <3>5, <3>6
  <2>7. Items' \in Seq(ItemSet)
    BY <2>2, <2>3, <2>6, ConcatProperties
  <2>8. CInv(context') /\ Offers(context', Items')
    BY <2>1, <2>2, <2>3, <2>6 DEF Adds
  <2> QED BY <2>1, <2>4, <2>7, <2>8 DEF NInv, Offers, CInv, NamesFit, MapsFit, Agreeing
<1> QED BY <1>1, <1>2 DEF Next

\* In every state.
LEMMA NInvHolds == Spec => []NInv
  BY InitNInv, NextNInv, PTL DEF Spec

\* What the invariant says of one name.
LEMMA OfferedName ==
    ASSUME NInv, NEW i \in DOMAIN context.chatTools
    PROVE  /\ context.chatTools[i] \in context.used /\ context.chatTools[i] \in Seq(Safe)
           /\ Len(context.chatTools[i]) \in 1 .. MaxLen
           /\ \A j \in DOMAIN context.chatTools : context.chatTools[i] = context.chatTools[j] => i = j
<1>1. context.chatTools \in Seq(Seq(Safe)) /\ context.used = Range(context.chatTools)
  BY DEF NInv, CInv, NamesFit, MapsFit
<1>2. context.chatTools[i] \in context.used /\ context.chatTools[i] \in Seq(Safe)
  BY <1>1 DEF Range
<1>3. /\ Len(context.chatTools[i]) >= 1 /\ Len(context.chatTools[i]) <= MaxLen
      /\ \A j \in DOMAIN context.chatTools : context.chatTools[i] = context.chatTools[j] => i = j
  BY DEF NInv, CInv, NamesFit
<1>4. Len(context.chatTools[i]) \in Nat /\ MaxLen \in Nat
  BY <1>2, NamesAssumption
<1> QED BY <1>2, <1>3, <1>4

(***************************************************************************)
(* The context is consistent, and every name that is offered to the        *)
(* upstream is not empty, not longer than MaxLen, of safe characters and   *)
(* offered once, whatever names the tools of the request have              *)
(* (safe_name, add_chat_tool).                                             *)
(***************************************************************************)
THEOREM TypeCorrect == Spec => []TypeOK
<1>1. NInv => TypeOK
  <2> SUFFICES ASSUME NInv PROVE TypeOK
    OBVIOUS
  <2>1. declared \in Seq(Tools)
    BY DEF NInv
  <2>2. ASSUME NEW i \in DOMAIN context.chatTools
        PROVE  /\ Len(context.chatTools[i]) \in 1 .. MaxLen /\ Range(context.chatTools[i]) \subseteq Safe
               /\ \A j \in DOMAIN context.chatTools : context.chatTools[i] = context.chatTools[j] => i = j
    <3> DEFINE chat == context.chatTools[i]
    <3>1. chat \in Seq(Safe)
      BY OfferedName
    <3> HIDE DEF chat
    <3>2. Range(chat) \subseteq Safe
      BY <3>1 DEF Range
    <3> QED BY <3>2, OfferedName DEF chat
  <2>3. /\ context.used = Range(context.chatTools)
        /\ DOMAIN context.specs = context.used /\ DOMAIN context.reverse = context.used
    BY DEF NInv, CInv, MapsFit
  <2>4. Range(context.byNamespace) \subseteq context.used
    BY DEF NInv, CInv, Agreeing, Range
  <2> QED BY <2>1, <2>2, <2>3, <2>4 DEF TypeOK
<1> QED BY <1>1, NInvHolds, PTL

(***************************************************************************)
(* A call under the name by which a tool was offered is given to Codex as  *)
(* a call of that very tool (openai_call_item), whichever others were      *)
(* numbered because of it and whatever was declared after it.              *)
(***************************************************************************)
THEOREM CallsFindTheirWayBack == Spec => []WayBack
<1>1. NInv => WayBack
  <2> SUFFICES ASSUME NInv PROVE WayBack
    OBVIOUS
  <2>1. /\ context.chatTools \in Seq(Seq(Safe)) /\ Items \in Seq(ItemSet)
        /\ Len(context.chatTools) = Len(Items)
        /\ \A i \in DOMAIN Items : /\ context.chatTools[i] \in DOMAIN context.specs
                                   /\ context.specs[context.chatTools[i]] = Items[i]
    BY DEF NInv, CInv, NamesFit, Offers
  <2>2. DOMAIN context.chatTools = DOMAIN Items
    BY <2>1
  <2> QED BY <2>1, <2>2 DEF WayBack, Restored
<1> QED BY <1>1, NInvHolds, PTL

(***************************************************************************)
(* A call that Codex sends back as history is shown to the upstream under  *)
(* the name it was made by (chat_name_for_item), unless two tools have the *)
(* same original name or the search tool lost its own.                     *)
(***************************************************************************)
THEOREM CallsAreReplayed == Spec => []ReplayedAsCalled
<1>1. NInv => ReplayedAsCalled
  <2> SUFFICES ASSUME NInv, NEW chat \in Range(context.chatTools), ~Ambiguous(chat)
               PROVE  ReplayNames(Restored(chat)) = { chat }
    BY DEF ReplayedAsCalled
  <2> DEFINE spec == context.specs[chat]
             key == << spec.namespace, spec.name >>
  <2>1. /\ chat \in context.used /\ DOMAIN context.specs = context.used
        /\ DOMAIN context.reverse = context.used
    BY DEF NInv, CInv, MapsFit
  <2>2. /\ \A x \in context.used : context.reverse[x] = Original(context.specs[x])
        /\ spec.kind = "namespace" => key \in DOMAIN context.byNamespace
    BY <2>1 DEF NInv, CInv, Agreeing
  <2>3. Restored(chat) = spec
    BY <2>1 DEF Restored
  <2>4. \A other \in context.used : context.reverse[other] = context.reverse[chat] => other = chat
    BY <2>1 DEF Ambiguous
  <2>5. CASE spec.kind = "tool_search"
    <3>1. chat = SearchName
      BY <2>5 DEF Ambiguous
    <3> HIDE DEF spec
    <3> QED BY <2>3, <2>5, <3>1 DEF ReplayNames
  <2>6. CASE spec.kind = "namespace"
    <3> DEFINE other == context.byNamespace[key]
               twin == context.specs[other]
    <3>1. key \in DOMAIN context.byNamespace
      BY <2>2, <2>6
    <3> HIDE DEF key
    <3>2. /\ other \in context.used /\ twin.kind = "namespace"
          /\ << twin.namespace, twin.name >> = key
      BY <3>1 DEF NInv, CInv, Agreeing
    <3> HIDE DEF twin, spec
    <3>3. twin.namespace = spec.namespace /\ twin.name = spec.name
      BY <3>2 DEF key
    <3>4. Original(twin) = Original(spec)
      BY <2>6, <3>2, <3>3 DEF Original
    <3>5. context.reverse[other] = context.reverse[chat]
      BY <2>1, <2>2, <3>2, <3>4 DEF twin, spec
    <3>6. other = chat
      BY <2>4, <3>2, <3>5
    <3> HIDE DEF other
    <3>7. ReplayNames(spec) = { context.byNamespace[key] }
      BY <2>6, <3>1 DEF ReplayNames, key
    <3> QED BY <2>3, <3>6, <3>7 DEF other
  <2>7. CASE spec.kind # "tool_search" /\ spec.kind # "namespace"
    <3> DEFINE known == { x \in DOMAIN context.reverse : context.reverse[x] = spec.name }
    <3>1. context.reverse[chat] = spec.name
      BY <2>1, <2>2, <2>7 DEF Original
    <3>2. known = { chat }
      BY <2>1, <2>4, <3>1
    <3>3. ReplayNames(spec) = IF known = {} THEN { spec.name } ELSE known
      BY <2>7 DEF ReplayNames
    <3> HIDE DEF known, spec
    <3> QED BY <2>3, <3>2, <3>3
  <2> QED BY <2>5, <2>6, <2>7
<1> QED BY <1>1, NInvHolds, PTL
==============================================================================
