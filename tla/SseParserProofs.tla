--------------------------- MODULE SseParserProofs ---------------------------
(***************************************************************************)
(* The framing of an event stream does not depend on how its body is cut.  *)
(*                                                                         *)
(* The parser is defined by recursion over bytes and over blocks.  The     *)
(* proofs use induction in the form of a set of numbers that holds 0 and   *)
(* with each number the next (Naturals), show with it that the recursive   *)
(* definitions have a solution, and then work with their equations only.   *)
(***************************************************************************)
EXTENDS SseParser, SequenceTheorems, WellFoundedInduction, TLAPS

\* The order of the naturals, as a relation, is well founded.
LEMMA SmallerIsWellFounded == IsWellFoundedOn({ p \in Nat \X Nat : p[1] < p[2] }, Nat)
<1>1. IsWellFoundedOn(OpToRel(<, Nat), Nat)
  BY NatLessThanWellFounded
<1>2. { p \in Nat \X Nat : p[1] < p[2] } = OpToRel(<, Nat)
  BY DEF OpToRel
<1> QED BY <1>1, <1>2

\* A set of numbers that is not empty has a least one.
LEMMA Least ==
    ASSUME NEW T \in SUBSET Nat, T # {}
    PROVE  \E x \in T : \A y \in T : x <= y
<1> DEFINE R == { p \in Nat \X Nat : p[1] < p[2] }
<1>1. PICK x \in T : \A y \in T : ~(<< y, x >> \in R)
  <2>1. IsWellFoundedOn(R, Nat)
    BY SmallerIsWellFounded
  <2> HIDE DEF R
  <2> QED BY <2>1, WFMin
<1>2. \A y \in T : ~(y < x)
  BY <1>1
<1> QED BY <1>2

(***************************************************************************)
(* Induction: a set that holds 0, and with each number the next, holds all *)
(* numbers.                                                                *)
(***************************************************************************)
LEMMA AllNumbers ==
    ASSUME NEW Q \in SUBSET Nat, 0 \in Q, \A n \in Q : n + 1 \in Q
    PROVE  Q = Nat
<1>1. SUFFICES ASSUME Nat \ Q # {} PROVE FALSE
  OBVIOUS
<1>2. PICK x \in Nat \ Q : \A y \in Nat \ Q : x <= y
  BY <1>1, Least
<1>3. CASE x = 0
  BY <1>2, <1>3
<1>4. CASE x # 0
  <2>1. x - 1 \in Nat /\ ~(x <= x - 1) /\ (x - 1) + 1 = x
    BY <1>4
  <2>2. x - 1 \in Q
    BY <1>2, <2>1
  <2> QED BY <1>2, <2>1, <2>2
<1> QED BY <1>3, <1>4

\* A bounded set of numbers that is not empty has a greatest one.
LEMMA Greatest ==
    ASSUME NEW T \in SUBSET Nat, T # {}, NEW N \in Nat, \A k \in T : k <= N
    PROVE  \E x \in T : \A y \in T : y <= x
<1> DEFINE U == { n \in Nat : \A k \in T : k <= n }
<1>1. PICK x \in U : \A y \in U : x <= y
  <2>1. U \in SUBSET Nat /\ U # {}
    OBVIOUS
  <2> HIDE DEF U
  <2> QED BY <2>1, Least
<1>2. x \in T
  <2>1. SUFFICES ASSUME x \notin T PROVE FALSE
    OBVIOUS
  <2>2. x - 1 \in Nat /\ ~(x <= x - 1)
    <3>1. CASE x = 0
      <4>1. PICK k \in T : k <= 0
        BY <3>1
      <4> QED BY <2>1, <3>1, <4>1
    <3> QED BY <3>1
  <2>3. \A k \in T : k <= x - 1
    BY <2>1
  <2> QED BY <1>1, <2>2, <2>3
<1> QED BY <1>2

\* A function on the first numbers is a sequence.
LEMMA FirstNumbers ==
    ASSUME NEW S, NEW n \in Nat, NEW f \in [ 1 .. n -> S ]
    PROVE  f \in Seq(S) /\ Len(f) = n
<1>1. f \in Seq(S)
  BY SeqDef
<1>2. DOMAIN f = 1 .. Len(f) /\ Len(f) \in Nat /\ DOMAIN f = 1 .. n
  BY <1>1
<1>3. 1 .. Len(f) = 1 .. n
  BY <1>2
<1>4. \A i, j \in Nat : 1 .. i = 1 .. j => i = j
  <2>1. ASSUME NEW i \in Nat, NEW j \in Nat, 1 .. i = 1 .. j, i < j PROVE FALSE
    <3>1. j \in 1 .. j /\ j \notin 1 .. i
      BY <2>1
    <3> QED BY <2>1, <3>1
  <2> QED BY <2>1
<1> QED BY <1>1, <1>2, <1>3, <1>4, Zenon

\* A sequence that has one element more.
LEMMA OneMore ==
    ASSUME NEW S, NEW s \in Seq(S), NEW r \in Seq(S), NEW x \in S, Len(r) = Len(s) + 1,
           \A i \in 1 .. Len(s) : r[i] = s[i], r[Len(s) + 1] = x
    PROVE  r = Append(s, x)
<1>1. /\ Append(s, x) \in Seq(S) /\ Len(Append(s, x)) = Len(s) + 1
      /\ \A i \in 1 .. Len(s) : Append(s, x)[i] = s[i]
      /\ Append(s, x)[Len(s) + 1] = x
  BY AppendProperties
<1>2. \A i \in 1 .. Len(s) + 1 : i \in 1 .. Len(s) \/ i = Len(s) + 1
  OBVIOUS
<1>3. \A i \in 1 .. Len(r) : r[i] = Append(s, x)[i]
  BY <1>1, <1>2
<1> QED BY <1>1, <1>3, SeqEqual

\* A set of sequences that has the empty one, and with each its extensions, has all.
LEMMA AllSequences ==
    ASSUME NEW S, NEW Q \in SUBSET Seq(S), << >> \in Q, \A s \in Q : \A x \in S : Append(s, x) \in Q
    PROVE  Q = Seq(S)
<1> DEFINE N == { n \in Nat : \A s \in Seq(S) : Len(s) = n => s \in Q }
<1>1. 0 \in N
  <2>1. \A s \in Seq(S) : Len(s) = 0 => s = << >>
    BY EmptySeq
  <2> QED BY <2>1
<1>2. ASSUME NEW n \in N PROVE n + 1 \in N
  <2>1. ASSUME NEW s \in Seq(S), Len(s) = n + 1 PROVE s \in Q
    <3>1. s # << >>
      BY <2>1
    <3>2. PICK t \in Seq(S), x \in S : s = Append(t, x)
      BY <3>1, SequenceEmptyOrAppend
    <3>3. Len(t) = n /\ Len(t) \in Nat
      BY <2>1, <3>2, AppendProperties
    <3>4. t \in Q
      BY <3>3
    <3> QED BY <3>2, <3>4
  <2> QED BY <2>1
<1>3. N = Nat
  <2>1. N \in SUBSET Nat
    OBVIOUS
  <2> HIDE DEF N
  <2> QED BY <1>1, <1>2, <2>1, AllNumbers
<1>4. ASSUME NEW s \in Seq(S) PROVE s \in Q
  <2>1. Len(s) \in N
    BY <1>3
  <2> QED BY <2>1
<1> QED BY <1>4

\* The same for texts: what holds of the empty one, and is kept by one byte more, holds.
LEMMA AllTexts ==
    ASSUME NEW Q \in SUBSET Seq(Bytes), << >> \in Q,
           \A s \in Q : \A b \in Bytes : Append(s, b) \in Q
    PROVE  Q = Seq(Bytes)
  BY AllSequences

------------------------------------------------------------------------------
(***************************************************************************)
(* Sequences that are put together (FlattenSeq).                           *)
(***************************************************************************)

\* f[n] is the first n of the sequences put together.
Flattens(f, seqs, n) ==
    f = [ i \in 1 .. n |-> IF i = 1 THEN seqs[i] ELSE f[i - 1] \o seqs[i] ]

\* Such an f exists.
LEMMA FlattensExist ==
    ASSUME NEW seqs, NEW n \in Nat
    PROVE  \E f : Flattens(f, seqs, n)
<1> DEFINE Q == { m \in Nat : \E f : Flattens(f, seqs, m) }
<1>1. 0 \in Q
  <2> DEFINE f == [ i \in 1 .. 0 |-> seqs[i] ]
  <2>1. Flattens(f, seqs, 0)
    BY DEF Flattens
  <2> HIDE DEF f
  <2> QED BY <2>1
<1>2. ASSUME NEW m \in Q PROVE m + 1 \in Q
  <2>1. PICK f : Flattens(f, seqs, m)
    OBVIOUS
  <2> DEFINE g == [ i \in 1 .. m + 1 |-> IF i = 1 THEN seqs[i] ELSE f[i - 1] \o seqs[i] ]
  <2>2. ASSUME NEW i \in 1 .. m + 1, i # 1 PROVE g[i - 1] = f[i - 1]
    <3>1. i - 1 \in 1 .. m /\ i - 1 \in 1 .. m + 1
      BY <2>2
    <3>2. f[i - 1] = IF i - 1 = 1 THEN seqs[i - 1] ELSE f[(i - 1) - 1] \o seqs[i - 1]
      BY <2>1, <3>1 DEF Flattens
    <3> QED BY <3>1, <3>2
  <2>3. Flattens(g, seqs, m + 1)
    BY <2>2 DEF Flattens
  <2> HIDE DEF g
  <2> QED BY <2>3
<1>3. Q = Nat
  <2>1. Q \in SUBSET Nat
    OBVIOUS
  <2> HIDE DEF Q
  <2> QED BY <1>1, <1>2, <2>1, AllNumbers
<1> QED BY <1>3

\* Its first values depend on the first sequences only.
LEMMA FlattensAgree ==
    ASSUME NEW s, NEW t, NEW n \in Nat, NEW m \in Nat, NEW f, NEW g, Flattens(f, s, n), Flattens(g, t, m),
           NEW k \in 1 .. n, k \in 1 .. m, \A i \in 1 .. k : s[i] = t[i]
    PROVE  f[k] = g[k]
<1> DEFINE T == { i \in 1 .. k : f[i] # g[i] }
<1>1. SUFFICES ASSUME T # {} PROVE FALSE
  OBVIOUS
<1>2. PICK x \in T : \A y \in T : x <= y
  <2>1. T \in SUBSET Nat
    OBVIOUS
  <2> HIDE DEF T
  <2> QED BY <1>1, <2>1, Least
<1>3. x \in 1 .. n /\ x \in 1 .. m
  OBVIOUS
<1>4. /\ f[x] = IF x = 1 THEN s[x] ELSE f[x - 1] \o s[x]
      /\ g[x] = IF x = 1 THEN t[x] ELSE g[x - 1] \o t[x]
  BY <1>3 DEF Flattens
<1>5. x # 1 => f[x - 1] = g[x - 1]
  BY <1>2
<1> QED BY <1>4, <1>5

\* What FlattenSeq is the last value of.
LEMMA FlattenIs ==
    ASSUME NEW seqs, Len(seqs) \in Nat, Len(seqs) # 0
    PROVE  \E f : Flattens(f, seqs, Len(seqs)) /\ FlattenSeq(seqs) = f[Len(seqs)]
<1> DEFINE f == CHOOSE g : Flattens(g, seqs, Len(seqs))
<1>1. Flattens(f, seqs, Len(seqs))
  BY FlattensExist
<1>2. FlattenSeq(seqs) = f[Len(seqs)]
  BY DEF FlattenSeq, Flattens
<1> QED BY <1>1, <1>2

(***************************************************************************)
(* One sequence more.                                                      *)
(***************************************************************************)
LEMMA FlattenAppend ==
    ASSUME NEW S, NEW seqs \in Seq(Seq(S)), NEW s \in Seq(S)
    PROVE  FlattenSeq(Append(seqs, s)) = FlattenSeq(seqs) \o s
<1> DEFINE more == Append(seqs, s)
           n == Len(seqs)
<1>1. /\ n \in Nat /\ Len(more) = n + 1 /\ more[n + 1] = s /\ \A i \in 1 .. n : more[i] = seqs[i]
  BY AppendProperties
<1> HIDE DEF more
<1>2. Len(more) \in Nat /\ Len(more) # 0
  BY <1>1
<1>3. PICK g : Flattens(g, more, n + 1) /\ FlattenSeq(more) = g[n + 1]
  BY <1>1, <1>2, FlattenIs
<1>4. CASE n = 0
  <2>1. FlattenSeq(seqs) = << >>
    <3>1. seqs = << >>
      BY <1>4
    <3> QED BY <1>4, <3>1 DEF FlattenSeq
  <2>2. g[n + 1] = s
    BY <1>1, <1>3, <1>4 DEF Flattens
  <2>3. << >> \o s = s
    BY ConcatEmptySeq
  <2> QED BY <1>3, <2>1, <2>2, <2>3 DEF more
<1>5. CASE n # 0
  <2>1. PICK f : Flattens(f, seqs, n) /\ FlattenSeq(seqs) = f[n]
    BY <1>1, <1>5, FlattenIs
  <2>2. n \in 1 .. n /\ n \in 1 .. n + 1 /\ n + 1 \in 1 .. n + 1 /\ n + 1 # 1 /\ (n + 1) - 1 = n
    BY <1>1, <1>5
  <2> HIDE DEF n
  <2>3. f[n] = g[n]
    BY <1>1, <1>3, <2>1, <2>2, FlattensAgree
  <2>4. g[n + 1] = g[n] \o s
    BY <1>1, <1>3, <2>2 DEF Flattens
  <2> QED BY <1>3, <2>1, <2>3, <2>4 DEF more
<1> QED BY <1>4, <1>5

\* No sequence.
LEMMA FlattenNothing == FlattenSeq(<< >>) = << >>
  BY DEF FlattenSeq

\* Two sequences of sequences, one after the other.
LEMMA FlattenConcat ==
    ASSUME NEW S, NEW s \in Seq(Seq(S)), NEW t \in Seq(Seq(S))
    PROVE  /\ FlattenSeq(s) \in Seq(S)
           /\ FlattenSeq(s \o t) = FlattenSeq(s) \o FlattenSeq(t)
<1>1. \A u \in Seq(Seq(S)) : FlattenSeq(u) \in Seq(S)
  <2> DEFINE Q == { u \in Seq(Seq(S)) : FlattenSeq(u) \in Seq(S) }
  <2>1. << >> \in Q
    <3>1. << >> \in Seq(Seq(S)) /\ << >> \in Seq(S)
      OBVIOUS
    <3> QED BY <3>1, FlattenNothing
  <2>2. ASSUME NEW u \in Q, NEW x \in Seq(S) PROVE Append(u, x) \in Q
    <3>1. FlattenSeq(Append(u, x)) = FlattenSeq(u) \o x /\ Append(u, x) \in Seq(Seq(S))
      BY FlattenAppend, AppendProperties
    <3>2. FlattenSeq(u) \o x \in Seq(S)
      BY ConcatProperties
    <3> QED BY <3>1, <3>2
  <2>3. Q \in SUBSET Seq(Seq(S))
    OBVIOUS
  <2> HIDE DEF Q
  <2>4. Q = Seq(Seq(S))
    BY <2>1, <2>2, <2>3, AllSequences
  <2> QED BY <2>4 DEF Q
<1> DEFINE Q == { u \in Seq(Seq(S)) : FlattenSeq(s \o u) = FlattenSeq(s) \o FlattenSeq(u) }
<1>2. << >> \in Q
  <2>1. s \o << >> = s /\ FlattenSeq(s) \o << >> = FlattenSeq(s) /\ << >> \in Seq(Seq(S))
    BY <1>1, ConcatEmptySeq
  <2> QED BY <2>1, FlattenNothing
<1>3. ASSUME NEW u \in Q, NEW x \in Seq(S) PROVE Append(u, x) \in Q
  <2>1. /\ s \o Append(u, x) = Append(s \o u, x) /\ s \o u \in Seq(Seq(S))
        /\ Append(u, x) \in Seq(Seq(S)) /\ u \in Seq(Seq(S))
    OBVIOUS
  <2>2. /\ FlattenSeq(Append(s \o u, x)) = FlattenSeq(s \o u) \o x
        /\ FlattenSeq(Append(u, x)) = FlattenSeq(u) \o x
    BY <2>1, FlattenAppend
  <2>3. FlattenSeq(s \o u) = FlattenSeq(s) \o FlattenSeq(u)
    OBVIOUS
  <2>4. FlattenSeq(s) \in Seq(S) /\ FlattenSeq(u) \in Seq(S)
    BY <1>1, <2>1
  <2>5. (FlattenSeq(s) \o FlattenSeq(u)) \o x = FlattenSeq(s) \o (FlattenSeq(u) \o x)
    BY <2>4, ConcatAssociative, SMTT(30)
  <2> QED BY <2>1, <2>2, <2>3, <2>5
<1>4. Q = Seq(Seq(S))
  <2>1. Q \in SUBSET Seq(Seq(S))
    OBVIOUS
  <2> HIDE DEF Q
  <2> QED BY <1>2, <1>3, <2>1, AllSequences
<1> QED BY <1>1, <1>4

\* One sequence.
LEMMA FlattenOne ==
    ASSUME NEW S, NEW x \in Seq(S)
    PROVE  FlattenSeq(<< x >>) = x
<1>1. << >> \in Seq(Seq(S)) /\ Append(<< >>, x) = << x >> /\ << >> \o x = x
  OBVIOUS
<1>2. FlattenSeq(Append(<< >>, x)) = FlattenSeq(<< >>) \o x
  BY <1>1, FlattenAppend
<1> QED BY <1>1, <1>2, FlattenNothing

\* Nothing comes of empty sequences, but for the last one.
LEMMA FlattenLast ==
    ASSUME NEW S, NEW s \in Seq(Seq(S)), \A i \in 1 .. Len(s) - 1 : s[i] = << >>
    PROVE  FlattenSeq(s) = IF s = << >> THEN << >> ELSE s[Len(s)]
<1> DEFINE Q == { u \in Seq(Seq(S)) : (\A i \in 1 .. Len(u) : u[i] = << >>) => FlattenSeq(u) = << >> }
<1>1. << >> \in Q
  BY FlattenNothing
<1>2. ASSUME NEW u \in Q, NEW x \in Seq(S) PROVE Append(u, x) \in Q
  <2>1. /\ Append(u, x) \in Seq(Seq(S)) /\ Len(Append(u, x)) = Len(u) + 1 /\ Len(u) \in Nat
        /\ \A i \in 1 .. Len(u) : Append(u, x)[i] = u[i]
        /\ Append(u, x)[Len(u) + 1] = x
    BY AppendProperties
  <2>2. SUFFICES ASSUME \A i \in 1 .. Len(Append(u, x)) : Append(u, x)[i] = << >>
                 PROVE  FlattenSeq(Append(u, x)) = << >>
    BY <2>1
  <2>3. \A i \in 1 .. Len(u) : i \in 1 .. Len(u) + 1
    BY <2>1
  <2>4. Len(u) + 1 \in 1 .. Len(u) + 1
    BY <2>1
  <2>5. x = << >> /\ \A i \in 1 .. Len(u) : u[i] = << >>
    BY <2>1, <2>2, <2>3, <2>4
  <2>6. FlattenSeq(u) = << >>
    BY <2>5
  <2>7. FlattenSeq(Append(u, x)) = FlattenSeq(u) \o x
    BY FlattenAppend
  <2>8. << >> \o << >> = << >>
    OBVIOUS
  <2> QED BY <2>5, <2>6, <2>7, <2>8
<1>3. Q = Seq(Seq(S))
  <2>1. Q \in SUBSET Seq(Seq(S))
    OBVIOUS
  <2> HIDE DEF Q
  <2> QED BY <1>1, <1>2, <2>1, AllSequences
<1>4. CASE s = << >>
  BY <1>4, FlattenNothing
<1>5. CASE s # << >>
  <2>1. PICK u \in Seq(Seq(S)), x \in Seq(S) : s = Append(u, x)
    BY <1>5, SequenceEmptyOrAppend
  <2>2. /\ Len(s) = Len(u) + 1 /\ Len(u) \in Nat /\ s[Len(u) + 1] = x
        /\ \A i \in 1 .. Len(u) : s[i] = u[i]
    BY <2>1, AppendProperties
  <2>3. \A i \in 1 .. Len(u) : u[i] = << >>
    BY <2>2, SMTT(30)
  <2>4. FlattenSeq(u) = << >>
    BY <1>3, <2>3
  <2>5. FlattenSeq(s) = FlattenSeq(u) \o x /\ << >> \o x = x
    BY <2>1, FlattenAppend
  <2> QED BY <1>5, <2>2, <2>4, <2>5
<1> QED BY <1>4, <1>5

\* What is in the sequence that is put together is in one of its parts.
LEMMA FlattenElement ==
    ASSUME NEW S, NEW s \in Seq(Seq(S)), NEW i \in DOMAIN FlattenSeq(s)
    PROVE  \E j \in DOMAIN s : \E k \in DOMAIN s[j] : FlattenSeq(s)[i] = s[j][k]
<1> DEFINE In(u, x) == \E j \in DOMAIN u : \E k \in DOMAIN u[j] : x = u[j][k]
           Q == { u \in Seq(Seq(S)) : \A n \in DOMAIN FlattenSeq(u) : In(u, FlattenSeq(u)[n]) }
<1>1. << >> \in Q
  <2>1. DOMAIN FlattenSeq(<< >>) = {} /\ << >> \in Seq(Seq(S))
    BY FlattenNothing
  <2> QED BY <2>1
<1>2. ASSUME NEW u \in Q, NEW x \in Seq(S) PROVE Append(u, x) \in Q
  <2> DEFINE v == Append(u, x)
             w == FlattenSeq(u)
  <2>1. /\ v \in Seq(Seq(S)) /\ DOMAIN v = 1 .. Len(u) + 1 /\ DOMAIN u = 1 .. Len(u) /\ Len(u) \in Nat
        /\ \A j \in 1 .. Len(u) : v[j] = u[j]
        /\ v[Len(u) + 1] = x
    BY AppendProperties
  <2>2. FlattenSeq(v) = w \o x /\ w \in Seq(S)
    BY FlattenAppend, FlattenConcat
  <2>3. \A n \in DOMAIN w : In(u, w[n])
    OBVIOUS
  <2> HIDE DEF v, w
  <2>4. /\ DOMAIN (w \o x) = 1 .. Len(w) + Len(x) /\ DOMAIN w = 1 .. Len(w) /\ DOMAIN x = 1 .. Len(x)
        /\ Len(w) \in Nat /\ Len(x) \in Nat
        /\ \A n \in 1 .. Len(w) + Len(x) : (w \o x)[n] = IF n <= Len(w) THEN w[n] ELSE x[n - Len(w)]
    BY <2>2, ConcatProperties
  <2>5. ASSUME NEW n \in DOMAIN (w \o x) PROVE In(v, (w \o x)[n])
    <3>1. CASE n <= Len(w)
      <4>1. (w \o x)[n] = w[n] /\ n \in DOMAIN w
        BY <2>4, <2>5, <3>1
      <4>2. PICK j \in DOMAIN u : \E k \in DOMAIN u[j] : w[n] = u[j][k]
        BY <2>3, <4>1
      <4>3. j \in DOMAIN v /\ v[j] = u[j]
        BY <2>1, <4>2
      <4> QED BY <4>1, <4>2, <4>3
    <3>2. CASE ~(n <= Len(w))
      <4>1. (w \o x)[n] = x[n - Len(w)] /\ n - Len(w) \in DOMAIN x
        BY <2>4, <2>5, <3>2
      <4>2. Len(u) + 1 \in DOMAIN v
        BY <2>1
      <4> QED BY <2>1, <4>1, <4>2
    <3> QED BY <3>1, <3>2
  <2> HIDE DEF In
  <2>6. \A n \in DOMAIN FlattenSeq(v) : In(v, FlattenSeq(v)[n])
    BY <2>2, <2>5
  <2> QED BY <2>1, <2>6 DEF v
<1>3. Q = Seq(Seq(S))
  <2> HIDE DEF In
  <2>1. Q \in SUBSET Seq(Seq(S))
    OBVIOUS
  <2> HIDE DEF Q
  <2> QED BY <1>1, <1>2, <2>1, AllSequences
<1>4. \A n \in DOMAIN FlattenSeq(s) : In(s, FlattenSeq(s)[n])
  <2> HIDE DEF In
  <2> QED BY <1>3
<1> QED BY <1>4

------------------------------------------------------------------------------
(***************************************************************************)
(* Characters.                                                             *)
(***************************************************************************)

\* f[n] is what the first n bytes owe
Counts(f, bytes) ==
    f = [ n \in 0 .. Len(bytes) |-> IF n = 0 THEN 0 ELSE Owed(f[n - 1], bytes[n]) ]

\* Such an f exists.
LEMMA CountsExist ==
    ASSUME NEW bytes \in Seq(Bytes)
    PROVE  \E f : Counts(f, bytes)
<1> DEFINE Upto(n) == { m \in 0 .. Len(bytes) : m <= n }
           Part(f, n) == f = [ m \in Upto(n) |-> IF m = 0 THEN 0 ELSE Owed(f[m - 1], bytes[m]) ]
           Q == { n \in Nat : \E f : Part(f, n) }
<1>1. 0 \in Q
  <2> DEFINE f == [ m \in Upto(0) |-> 0 ]
  <2>1. Part(f, 0)
    OBVIOUS
  <2> QED BY <2>1
<1>2. ASSUME NEW n \in Q PROVE n + 1 \in Q
  <2>1. PICK f : Part(f, n)
    OBVIOUS
  <2> DEFINE g == [ m \in Upto(n + 1) |-> IF m = 0 THEN 0 ELSE Owed(f[m - 1], bytes[m]) ]
  <2>2. ASSUME NEW m \in Upto(n + 1), m # 0 PROVE g[m - 1] = f[m - 1]
    <3>1. m - 1 \in Upto(n) /\ m - 1 \in Upto(n + 1)
      BY <2>2
    <3>2. f[m - 1] = IF m - 1 = 0 THEN 0 ELSE Owed(f[(m - 1) - 1], bytes[m - 1])
      BY <2>1, <3>1
    <3> QED BY <3>1, <3>2
  <2>3. Part(g, n + 1)
    BY <2>2
  <2>4. n + 1 \in Nat
    OBVIOUS
  <2> HIDE DEF Part
  <2> QED BY <2>3, <2>4
<1>3. Q = Nat
  <2> HIDE DEF Part
  <2>1. Q \in SUBSET Nat
    OBVIOUS
  <2> HIDE DEF Q
  <2> QED BY <1>1, <1>2, <2>1, AllNumbers
<1>4. PICK f : Part(f, Len(bytes))
  <2> HIDE DEF Part
  <2>1. Len(bytes) \in Q
    <3> HIDE DEF Q
    <3> QED BY <1>3
  <2> QED BY <2>1
<1>5. Upto(Len(bytes)) = 0 .. Len(bytes)
  OBVIOUS
<1> QED BY <1>4, <1>5 DEF Counts

\* So Missing is its last value.
LEMMA MissingCounts ==
    ASSUME NEW bytes \in Seq(Bytes)
    PROVE  \E f : Counts(f, bytes) /\ Missing(bytes) = f[Len(bytes)]
<1> DEFINE f == CHOOSE g : Counts(g, bytes)
<1>1. Counts(f, bytes)
  BY CountsExist
<1>2. Missing(bytes) = f[Len(bytes)]
  BY DEF Missing, Counts
<1> QED BY <1>1, <1>2

\* Two texts that agree up to n owe the same after n bytes.
LEMMA SameCounts ==
    ASSUME NEW s \in Seq(Bytes), NEW t \in Seq(Bytes), NEW f, NEW g, Counts(f, s), Counts(g, t),
           NEW n \in Nat, n <= Len(s), n <= Len(t), \A m \in 1 .. n : s[m] = t[m]
    PROVE  f[n] = g[n]
<1> DEFINE Q == { m \in Nat : m <= n => f[m] = g[m] }
<1>1. 0 \in Q
  BY DEF Counts
<1>2. ASSUME NEW m \in Q PROVE m + 1 \in Q
  <2>1. SUFFICES ASSUME m + 1 <= n PROVE f[m + 1] = g[m + 1]
    OBVIOUS
  <2>2. f[m] = g[m] /\ s[m + 1] = t[m + 1] /\ m + 1 \in 0 .. Len(s) /\ m + 1 \in 0 .. Len(t)
    BY <2>1
  <2>3. f[m + 1] = Owed(f[m], s[m + 1]) /\ g[m + 1] = Owed(g[m], t[m + 1])
    BY <2>2 DEF Counts
  <2> QED BY <2>2, <2>3
<1>3. Q = Nat
  <2> HIDE DEF Q
  <2>1. Q \in SUBSET Nat
    BY DEF Q
  <2> QED BY <1>1, <1>2, <2>1, AllNumbers
<1> QED BY <1>3

(***************************************************************************)
(* The equations of Missing.                                               *)
(***************************************************************************)
LEMMA MissingNothing == Missing(<< >>) = 0
<1>1. << >> \in Seq(Bytes) /\ Len(<< >>) = 0
  OBVIOUS
<1>2. PICK f : Counts(f, << >>) /\ Missing(<< >>) = f[Len(<< >>)]
  BY <1>1, MissingCounts
<1> QED BY <1>1, <1>2 DEF Counts

\* One byte more.
LEMMA MissingAppend ==
    ASSUME NEW s \in Seq(Bytes), NEW b \in Bytes
    PROVE  Missing(Append(s, b)) = Owed(Missing(s), b)
<1> DEFINE t == Append(s, b)
<1>1. t \in Seq(Bytes) /\ Len(t) = Len(s) + 1 /\ t[Len(t)] = b /\ \A m \in 1 .. Len(s) : s[m] = t[m]
  OBVIOUS
<1>2. PICK f : Counts(f, s) /\ Missing(s) = f[Len(s)]
  BY MissingCounts
<1>3. PICK g : Counts(g, t) /\ Missing(t) = g[Len(t)]
  BY <1>1, MissingCounts
<1> HIDE DEF t
<1>4. Len(s) \in Nat /\ Len(s) <= Len(t)
  BY <1>1
<1>5. f[Len(s)] = g[Len(s)]
  BY <1>1, <1>2, <1>3, <1>4, SameCounts
<1>6. g[Len(t)] = Owed(g[Len(s)], t[Len(t)])
  BY <1>1, <1>3, <1>4 DEF Counts
<1> QED BY <1>1, <1>2, <1>3, <1>5, <1>6 DEF t

\* What may be missing.
LEMMA MissingValues ==
    ASSUME NEW s \in Seq(Bytes)
    PROVE  Missing(s) \in { 0, 1, 2, Broken }
<1> DEFINE Q == { t \in Seq(Bytes) : Missing(t) \in { 0, 1, 2, Broken } }
<1>1. << >> \in Q
  BY MissingNothing
<1>2. ASSUME NEW t \in Q, NEW b \in Bytes PROVE Append(t, b) \in Q
  <2>1. Missing(Append(t, b)) = Owed(Missing(t), b)
    BY MissingAppend
  <2>2. Append(t, b) \in Seq(Bytes)
    OBVIOUS
  <2> QED BY <2>1, <2>2 DEF Owed, Broken
<1>3. Q = Seq(Bytes)
  <2>1. Q \in SUBSET Seq(Bytes)
    OBVIOUS
  <2> HIDE DEF Q
  <2> QED BY <1>1, <1>2, <2>1, AllTexts
<1> QED BY <1>3

\* Behind whole characters a text owes what it owes by itself.
LEMMA MissingConcat ==
    ASSUME NEW s \in Seq(Bytes), Missing(s) = 0, NEW t \in Seq(Bytes)
    PROVE  Missing(s \o t) = Missing(t)
<1> DEFINE Q == { u \in Seq(Bytes) : Missing(s \o u) = Missing(u) }
<1>1. << >> \in Q
  <2>1. s \o << >> = s /\ << >> \in Seq(Bytes)
    OBVIOUS
  <2> QED BY <2>1, MissingNothing
<1>2. ASSUME NEW u \in Q, NEW b \in Bytes PROVE Append(u, b) \in Q
  <2>1. s \o Append(u, b) = Append(s \o u, b) /\ s \o u \in Seq(Bytes) /\ Append(u, b) \in Seq(Bytes)
    OBVIOUS
  <2>2. Missing(Append(u, b)) = Owed(Missing(u), b)
    BY MissingAppend
  <2>3. Missing(Append(s \o u, b)) = Owed(Missing(s \o u), b)
    BY <2>1, MissingAppend
  <2> QED BY <2>1, <2>2, <2>3
<1>3. Q = Seq(Bytes)
  <2>1. Q \in SUBSET Seq(Bytes)
    OBVIOUS
  <2> HIDE DEF Q
  <2> QED BY <1>1, <1>2, <2>1, AllTexts
<1> QED BY <1>3

\* A broken text stays broken.
LEMMA BrokenStays ==
    ASSUME NEW s \in Seq(Bytes), Missing(s) = Broken, NEW t \in Seq(Bytes)
    PROVE  Missing(s \o t) = Broken
<1> DEFINE Q == { u \in Seq(Bytes) : Missing(s \o u) = Broken }
<1>1. << >> \in Q
  <2>1. s \o << >> = s /\ << >> \in Seq(Bytes)
    OBVIOUS
  <2> QED BY <2>1
<1>2. ASSUME NEW u \in Q, NEW b \in Bytes PROVE Append(u, b) \in Q
  <2>1. s \o Append(u, b) = Append(s \o u, b) /\ s \o u \in Seq(Bytes) /\ Append(u, b) \in Seq(Bytes)
    OBVIOUS
  <2>2. Missing(Append(s \o u, b)) = Owed(Missing(s \o u), b)
    BY <2>1, MissingAppend
  <2>3. Owed(Broken, b) = Broken
    BY DEF Owed, Broken
  <2> QED BY <2>1, <2>2, <2>3
<1>3. Q = Seq(Bytes)
  <2>1. Q \in SUBSET Seq(Bytes)
    OBVIOUS
  <2> HIDE DEF Q
  <2> QED BY <1>1, <1>2, <2>1, AllTexts
<1> QED BY <1>3

(***************************************************************************)
(* Pieces of texts.                                                        *)
(***************************************************************************)

\* Putting texts together is associative.
LEMMA Associates ==
    \A x, y, z \in Seq(Bytes) : (x \o y) \o z = x \o (y \o z)
  BY ConcatAssociative

\* A text is cut in two.
LEMMA Pieces ==
    ASSUME NEW s \in Seq(Bytes), NEW n \in 0 .. Len(s)
    PROVE  /\ SubSeq(s, 1, n) \in Seq(Bytes) /\ Len(SubSeq(s, 1, n)) = n
           /\ From(s, n + 1) \in Seq(Bytes) /\ Len(From(s, n + 1)) = Len(s) - n
           /\ SubSeq(s, 1, n) \o From(s, n + 1) = s
           /\ \A i \in 1 .. n : SubSeq(s, 1, n)[i] = s[i]
           /\ \A i \in 1 .. Len(s) - n : From(s, n + 1)[i] = s[n + i]
<1>1. n \in Int /\ 1 \in Int /\ Len(s) \in Nat /\ n + 1 \in Int /\ 0 <= n /\ n <= Len(s)
  OBVIOUS
<1>2. \A i \in 1 .. Len(s) : s[i] \in Bytes
  BY ElementOfSeq
<1>3. /\ SubSeq(s, 1, n) \in Seq(Bytes) /\ Len(SubSeq(s, 1, n)) = IF 1 <= n THEN n - 1 + 1 ELSE 0
      /\ \A i \in 1 .. n - 1 + 1 : SubSeq(s, 1, n)[i] = s[1 + i - 1]
  <2>1. \A i \in 1 .. n : s[i] \in Bytes
    BY <1>1, <1>2
  <2> QED BY <1>1, <2>1, SubSeqProperties
<1>4. /\ From(s, n + 1) \in Seq(Bytes)
      /\ Len(From(s, n + 1)) = IF n + 1 <= Len(s) THEN Len(s) - (n + 1) + 1 ELSE 0
      /\ \A i \in 1 .. Len(s) - (n + 1) + 1 : From(s, n + 1)[i] = s[(n + 1) + i - 1]
  <2>1. \A i \in (n + 1) .. Len(s) : s[i] \in Bytes
    BY <1>1, <1>2
  <2>2. Len(s) \in Int
    BY <1>1
  <2> QED BY <1>1, <2>1, <2>2, SubSeqProperties DEF From
<1>5. SubSeq(s, 1, n) \o From(s, n + 1) = s
  <2>1. SubSeq(s, 1, n) \o SubSeq(s, n + 1, Len(s)) = SubSeq(s, 1, Len(s))
    <3>1. 1 \in 1 .. Len(s) + 1 /\ n \in 1 - 1 .. Len(s) /\ Len(s) \in n .. Len(s)
      BY <1>1
    <3> QED BY <3>1, ConcatAdjacentSubSeq
  <2> QED BY <2>1, SubSeqFull DEF From
<1>6. Len(SubSeq(s, 1, n)) = n /\ \A i \in 1 .. n : SubSeq(s, 1, n)[i] = s[i]
  <2> DEFINE p == SubSeq(s, 1, n)
  <2>1. /\ Len(p) = IF 1 <= n THEN n - 1 + 1 ELSE 0
        /\ \A i \in 1 .. n - 1 + 1 : p[i] = s[1 + i - 1]
    BY <1>3
  <2> HIDE DEF p
  <2>2. Len(p) = n /\ \A i \in 1 .. n : p[i] = s[i]
    BY <1>1, <2>1
  <2> QED BY <2>2 DEF p
<1>7. Len(From(s, n + 1)) = Len(s) - n /\ \A i \in 1 .. Len(s) - n : From(s, n + 1)[i] = s[n + i]
  <2> DEFINE q == From(s, n + 1)
  <2>1. /\ Len(q) = IF n + 1 <= Len(s) THEN Len(s) - (n + 1) + 1 ELSE 0
        /\ \A i \in 1 .. Len(s) - (n + 1) + 1 : q[i] = s[(n + 1) + i - 1]
    BY <1>4
  <2> HIDE DEF q
  <2>2. Len(q) = Len(s) - n
    BY <1>1, <2>1
  <2>3. ASSUME NEW i \in 1 .. Len(s) - n PROVE q[i] = s[n + i]
    <3>1. i \in 1 .. Len(s) - (n + 1) + 1 /\ (n + 1) + i - 1 = n + i
      BY <1>1
    <3> QED BY <2>1, <3>1
  <2> QED BY <2>2, <2>3 DEF q
<1> QED BY <1>3, <1>4, <1>5, <1>6, <1>7

\* The pieces of a text that goes on.
LEMMA PiecesOfConcat ==
    ASSUME NEW s \in Seq(Bytes), NEW t \in Seq(Bytes)
    PROVE  /\ \A n \in 0 .. Len(s) : /\ SubSeq(s \o t, 1, n) = SubSeq(s, 1, n)
                                     /\ From(s \o t, n + 1) = From(s, n + 1) \o t
           /\ \A n \in 0 .. Len(t) : /\ SubSeq(s \o t, 1, Len(s) + n) = s \o SubSeq(t, 1, n)
                                     /\ From(s \o t, Len(s) + n + 1) = From(t, n + 1)
<1> DEFINE w == s \o t
<1>1. /\ w \in Seq(Bytes) /\ Len(w) = Len(s) + Len(t) /\ Len(s) \in Nat /\ Len(t) \in Nat
      /\ \A i \in 1 .. Len(s) + Len(t) : w[i] = IF i <= Len(s) THEN s[i] ELSE t[i - Len(s)]
  BY ConcatProperties, LenProperties
<1> HIDE DEF w
<1>2. ASSUME NEW n \in 0 .. Len(s)
      PROVE  SubSeq(w, 1, n) = SubSeq(s, 1, n) /\ From(w, n + 1) = From(s, n + 1) \o t
  <2>1. n \in 0 .. Len(w)
    BY <1>1
  <2> DEFINE p == SubSeq(s, 1, n)
             q == From(s, n + 1)
             x == SubSeq(w, 1, n)
             y == From(w, n + 1)
  <2>2. /\ p \in Seq(Bytes) /\ Len(p) = n /\ q \in Seq(Bytes) /\ Len(q) = Len(s) - n
        /\ \A i \in 1 .. n : p[i] = s[i]
        /\ \A i \in 1 .. Len(s) - n : q[i] = s[n + i]
    BY Pieces
  <2>3. /\ x \in Seq(Bytes) /\ Len(x) = n /\ y \in Seq(Bytes) /\ Len(y) = Len(w) - n
        /\ \A i \in 1 .. n : x[i] = w[i]
        /\ \A i \in 1 .. Len(w) - n : y[i] = w[n + i]
    BY <1>1, <2>1, Pieces
  <2> HIDE DEF p, q, x, y
  <2>4. x = p
    <3>1. ASSUME NEW i \in 1 .. n PROVE x[i] = p[i]
      <4>1. x[i] = w[i] /\ p[i] = s[i] /\ i \in 1 .. Len(s) + Len(t) /\ i <= Len(s)
        BY <1>1, <2>2, <2>3
      <4> QED BY <1>1, <4>1
    <3> QED BY <2>2, <2>3, <3>1, SeqEqual
  <2>5. y = q \o t
    <3>1. /\ q \o t \in Seq(Bytes) /\ Len(q \o t) = Len(q) + Len(t)
          /\ \A i \in 1 .. Len(q) + Len(t) : (q \o t)[i] = IF i <= Len(q) THEN q[i] ELSE t[i - Len(q)]
      BY <2>2, ConcatProperties
    <3>2. ASSUME NEW i \in 1 .. Len(w) - n PROVE y[i] = (q \o t)[i]
      <4>1. y[i] = w[n + i] /\ n + i \in 1 .. Len(s) + Len(t) /\ i \in 1 .. Len(q) + Len(t)
        BY <1>1, <2>2, <2>3
      <4>2. CASE i <= Len(q)
        BY <1>1, <2>2, <3>1, <4>1, <4>2
      <4>3. CASE ~(i <= Len(q))
        <5>1. ~(n + i <= Len(s)) /\ i - Len(q) = (n + i) - Len(s)
          BY <1>1, <2>2, <4>3
        <5> QED BY <1>1, <3>1, <4>1, <4>3, <5>1
      <4> QED BY <4>2, <4>3
    <3>3. Len(y) = Len(q \o t)
      BY <1>1, <2>2, <2>3, <3>1
    <3> HIDE DEF w
    <3>4. \A i \in 1 .. Len(y) : y[i] = (q \o t)[i]
      BY <2>3, <3>2
    <3> QED BY <2>3, <3>1, <3>3, <3>4, SeqEqual
  <2> QED BY <2>4, <2>5 DEF p, q, x, y
<1>3. ASSUME NEW n \in 0 .. Len(t)
      PROVE  /\ SubSeq(w, 1, Len(s) + n) = s \o SubSeq(t, 1, n)
             /\ From(w, Len(s) + n + 1) = From(t, n + 1)
  <2>1. Len(s) + n \in 0 .. Len(w)
    BY <1>1
  <2> DEFINE p == SubSeq(t, 1, n)
             q == From(t, n + 1)
             x == SubSeq(w, 1, Len(s) + n)
             y == From(w, Len(s) + n + 1)
  <2>2. /\ p \in Seq(Bytes) /\ Len(p) = n /\ q \in Seq(Bytes) /\ Len(q) = Len(t) - n
        /\ \A i \in 1 .. n : p[i] = t[i]
        /\ \A i \in 1 .. Len(t) - n : q[i] = t[n + i]
    BY Pieces
  <2>3. /\ x \in Seq(Bytes) /\ Len(x) = Len(s) + n /\ y \in Seq(Bytes)
        /\ Len(y) = Len(w) - (Len(s) + n)
        /\ \A i \in 1 .. Len(s) + n : x[i] = w[i]
        /\ \A i \in 1 .. Len(w) - (Len(s) + n) : y[i] = w[(Len(s) + n) + i]
    BY <1>1, <2>1, Pieces
  <2> HIDE DEF p, q, x, y
  <2>4. x = s \o p
    <3>1. /\ s \o p \in Seq(Bytes) /\ Len(s \o p) = Len(s) + Len(p)
          /\ \A i \in 1 .. Len(s) + Len(p) : (s \o p)[i] = IF i <= Len(s) THEN s[i] ELSE p[i - Len(s)]
      BY <2>2, ConcatProperties
    <3>2. ASSUME NEW i \in 1 .. Len(s) + n PROVE x[i] = (s \o p)[i]
      <4>1. x[i] = w[i] /\ i \in 1 .. Len(s) + Len(t) /\ i \in 1 .. Len(s) + Len(p)
        BY <1>1, <2>2, <2>3
      <4>2. CASE i <= Len(s)
        BY <1>1, <3>1, <4>1, <4>2
      <4>3. CASE ~(i <= Len(s))
        <5>1. i - Len(s) \in 1 .. n
          BY <1>1, <4>3
        <5> QED BY <1>1, <2>2, <3>1, <4>1, <4>3, <5>1
      <4> QED BY <4>2, <4>3
    <3>3. Len(x) = Len(s \o p) /\ \A i \in 1 .. Len(x) : x[i] = (s \o p)[i]
      BY <2>2, <2>3, <3>1, <3>2
    <3> QED BY <2>3, <3>1, <3>3, SeqEqual
  <2>5. y = q
    <3>1. Len(y) = Len(q)
      BY <1>1, <2>2, <2>3
    <3>2. ASSUME NEW i \in 1 .. Len(y) PROVE y[i] = q[i]
      <4>1. /\ y[i] = w[(Len(s) + n) + i] /\ (Len(s) + n) + i \in 1 .. Len(s) + Len(t)
            /\ q[i] = t[n + i]
        BY <1>1, <2>2, <2>3, <3>1
      <4>2. ~((Len(s) + n) + i <= Len(s)) /\ ((Len(s) + n) + i) - Len(s) = n + i
        BY <1>1, <2>2, <3>1
      <4> QED BY <1>1, <4>1, <4>2
    <3> QED BY <2>2, <2>3, <3>1, <3>2, SeqEqual
  <2> QED BY <2>4, <2>5 DEF p, q, x, y
<1> QED BY <1>2, <1>3 DEF w

------------------------------------------------------------------------------
(***************************************************************************)
(* The longest prefix that is made of whole characters.                    *)
(***************************************************************************)
Whole(s, n) ==
    /\ n \in 0 .. Len(s)
    /\ Missing(SubSeq(s, 1, n)) = 0
    /\ \A k \in n + 1 .. Len(s) : Missing(SubSeq(s, 1, k)) # 0

\* There is one.
LEMMA ValidIsWhole ==
    ASSUME NEW s \in Seq(Bytes)
    PROVE  Whole(s, ValidUpTo(s))
<1> DEFINE T == { n \in 0 .. Len(s) : Missing(SubSeq(s, 1, n)) = 0 }
<1>1. T \in SUBSET Nat /\ Len(s) \in Nat /\ \A k \in T : k <= Len(s)
  OBVIOUS
<1>2. 0 \in T
  <2>1. SubSeq(s, 1, 0) = << >>
    BY SubSeqEmpty
  <2>2. Missing(SubSeq(s, 1, 0)) = 0
    BY <2>1, MissingNothing
  <2>3. 0 \in 0 .. Len(s)
    BY <1>1
  <2> QED BY <2>2, <2>3
<1>3. PICK n \in T : \A k \in T : k <= n
  <2> HIDE DEF T
  <2> QED BY <1>1, <1>2, Greatest
<1>4. Whole(s, n)
  BY <1>3 DEF Whole
<1>5. \E m \in 0 .. Len(s) : /\ Missing(SubSeq(s, 1, m)) = 0
                             /\ \A k \in m + 1 .. Len(s) : Missing(SubSeq(s, 1, k)) # 0
  BY <1>4 DEF Whole
<1> QED BY <1>5 DEF Whole, ValidUpTo

\* No prefix of whole characters is longer.
LEMMA ValidIsLongest ==
    ASSUME NEW s \in Seq(Bytes), NEW k \in 0 .. Len(s), Missing(SubSeq(s, 1, k)) = 0
    PROVE  k <= ValidUpTo(s)
<1>1. Whole(s, ValidUpTo(s))
  BY ValidIsWhole
<1> QED BY <1>1 DEF Whole

\* There is only one.
LEMMA WholeIsValid ==
    ASSUME NEW s \in Seq(Bytes), NEW n, Whole(s, n)
    PROVE  ValidUpTo(s) = n
<1>1. Whole(s, ValidUpTo(s))
  BY ValidIsWhole
<1> QED BY <1>1 DEF Whole

\* Behind whole characters a text is decoded as if it stood by itself.
LEMMA ValidBehind ==
    ASSUME NEW p \in Seq(Bytes), Missing(p) = 0, NEW t \in Seq(Bytes)
    PROVE  ValidUpTo(p \o t) = Len(p) + ValidUpTo(t)
<1> DEFINE w == p \o t
           n == ValidUpTo(t)
<1>1. w \in Seq(Bytes) /\ Len(w) = Len(p) + Len(t) /\ Len(p) \in Nat /\ Len(t) \in Nat
  OBVIOUS
<1>2. Whole(t, n)
  BY ValidIsWhole
<1>3. ASSUME NEW k \in 0 .. Len(t)
      PROVE  Missing(SubSeq(w, 1, Len(p) + k)) = Missing(SubSeq(t, 1, k))
  <2>1. SubSeq(w, 1, Len(p) + k) = p \o SubSeq(t, 1, k)
    BY PiecesOfConcat
  <2>2. SubSeq(t, 1, k) \in Seq(Bytes)
    BY Pieces
  <2> QED BY <2>1, <2>2, MissingConcat
<1> HIDE DEF w, n
<1>4. n \in 0 .. Len(t) /\ Missing(SubSeq(w, 1, Len(p) + n)) = 0
  BY <1>2, <1>3 DEF Whole
<1>5. ASSUME NEW k \in (Len(p) + n) + 1 .. Len(w) PROVE Missing(SubSeq(w, 1, k)) # 0
  <2>1. k - Len(p) \in n + 1 .. Len(t) /\ k - Len(p) \in 0 .. Len(t) /\ Len(p) + (k - Len(p)) = k
    BY <1>1, <1>4
  <2>2. Missing(SubSeq(w, 1, Len(p) + (k - Len(p)))) = Missing(SubSeq(t, 1, k - Len(p)))
    BY <1>3, <2>1
  <2> QED BY <1>2, <2>1, <2>2 DEF Whole
<1>6. Whole(w, Len(p) + n)
  BY <1>1, <1>4, <1>5 DEF Whole
<1> QED BY <1>1, <1>6, WholeIsValid DEF w, n

\* What is not decoded yet holds no whole character at its start.
LEMMA RestIsUndecoded ==
    ASSUME NEW s \in Seq(Bytes)
    PROVE  /\ ValidUpTo(s) \in 0 .. Len(s)
           /\ Missing(SubSeq(s, 1, ValidUpTo(s))) = 0
           /\ ValidUpTo(From(s, ValidUpTo(s) + 1)) = 0
<1> DEFINE n == ValidUpTo(s)
           p == SubSeq(s, 1, n)
           r == From(s, n + 1)
<1>1. n \in 0 .. Len(s) /\ Missing(p) = 0
  BY ValidIsWhole DEF Whole
<1> HIDE DEF n
<1>2. p \in Seq(Bytes) /\ r \in Seq(Bytes) /\ Len(p) = n /\ p \o r = s
  BY <1>1, Pieces
<1> HIDE DEF p, r
<1>3. ValidUpTo(s) = n + ValidUpTo(r)
  BY <1>1, <1>2, ValidBehind
<1>4. ValidUpTo(r) \in 0 .. Len(r)
  BY <1>2, ValidIsWhole DEF Whole
<1>5. ValidUpTo(r) = 0
  BY <1>1, <1>3, <1>4 DEF n
<1> QED BY <1>1, <1>5 DEF n, p, r

\* More text is decoded where decoding stopped.
LEMMA ValidGoesOn ==
    ASSUME NEW s \in Seq(Bytes), NEW t \in Seq(Bytes)
    PROVE  LET n == ValidUpTo(s)
               r == From(s, n + 1)
               k == ValidUpTo(r \o t)
           IN  /\ ValidUpTo(s \o t) = n + k
               /\ SubSeq(s \o t, 1, n + k) = SubSeq(s, 1, n) \o SubSeq(r \o t, 1, k)
               /\ From(s \o t, n + k + 1) = From(r \o t, k + 1)
<1> DEFINE n == ValidUpTo(s)
           p == SubSeq(s, 1, n)
           r == From(s, n + 1)
           k == ValidUpTo(r \o t)
<1>1. n \in 0 .. Len(s) /\ Missing(p) = 0
  BY RestIsUndecoded
<1> HIDE DEF n
<1>2. p \in Seq(Bytes) /\ r \in Seq(Bytes) /\ Len(p) = n /\ p \o r = s
  BY <1>1, Pieces
<1> HIDE DEF p, r
<1>3. s \o t = p \o (r \o t) /\ r \o t \in Seq(Bytes)
  <2>1. r \o t \in Seq(Bytes)
    BY <1>2, ConcatProperties
  <2>2. (p \o r) \o t = p \o (r \o t)
    BY <1>2, Associates, ZenonT(60)
  <2> HIDE DEF k
  <2> QED BY <1>2, <2>1, <2>2
<1>4. ValidUpTo(p \o (r \o t)) = Len(p) + k
  BY <1>1, <1>2, <1>3, ValidBehind
<1>5. k \in 0 .. Len(r \o t)
  BY <1>3, RestIsUndecoded
<1> HIDE DEF k
<1>6. /\ SubSeq(p \o (r \o t), 1, Len(p) + k) = p \o SubSeq(r \o t, 1, k)
      /\ From(p \o (r \o t), Len(p) + k + 1) = From(r \o t, k + 1)
  BY <1>2, <1>3, <1>5, PiecesOfConcat
<1> QED BY <1>2, <1>3, <1>4, <1>6 DEF n, p, r, k

(***************************************************************************)
(* Only an unfinished character waits, unless the text is broken.          *)
(***************************************************************************)
LEMMA AtMostTwoWait ==
    ASSUME NEW s \in Seq(Bytes), Missing(s) # Broken
    PROVE  Len(s) - ValidUpTo(s) <= 2
<1>1. ValidUpTo(s) \in 0 .. Len(s) /\ Len(s) \in Nat
  BY RestIsUndecoded
<1>2. CASE Len(s) <= 2
  BY <1>1, <1>2
<1>3. CASE ~(Len(s) <= 2)
  <2>1. PICK t \in Seq(Bytes), b \in Bytes : s = Append(t, b)
    <3>1. s # << >>
      BY <1>3
    <3> QED BY <3>1, SequenceEmptyOrAppend
  <2>2. Len(s) = Len(t) + 1 /\ Len(t) \in Nat
    BY <2>1, AppendProperties
  <2>3. PICK u \in Seq(Bytes), c \in Bytes : t = Append(u, c)
    <3>1. t # << >>
      BY <1>3, <2>2
    <3> QED BY <3>1, SequenceEmptyOrAppend
  <2>4. Len(t) = Len(u) + 1 /\ Len(u) \in Nat
    BY <2>3, AppendProperties
  <2>5. SubSeq(s, 1, Len(s)) = s /\ SubSeq(s, 1, Len(t)) = t /\ SubSeq(s, 1, Len(u)) = u
    <3>1. s = t \o << b >> /\ t = u \o << c >> /\ << b >> \in Seq(Bytes) /\ << c >> \in Seq(Bytes)
      BY <2>1, <2>3, AppendIsConcat
    <3>2. \A n \in 0 .. Len(t) : SubSeq(s, 1, n) = SubSeq(t, 1, n)
      BY <3>1, PiecesOfConcat
    <3>3. \A n \in 0 .. Len(u) : SubSeq(t, 1, n) = SubSeq(u, 1, n)
      BY <3>1, PiecesOfConcat
    <3>4. SubSeq(s, 1, Len(s)) = s /\ SubSeq(t, 1, Len(t)) = t /\ SubSeq(u, 1, Len(u)) = u
      BY SubSeqFull
    <3>5. Len(t) \in 0 .. Len(t) /\ Len(u) \in 0 .. Len(t) /\ Len(u) \in 0 .. Len(u)
      BY <2>4
    <3> QED BY <3>2, <3>3, <3>4, <3>5
  <2>6. Missing(s) = Owed(Missing(t), b) /\ Missing(t) = Owed(Missing(u), c)
    BY <2>1, <2>3, MissingAppend
  <2>7. /\ Missing(t) \in { 0, 1, 2, Broken } /\ Missing(u) \in { 0, 1, 2, Broken }
        /\ Missing(s) \in { 0, 1, 2, Broken }
    BY MissingValues
  <2>8. Missing(s) = 0 \/ Missing(t) = 0 \/ Missing(u) = 0
    <3>1. Missing(s) # 0 /\ Missing(t) # 0 => Missing(t) = 2
      BY <2>6, <2>7 DEF Owed, Broken
    <3>2. Missing(t) = 2 => Missing(u) = 0
      BY <2>6, <2>7 DEF Owed, Broken
    <3> QED BY <3>1, <3>2
  <2>9. Len(s) \in 0 .. Len(s) /\ Len(t) \in 0 .. Len(s) /\ Len(u) \in 0 .. Len(s)
    BY <2>2, <2>4
  <2>10. Len(s) <= ValidUpTo(s) \/ Len(t) <= ValidUpTo(s) \/ Len(u) <= ValidUpTo(s)
    BY <2>5, <2>8, <2>9, ValidIsLongest
  <2> QED BY <1>1, <2>2, <2>4, <2>10
<1> QED BY <1>2, <1>3

------------------------------------------------------------------------------
(***************************************************************************)
(* Blank lines.                                                            *)
(***************************************************************************)

\* A blank line of n bytes stands at p.
Blank(text, p, n) ==
    \/ /\ n = 2 /\ p \in 1 .. Len(text) - 1
       /\ text[p] = LF /\ text[p + 1] = LF
    \/ /\ n = 4 /\ p \in 1 .. Len(text) - 3
       /\ text[p] = CR /\ text[p + 1] = LF /\ text[p + 2] = CR /\ text[p + 3] = LF

Blanks(text) == { [ at |-> p, length |-> 2 ] : p \in Found(text, << LF, LF >>) }
                \cup { [ at |-> p, length |-> 4 ] : p \in Found(text, << CR, LF, CR, LF >>) }

\* A delimiter is found where its bytes are.
LEMMA FoundThere ==
    ASSUME NEW text \in Seq(Bytes), NEW d \in Seq(Bytes), NEW p \in 1 .. Len(text)
    PROVE  p \in Found(text, d) <=>
             Len(d) <= Len(text) - p + 1 /\ \A i \in 1 .. Len(d) : d[i] = text[(p - 1) + i]
<1> DEFINE q == From(text, p)
<1>1. Len(text) \in Nat /\ Len(d) \in Nat /\ DOMAIN text = 1 .. Len(text)
  OBVIOUS
<1>2. /\ q \in Seq(Bytes) /\ Len(q) = Len(text) - p + 1
      /\ \A i \in 1 .. Len(text) - p + 1 : q[i] = text[(p - 1) + i]
  <2>1. p - 1 \in 0 .. Len(text) /\ (p - 1) + 1 = p /\ Len(text) - (p - 1) = Len(text) - p + 1
    BY <1>1
  <2>2. /\ From(text, (p - 1) + 1) \in Seq(Bytes)
        /\ Len(From(text, (p - 1) + 1)) = Len(text) - (p - 1)
        /\ \A i \in 1 .. Len(text) - (p - 1) : From(text, (p - 1) + 1)[i] = text[(p - 1) + i]
    BY <2>1, Pieces
  <2> QED BY <2>1, <2>2
<1>3. p \in Found(text, d) <=> IsPrefix(d, q)
  BY <1>1 DEF Found
<1> HIDE DEF q
<1>4. CASE ~(Len(d) <= Len(q))
  BY <1>2, <1>3, <1>4 DEF IsPrefix
<1>5. CASE Len(d) <= Len(q)
  <2> DEFINE u == SubSeq(q, 1, Len(d))
  <2>1. SubSeq(d, 1, Len(d)) = d
    BY SubSeqFull
  <2>2. /\ u \in Seq(Bytes) /\ Len(u) = Len(d) /\ \A i \in 1 .. Len(d) : u[i] = q[i]
    <3>1. Len(d) \in 0 .. Len(q)
      BY <1>1, <1>2, <1>5
    <3> QED BY <1>2, <3>1, Pieces
  <2>3. IsPrefix(d, q) <=> d = u
    BY <1>5, <2>1 DEF IsPrefix
  <2> HIDE DEF u
  <2>4. d = u <=> \A i \in 1 .. Len(d) : d[i] = u[i]
    BY <2>2, SeqEqual
  <2>5. \A i \in 1 .. Len(d) : u[i] = text[(p - 1) + i]
    BY <1>1, <1>2, <1>5, <2>2
  <2> QED BY <1>2, <1>3, <1>5, <2>3, <2>4, <2>5
<1> QED BY <1>4, <1>5

\* So the delimiters that are found are the blank lines.
LEMMA BlanksAre ==
    ASSUME NEW text \in Seq(Bytes)
    PROVE  /\ \A p, n : [ at |-> p, length |-> n ] \in Blanks(text) <=> Blank(text, p, n)
           /\ \A f \in Blanks(text) : f = [ at |-> f.at, length |-> f.length ]
<1>0. Len(text) \in Nat /\ DOMAIN text = 1 .. Len(text)
  OBVIOUS
<1>1. \A p : p \in Found(text, << LF, LF >>) <=> Blank(text, p, 2)
  <2>1. << LF, LF >> \in Seq(Bytes) /\ Len(<< LF, LF >>) = 2
        /\ << LF, LF >>[1] = LF /\ << LF, LF >>[2] = LF
    BY DEF Bytes
  <2> SUFFICES ASSUME NEW p PROVE p \in Found(text, << LF, LF >>) <=> Blank(text, p, 2)
    OBVIOUS
  <2>2. CASE p \notin 1 .. Len(text)
    BY <1>0, <2>2 DEF Found, Blank
  <2>3. CASE p \in 1 .. Len(text)
    <3> DEFINE d == << LF, LF >>
    <3>1. p \in Found(text, d) <=>
            Len(d) <= Len(text) - p + 1 /\ \A i \in 1 .. Len(d) : d[i] = text[(p - 1) + i]
      BY <2>1, <2>3, FoundThere
    <3>2. (\A i \in 1 .. 2 : d[i] = text[(p - 1) + i]) <=> LF = text[p] /\ LF = text[p + 1]
      <4>1. (p - 1) + 1 = p /\ (p - 1) + 2 = p + 1
        BY <1>0, <2>3
      <4>2. \A i \in 1 .. 2 : i = 1 \/ i = 2
        OBVIOUS
      <4> QED BY <2>1, <4>1, <4>2
    <3> HIDE DEF d
    <3>3. p \in Found(text, d) <=> 2 <= Len(text) - p + 1 /\ LF = text[p] /\ LF = text[p + 1]
      BY <2>1, <3>1, <3>2 DEF d
    <3> QED BY <1>0, <2>3, <3>3 DEF Blank, d
  <2> QED BY <2>2, <2>3
<1>2. \A p : p \in Found(text, << CR, LF, CR, LF >>) <=> Blank(text, p, 4)
  <2> DEFINE d == << CR, LF, CR, LF >>
  <2>1. d \in Seq(Bytes) /\ Len(d) = 4 /\ d[1] = CR /\ d[2] = LF /\ d[3] = CR /\ d[4] = LF
    BY DEF Bytes
  <2> SUFFICES ASSUME NEW p PROVE p \in Found(text, d) <=> Blank(text, p, 4)
    OBVIOUS
  <2> HIDE DEF d
  <2>2. CASE p \notin 1 .. Len(text)
    BY <1>0, <2>2 DEF Found, Blank
  <2>3. CASE p \in 1 .. Len(text)
    <3>1. p \in Found(text, d) <=>
            Len(d) <= Len(text) - p + 1 /\ \A i \in 1 .. Len(d) : d[i] = text[(p - 1) + i]
      BY <2>1, <2>3, FoundThere
    <3>2. (\A i \in 1 .. 4 : d[i] = text[(p - 1) + i])
            <=> CR = text[p] /\ LF = text[p + 1] /\ CR = text[p + 2] /\ LF = text[p + 3]
      <4>1. (p - 1) + 1 = p /\ (p - 1) + 2 = p + 1 /\ (p - 1) + 3 = p + 2 /\ (p - 1) + 4 = p + 3
        BY <1>0, <2>3
      <4>2. \A i \in 1 .. 4 : i = 1 \/ i = 2 \/ i = 3 \/ i = 4
        OBVIOUS
      <4> QED BY <2>1, <4>1, <4>2
    <3>3. p \in Found(text, d) <=> /\ 4 <= Len(text) - p + 1
                                   /\ CR = text[p] /\ LF = text[p + 1] /\ CR = text[p + 2] /\ LF = text[p + 3]
      BY <2>1, <3>1, <3>2
    <3> QED BY <1>0, <2>3, <3>3 DEF Blank
  <2> QED BY <2>2, <2>3
<1>3. ASSUME NEW p, NEW n
      PROVE  [ at |-> p, length |-> n ] \in Blanks(text) <=> Blank(text, p, n)
  <2>1. [ at |-> p, length |-> n ] \in Blanks(text) <=>
          \/ p \in Found(text, << LF, LF >>) /\ n = 2
          \/ p \in Found(text, << CR, LF, CR, LF >>) /\ n = 4
    <3>1. \A q, m : [ at |-> p, length |-> n ] = [ at |-> q, length |-> m ] <=> p = q /\ n = m
      OBVIOUS
    <3> QED BY <3>1, Zenon DEF Blanks
  <2> QED BY <1>1, <1>2, <2>1 DEF Blank
<1>4. \A f \in Blanks(text) : f = [ at |-> f.at, length |-> f.length ]
  BY DEF Blanks
<1> QED BY <1>3, <1>4

\* The first blank line.
LEMMA NextIsFirst ==
    ASSUME NEW text \in Seq(Bytes)
    PROVE  /\ HasBlock(text) <=> \E p, n : Blank(text, p, n)
           /\ HasBlock(text) => LET f == NextDelimiter(text)
                                IN  /\ Blank(text, f.at, f.length)
                                    /\ \A p, n : Blank(text, p, n) => f.at <= p
           /\ \A p, n : Blank(text, p, n) /\ (\A q, m : Blank(text, q, m) => p <= q)
                           => NextDelimiter(text) = [ at |-> p, length |-> n ]
<1> DEFINE all == UNION { { [ at |-> p, length |-> Len(d) ] : p \in Found(text, d) } : d \in Delimiters }
           B == Blanks(text)
<1>1. all = B
  <2>1. Len(<< LF, LF >>) = 2 /\ Len(<< CR, LF, CR, LF >>) = 4
    OBVIOUS
  <2>2. all = { [ at |-> p, length |-> Len(<< LF, LF >>) ] : p \in Found(text, << LF, LF >>) }
              \cup { [ at |-> p, length |-> Len(<< CR, LF, CR, LF >>) ] : p \in Found(text, << CR, LF, CR, LF >>) }
    BY DEF Delimiters
  <2> HIDE DEF all
  <2> QED BY <2>1, <2>2 DEF Blanks
<1>2. HasBlock(text) <=> B # {}
  <2>1. HasBlock(text) <=> Found(text, << LF, LF >>) # {} \/ Found(text, << CR, LF, CR, LF >>) # {}
    BY DEF HasBlock, Delimiters
  <2> QED BY <2>1 DEF Blanks
<1>3. NextDelimiter(text) = CHOOSE f \in B : \A g \in B : f.at <= g.at
  BY <1>1 DEF NextDelimiter
<1>4. /\ \A p, n : [ at |-> p, length |-> n ] \in B <=> Blank(text, p, n)
      /\ \A f \in B : f = [ at |-> f.at, length |-> f.length ]
  BY BlanksAre
<1> HIDE DEF all, B
<1>5. HasBlock(text) <=> \E p, n : Blank(text, p, n)
  BY <1>2, <1>4, ZenonT(60)
<1>6. \A p, n : Blank(text, p, n) => p \in Nat
  BY DEF Blank
<1>7. ASSUME B # {} PROVE \E f \in B : \A g \in B : f.at <= g.at
  <2> DEFINE T == { f.at : f \in B }
  <2>1. T \in SUBSET Nat /\ T # {}
    BY <1>4, <1>6, <1>7
  <2>2. PICK x \in T : \A y \in T : x <= y
    <3> HIDE DEF T
    <3> QED BY <2>1, Least
  <2> QED BY <2>2
<1>8. ASSUME HasBlock(text)
      PROVE  LET f == NextDelimiter(text)
             IN  /\ Blank(text, f.at, f.length)
                 /\ \A p, n : Blank(text, p, n) => f.at <= p
  <2> DEFINE f == NextDelimiter(text)
  <2>1. f \in B /\ \A g \in B : f.at <= g.at
    BY <1>2, <1>3, <1>7, <1>8
  <2> HIDE DEF f
  <2>2. Blank(text, f.at, f.length)
    BY <1>4, <2>1
  <2>3. \A p, n : Blank(text, p, n) => f.at <= p
    <3> SUFFICES ASSUME NEW p, NEW n, Blank(text, p, n) PROVE f.at <= p
      OBVIOUS
    <3>1. [ at |-> p, length |-> n ] \in B
      BY <1>4
    <3>2. [ at |-> p, length |-> n ].at = p
      OBVIOUS
    <3> QED BY <2>1, <3>1, <3>2
  <2> QED BY <2>2, <2>3 DEF f
<1>9. ASSUME NEW p, NEW n, Blank(text, p, n), \A q, m : Blank(text, q, m) => p <= q
      PROVE  NextDelimiter(text) = [ at |-> p, length |-> n ]
  <2> DEFINE f == NextDelimiter(text)
  <2>1. f \in B /\ HasBlock(text)
    BY <1>2, <1>3, <1>5, <1>7, <1>9
  <2>2. Blank(text, f.at, f.length) /\ f.at <= p
    BY <1>8, <1>9, <2>1
  <2> HIDE DEF f
  <2>3. f.at = p
    BY <1>6, <1>9, <2>2
  <2>4. f.length = n
    BY <1>9, <2>2, <2>3 DEF Blank, LF, CR
  <2> QED BY <1>4, <2>1, <2>3, <2>4 DEF f
<1> QED BY <1>5, <1>8, <1>9

\* A text with a blank line is a block, the blank line, and what is left.
LEMMA BlockParts ==
    ASSUME NEW text \in Seq(Bytes), HasBlock(text)
    PROVE  LET f == NextDelimiter(text)
               e == f.at + f.length - 1
           IN  /\ f.at \in Nat \ { 0 } /\ f.length \in { 2, 4 } /\ e \in 2 .. Len(text)
               /\ Before(text, f.at) = SubSeq(text, 1, f.at - 1) /\ Before(text, f.at) \in Seq(Bytes)
               /\ AfterBlock(text) = From(text, e + 1)
               /\ AfterBlock(text) \in Seq(Bytes) /\ Len(AfterBlock(text)) < Len(text)
<1> DEFINE f == NextDelimiter(text)
           e == f.at + f.length - 1
<1>1. Blank(text, f.at, f.length) /\ Len(text) \in Nat
  BY NextIsFirst
<1>2. AfterBlock(text) = From(text, f.at + f.length) /\ Before(text, f.at) = SubSeq(text, 1, f.at - 1)
  BY DEF AfterBlock, Before
<1> HIDE DEF f
<1>3. f.at \in Nat \ { 0 } /\ f.length \in { 2, 4 } /\ e \in 2 .. Len(text) /\ f.at - 1 \in 0 .. Len(text)
  BY <1>1 DEF Blank
<1>4. f.at + f.length = e + 1 /\ e \in 0 .. Len(text)
  BY <1>3
<1> HIDE DEF e
<1>5. From(text, e + 1) \in Seq(Bytes) /\ Len(From(text, e + 1)) = Len(text) - e
  BY <1>4, Pieces
<1>6. Len(From(text, e + 1)) < Len(text)
  BY <1>1, <1>3, <1>5
<1>7. SubSeq(text, 1, f.at - 1) \in Seq(Bytes)
  BY <1>3, Pieces
<1> QED BY <1>2, <1>3, <1>4, <1>5, <1>6, <1>7 DEF e, f

\* The first block does not change when the text goes on.
LEMMA BlockGoesOn ==
    ASSUME NEW x \in Seq(Bytes), NEW y \in Seq(Bytes), HasBlock(x)
    PROVE  /\ HasBlock(x \o y)
           /\ Before(x \o y, NextDelimiter(x \o y).at) = Before(x, NextDelimiter(x).at)
           /\ AfterBlock(x \o y) = AfterBlock(x) \o y
<1> DEFINE f == NextDelimiter(x)
           e == f.at + f.length - 1
           w == x \o y
<1>1. /\ f.at \in Nat \ { 0 } /\ f.length \in { 2, 4 } /\ e \in 2 .. Len(x)
      /\ Before(x, f.at) = SubSeq(x, 1, f.at - 1) /\ AfterBlock(x) = From(x, e + 1)
  BY BlockParts
<1>2. Blank(x, f.at, f.length) /\ \A p, n : Blank(x, p, n) => f.at <= p
  BY NextIsFirst
<1>3. /\ w \in Seq(Bytes) /\ Len(w) = Len(x) + Len(y) /\ Len(x) \in Nat /\ Len(y) \in Nat
      /\ \A i \in 1 .. Len(x) : w[i] = x[i]
  <2>1. /\ w \in Seq(Bytes) /\ Len(w) = Len(x) + Len(y) /\ Len(x) \in Nat /\ Len(y) \in Nat
        /\ \A i \in 1 .. Len(x) + Len(y) : w[i] = IF i <= Len(x) THEN x[i] ELSE y[i - Len(x)]
    BY ConcatProperties, LenProperties
  <2> HIDE DEF w
  <2> QED BY <2>1
<1>4. /\ \A n \in 0 .. Len(x) : SubSeq(w, 1, n) = SubSeq(x, 1, n) /\ From(w, n + 1) = From(x, n + 1) \o y
  BY PiecesOfConcat
<1>5. f = [ at |-> f.at, length |-> f.length ]
  <2>1. NextDelimiter(x) = [ at |-> f.at, length |-> f.length ]
    BY <1>2, NextIsFirst
  <2> QED BY <2>1
<1> HIDE DEF f, w
<1>6. Blank(w, f.at, f.length)
  <2>1. CASE f.length = 2
    <3>1. f.at \in 1 .. Len(x) - 1 /\ x[f.at] = LF /\ x[f.at + 1] = LF
      BY <1>2, <2>1 DEF Blank
    <3>2. f.at \in 1 .. Len(x) /\ f.at + 1 \in 1 .. Len(x) /\ f.at \in 1 .. Len(w) - 1
      BY <1>3, <3>1
    <3> QED BY <1>3, <2>1, <3>1, <3>2 DEF Blank
  <2>2. CASE f.length = 4
    <3>1. /\ f.at \in 1 .. Len(x) - 3 /\ x[f.at] = CR /\ x[f.at + 1] = LF
          /\ x[f.at + 2] = CR /\ x[f.at + 3] = LF
      BY <1>2, <2>2 DEF Blank
    <3>2. /\ f.at \in 1 .. Len(x) /\ f.at + 1 \in 1 .. Len(x) /\ f.at + 2 \in 1 .. Len(x)
          /\ f.at + 3 \in 1 .. Len(x) /\ f.at \in 1 .. Len(w) - 3
      BY <1>3, <3>1, SMTT(30)
    <3> QED BY <1>3, <2>2, <3>1, <3>2 DEF Blank
  <2> QED BY <1>1, <2>1, <2>2
<1>7. ASSUME NEW q, NEW m, Blank(w, q, m) PROVE f.at <= q
  <2>1. SUFFICES ASSUME q < f.at PROVE FALSE
    BY <1>1, <1>7 DEF Blank
  <2>2. q \in Nat \ { 0 } /\ q + 1 <= Len(x) /\ w[q] = x[q] /\ w[q + 1] = x[q + 1]
    <3>1. q \in Nat \ { 0 }
      BY <1>3, <1>7 DEF Blank
    <3>2. f.at + 1 <= Len(x)
      BY <1>2, <1>3 DEF Blank
    <3>3. q \in 1 .. Len(x) /\ q + 1 \in 1 .. Len(x)
      BY <1>1, <1>3, <2>1, <3>1, <3>2
    <3> QED BY <1>3, <3>1, <3>3
  <2>3. CASE m = 2
    <3>1. Blank(x, q, 2)
      BY <1>3, <1>7, <2>2, <2>3 DEF Blank
    <3> QED BY <1>1, <1>2, <2>1, <2>2, <3>1
  <2>4. CASE m = 4 /\ q + 3 <= Len(x)
    <3>1. w[q + 2] = x[q + 2] /\ w[q + 3] = x[q + 3] /\ q \in 1 .. Len(x) - 3
      BY <1>3, <2>2, <2>4
    <3>2. Blank(x, q, 4)
      BY <1>7, <2>2, <2>4, <3>1 DEF Blank
    <3> QED BY <1>1, <1>2, <2>1, <2>2, <3>2
  <2>5. CASE m = 4 /\ ~(q + 3 <= Len(x))
    <3>1. f.at = q + 1
      BY <1>1, <1>2, <1>3, <2>1, <2>2, <2>5 DEF Blank
    <3>2. w[q + 1] = LF /\ w[q + 2] = CR
      BY <1>7, <2>5 DEF Blank
    <3>3. x[q + 1] = LF /\ LF # CR
      BY <2>2, <3>2 DEF LF, CR
    <3>4. f.length = 2 /\ x[q + 2] = LF /\ q + 2 \in 1 .. Len(x)
      BY <1>2, <1>3, <2>2, <3>1, <3>3 DEF Blank
    <3> QED BY <1>3, <3>2, <3>3, <3>4
  <2> QED BY <1>7, <2>3, <2>4, <2>5 DEF Blank
<1>8. NextDelimiter(w) = f /\ HasBlock(w)
  <2>1. NextDelimiter(w) = [ at |-> f.at, length |-> f.length ] /\ HasBlock(w)
    BY <1>3, <1>6, <1>7, NextIsFirst
  <2> QED BY <1>5, <2>1
<1>9. Before(w, f.at) = Before(x, f.at)
  <2>1. f.at - 1 \in 0 .. Len(x)
    BY <1>1, <1>3
  <2> QED BY <1>1, <1>4, <2>1 DEF Before
<1>10. AfterBlock(w) = AfterBlock(x) \o y
  <2>1. f.at + f.length = e + 1 /\ e \in 0 .. Len(x)
    BY <1>1
  <2>2. AfterBlock(w) = From(w, e + 1)
    BY <1>8, <2>1 DEF AfterBlock
  <2> QED BY <1>1, <1>4, <2>1, <2>2
<1> QED BY <1>8, <1>9, <1>10 DEF f, w

------------------------------------------------------------------------------
(***************************************************************************)
(* The loop over the buffer.                                               *)
(***************************************************************************)
Pass(d, text) ==
    IF ~HasBlock(text) THEN [ blocks |-> << >>, left |-> text ]
    ELSE [ blocks |-> << Before(text, NextDelimiter(text).at) >> \o d[AfterBlock(text)].blocks,
           left   |-> d[AfterBlock(text)].left ]

Drains(d, S) == d = [ text \in S |-> Pass(d, text) ]

\* Drain is a function that passes over the text again and again, if there is one.
LEMMA DrainChosen == (\E d : Drains(d, Seq(Bytes))) => Drains(Drain, Seq(Bytes))
<1>1. Drain = CHOOSE d : Drains(d, Seq(Bytes))
  BY Zenon DEF Drain, Drains, Pass
<1> QED BY <1>1, Zenon

Short(n) == { text \in Seq(Bytes) : Len(text) <= n }

\* What is left behind a block is shorter.
LEMMA ShorterLeft ==
    ASSUME NEW n \in Nat, NEW text \in Short(n + 1), HasBlock(text)
    PROVE  AfterBlock(text) \in Short(n)
<1>1. AfterBlock(text) \in Seq(Bytes) /\ Len(AfterBlock(text)) < Len(text)
  BY BlockParts DEF Short
<1>2. Len(AfterBlock(text)) \in Nat /\ Len(text) \in Nat /\ Len(text) <= n + 1
  BY <1>1 DEF Short
<1> QED BY <1>1, <1>2 DEF Short

\* For short texts there is one, whatever short means.
LEMMA DrainsShort ==
    ASSUME NEW n \in Nat
    PROVE  \E d : Drains(d, Short(n))
<1> DEFINE Q == { m \in Nat : \E d : Drains(d, Short(m)) }
<1>1. 0 \in Q
  <2> DEFINE d == [ text \in Short(0) |-> [ blocks |-> << >>, left |-> text ] ]
  <2>1. \A text \in Short(0) : ~HasBlock(text)
    <3>1. SUFFICES ASSUME NEW text \in Short(0), HasBlock(text) PROVE FALSE
      OBVIOUS
    <3>2. Len(AfterBlock(text)) < Len(text) /\ AfterBlock(text) \in Seq(Bytes)
      BY <3>1, BlockParts DEF Short
    <3> QED BY <3>2 DEF Short
  <2>2. \A text \in Short(0) : Pass(d, text) = d[text]
    BY <2>1 DEF Pass
  <2>3. Drains(d, Short(0))
    BY <2>2 DEF Drains
  <2> HIDE DEF d
  <2> QED BY <2>3
<1>2. ASSUME NEW m \in Q PROVE m + 1 \in Q
  <2>1. PICK d : Drains(d, Short(m))
    OBVIOUS
  <2> DEFINE g == [ text \in Short(m + 1) |-> Pass(d, text) ]
  <2>2. \A text \in Short(m) : text \in Short(m + 1)
    BY DEF Short
  <2>3. \A text \in Short(m) : g[text] = d[text]
    BY <2>1, <2>2 DEF Drains
  <2>4. ASSUME NEW text \in Short(m + 1) PROVE Pass(d, text) = Pass(g, text)
    <3>1. CASE ~HasBlock(text)
      BY <3>1 DEF Pass
    <3>2. CASE HasBlock(text)
      <4>1. AfterBlock(text) \in Short(m)
        BY <3>2, ShorterLeft
      <4>2. d[AfterBlock(text)] = g[AfterBlock(text)]
        BY <2>3, <4>1
      <4> HIDE DEF g
      <4> QED BY <3>2, <4>2 DEF Pass
    <3> QED BY <3>1, <3>2
  <2>5. Drains(g, Short(m + 1))
    BY <2>4 DEF Drains
  <2> HIDE DEF g
  <2> QED BY <2>5
<1>3. Q = Nat
  <2>1. Q \in SUBSET Nat
    OBVIOUS
  <2> HIDE DEF Q
  <2> QED BY <1>1, <1>2, <2>1, AllNumbers
<1> QED BY <1>3

\* Two of them agree on the texts that are short for both.
LEMMA DrainsAgree ==
    ASSUME NEW n \in Nat, NEW m \in Nat, NEW d, NEW g, Drains(d, Short(n)), Drains(g, Short(m)),
           NEW text \in Short(n), text \in Short(m)
    PROVE  d[text] = g[text]
<1> DEFINE Q == { k \in Nat : \A t \in Short(k) : t \in Short(n) /\ t \in Short(m) => d[t] = g[t] }
<1>1. 0 \in Q
  <2>1. SUFFICES ASSUME NEW t \in Short(0), t \in Short(n), t \in Short(m) PROVE d[t] = g[t]
    OBVIOUS
  <2>2. ~HasBlock(t)
    <3>1. SUFFICES ASSUME HasBlock(t) PROVE FALSE
      OBVIOUS
    <3>2. Len(AfterBlock(t)) < Len(t) /\ AfterBlock(t) \in Seq(Bytes)
      BY <3>1, BlockParts DEF Short
    <3> QED BY <3>2 DEF Short
  <2> QED BY <2>1, <2>2 DEF Drains, Pass
<1>2. ASSUME NEW k \in Q PROVE k + 1 \in Q
  <2>1. SUFFICES ASSUME NEW t \in Short(k + 1), t \in Short(n), t \in Short(m) PROVE d[t] = g[t]
    OBVIOUS
  <2>2. d[t] = Pass(d, t) /\ g[t] = Pass(g, t)
    BY <2>1 DEF Drains
  <2>3. CASE ~HasBlock(t)
    BY <2>2, <2>3 DEF Pass
  <2>4. CASE HasBlock(t)
    <3>1. AfterBlock(t) \in Short(k)
      BY <2>4, ShorterLeft
    <3>2. AfterBlock(t) \in Short(n) /\ AfterBlock(t) \in Short(m)
      <4>1. AfterBlock(t) \in Seq(Bytes) /\ Len(AfterBlock(t)) < Len(t)
        BY <2>4, BlockParts DEF Short
      <4>2. Len(AfterBlock(t)) \in Nat /\ Len(t) \in Nat /\ Len(t) <= n /\ Len(t) <= m
        BY <2>1, <4>1 DEF Short
      <4> QED BY <4>1, <4>2 DEF Short
    <3>3. d[AfterBlock(t)] = g[AfterBlock(t)]
      BY <3>1, <3>2
    <3> QED BY <2>2, <2>4, <3>3 DEF Pass
  <2> QED BY <2>3, <2>4
<1>3. Q = Nat
  <2>1. Q \in SUBSET Nat
    OBVIOUS
  <2> HIDE DEF Q
  <2> QED BY <1>1, <1>2, <2>1, AllNumbers
<1>4. n \in Q
  <2> HIDE DEF Q
  <2> QED BY <1>3
<1> QED BY <1>4

(***************************************************************************)
(* So Drain satisfies its equation.                                        *)
(***************************************************************************)
LEMMA DrainPasses ==
    ASSUME NEW text \in Seq(Bytes)
    PROVE  Drain[text] = Pass(Drain, text)
<1> DEFINE Of(n) == CHOOSE d : Drains(d, Short(n))
           D == [ t \in Seq(Bytes) |-> Of(Len(t))[t] ]
<1>1. \A n \in Nat : Drains(Of(n), Short(n))
  BY DrainsShort
<1> HIDE DEF Of
<1>2. ASSUME NEW t \in Seq(Bytes) PROVE D[t] = Pass(D, t)
  <2>1. Len(t) \in Nat /\ t \in Short(Len(t))
    BY DEF Short
  <2>2. D[t] = Pass(Of(Len(t)), t)
    BY <1>1, <2>1 DEF Drains
  <2>3. CASE ~HasBlock(t)
    BY <2>2, <2>3 DEF Pass
  <2>4. CASE HasBlock(t)
    <3> DEFINE u == AfterBlock(t)
    <3>1. u \in Seq(Bytes) /\ Len(u) < Len(t)
      BY <2>4, BlockParts
    <3> HIDE DEF u
    <3>2. Len(u) \in Nat /\ u \in Short(Len(u)) /\ u \in Short(Len(t))
      BY <2>1, <3>1 DEF Short
    <3>3. Of(Len(u))[u] = Of(Len(t))[u]
      BY <1>1, <2>1, <3>2, DrainsAgree
    <3>4. D[u] = Of(Len(t))[u]
      BY <3>1, <3>3
    <3> HIDE DEF D
    <3> QED BY <2>2, <2>4, <3>4 DEF Pass, u
  <2> QED BY <2>3, <2>4
<1>3. Drains(D, Seq(Bytes))
  <2>1. D = [ t \in Seq(Bytes) |-> D[t] ]
    OBVIOUS
  <2> HIDE DEF D
  <2>2. [ t \in Seq(Bytes) |-> D[t] ] = [ t \in Seq(Bytes) |-> Pass(D, t) ]
    BY <1>2
  <2> QED BY <2>1, <2>2 DEF Drains
<1> HIDE DEF D
<1>4. Drains(Drain, Seq(Bytes))
  BY <1>3, DrainChosen
<1> QED BY <1>4 DEF Drains

\* Putting lists of blocks together.
LEMMA BlocksConcat ==
    /\ \A x, y, z \in Seq(Seq(Bytes)) : (x \o y) \o z = x \o (y \o z)
    /\ \A x \in Seq(Seq(Bytes)) : << >> \o x = x
    /\ \A x, y \in Seq(Seq(Bytes)) : x \o y \in Seq(Seq(Bytes))
    /\ \A x \in Seq(Bytes) : << x >> \in Seq(Seq(Bytes))
    /\ << >> \in Seq(Seq(Bytes))
<1>1. \A x, y, z \in Seq(Seq(Bytes)) : (x \o y) \o z = x \o (y \o z)
  BY ConcatAssociative
<1>2. \A x \in Seq(Seq(Bytes)) : << >> \o x = x
  BY ConcatEmptySeq
<1>3. \A x, y \in Seq(Seq(Bytes)) : x \o y \in Seq(Seq(Bytes))
  BY ConcatProperties
<1> QED BY <1>1, <1>2, <1>3

\* What holds of texts without a block, and of a text when it holds behind its first
\* block, holds of every text.
LEMMA AllTextsByBlocks ==
    ASSUME NEW T \in SUBSET Seq(Bytes),
           \A t \in Seq(Bytes) : ~HasBlock(t) => t \in T,
           \A t \in Seq(Bytes) : HasBlock(t) /\ AfterBlock(t) \in T => t \in T
    PROVE  T = Seq(Bytes)
<1> DEFINE Q == { n \in Nat : \A t \in Short(n) : t \in T }
<1>1. 0 \in Q
  <2>1. ASSUME NEW t \in Short(0) PROVE t \in T
    <3>1. CASE HasBlock(t)
      <4>1. Len(AfterBlock(t)) < Len(t) /\ AfterBlock(t) \in Seq(Bytes)
        BY <3>1, BlockParts DEF Short
      <4> QED BY <4>1 DEF Short
    <3> QED BY <3>1 DEF Short
  <2> QED BY <2>1
<1>2. ASSUME NEW n \in Q PROVE n + 1 \in Q
  <2>1. n \in Nat /\ n + 1 \in Nat /\ \A t \in Short(n) : t \in T
    OBVIOUS
  <2>2. ASSUME NEW t \in Short(n + 1) PROVE t \in T
    <3>1. t \in Seq(Bytes)
      BY DEF Short
    <3>2. HasBlock(t) => AfterBlock(t) \in Short(n)
      BY <2>1, ShorterLeft
    <3> QED BY <2>1, <3>1, <3>2
  <2> QED BY <2>1, <2>2
<1>3. Q = Nat
  <2>1. Q \in SUBSET Nat
    OBVIOUS
  <2> HIDE DEF Q
  <2> QED BY <1>1, <1>2, <2>1, AllNumbers
<1>4. ASSUME NEW t \in Seq(Bytes) PROVE t \in T
  <2>1. Len(t) \in Nat /\ t \in Short(Len(t))
    BY DEF Short
  <2> QED BY <1>3, <2>1
<1> QED BY <1>4

Drained(d) ==
    /\ d = [ blocks |-> d.blocks, left |-> d.left ]
    /\ d.blocks \in Seq(Seq(Bytes)) /\ d.left \in Seq(Bytes) /\ ~HasBlock(d.left)

\* One turn of the loop.
LEMMA DrainTurn ==
    ASSUME NEW t \in Seq(Bytes)
    PROVE  /\ ~HasBlock(t) => Drain[t].blocks = << >> /\ Drain[t].left = t
           /\ HasBlock(t) =>
                /\ Drain[t].blocks = << Before(t, NextDelimiter(t).at) >> \o Drain[AfterBlock(t)].blocks
                /\ Drain[t].left = Drain[AfterBlock(t)].left
           /\ Drain[t] = [ blocks |-> Drain[t].blocks, left |-> Drain[t].left ]
<1> DEFINE b == << Before(t, NextDelimiter(t).at) >>
           d == Drain[AfterBlock(t)]
<1>1. Drain[t] = IF ~HasBlock(t) THEN [ blocks |-> << >>, left |-> t ]
                 ELSE [ blocks |-> b \o d.blocks, left |-> d.left ]
  BY DrainPasses, Zenon DEF Pass
<1> HIDE DEF b, d
<1>2. CASE ~HasBlock(t)
  BY <1>1, <1>2
<1>3. CASE HasBlock(t)
  <2>1. /\ Drain[t].blocks = b \o d.blocks /\ Drain[t].left = d.left
        /\ Drain[t] = [ blocks |-> Drain[t].blocks, left |-> Drain[t].left ]
    BY <1>1, <1>3
  <2> QED BY <1>3, <2>1 DEF b, d
<1> QED BY <1>2, <1>3

\* The loop ends when no block is left.
LEMMA DrainTypes ==
    ASSUME NEW text \in Seq(Bytes)
    PROVE  Drained(Drain[text])
<1> DEFINE T == { t \in Seq(Bytes) : Drained(Drain[t]) }
<1>1. \A t \in Seq(Bytes) : ~HasBlock(t) => t \in T
  BY DrainTurn, BlocksConcat DEF Drained
<1>2. ASSUME NEW t \in Seq(Bytes), HasBlock(t), AfterBlock(t) \in T PROVE t \in T
  <2> DEFINE u == AfterBlock(t)
             b == Before(t, NextDelimiter(t).at)
  <2>1. Drained(Drain[u])
    BY <1>2
  <2>2. b \in Seq(Bytes)
    BY <1>2, BlockParts
  <2>3. /\ Drain[t].blocks = << b >> \o Drain[u].blocks /\ Drain[t].left = Drain[u].left
        /\ Drain[t] = [ blocks |-> Drain[t].blocks, left |-> Drain[t].left ]
    BY <1>2, DrainTurn
  <2> HIDE DEF u, b
  <2>4. << b >> \o Drain[u].blocks \in Seq(Seq(Bytes))
    BY <2>1, <2>2, BlocksConcat DEF Drained
  <2>5. Drained(Drain[t])
    BY <2>1, <2>3, <2>4 DEF Drained
  <2> QED BY <2>5
<1>3. T = Seq(Bytes)
  <2>1. T \in SUBSET Seq(Bytes)
    OBVIOUS
  <2> HIDE DEF T
  <2> QED BY <1>1, <1>2, <2>1, AllTextsByBlocks
<1> QED BY <1>3

\* Text that goes on is framed as if what was left came before it.
GoesOn(x, y) ==
    /\ Drain[x \o y].blocks = Drain[x].blocks \o Drain[Drain[x].left \o y].blocks
    /\ Drain[x \o y].left = Drain[Drain[x].left \o y].left

\* The loop over the buffer does not see where the text was cut.
LEMMA DrainGoesOn ==
    ASSUME NEW x \in Seq(Bytes), NEW y \in Seq(Bytes)
    PROVE  GoesOn(x, y)
<1> DEFINE T == { t \in Seq(Bytes) : GoesOn(t, y) }
<1>1. ASSUME NEW t \in Seq(Bytes), ~HasBlock(t) PROVE t \in T
  <2>1. Drain[t].blocks = << >> /\ Drain[t].left = t
    BY <1>1, DrainTurn
  <2>2. t \o y \in Seq(Bytes)
    BY ConcatProperties
  <2>3. Drain[t \o y].blocks \in Seq(Seq(Bytes))
    BY <2>2, DrainTypes DEF Drained
  <2>4. GoesOn(t, y)
    BY <2>1, <2>3, BlocksConcat DEF GoesOn
  <2> QED BY <2>4
<1>2. ASSUME NEW t \in Seq(Bytes), HasBlock(t), AfterBlock(t) \in T PROVE t \in T
  <2> DEFINE u == AfterBlock(t)
             b == Before(t, NextDelimiter(t).at)
             w == t \o y
             v == Drain[u].left \o y
  <2>1. u \in Seq(Bytes) /\ b \in Seq(Bytes) /\ w \in Seq(Bytes) /\ << b >> \in Seq(Seq(Bytes))
    <3>1. u \in Seq(Bytes) /\ b \in Seq(Bytes)
      BY <1>2, BlockParts
    <3>2. w \in Seq(Bytes)
      BY ConcatProperties
    <3> HIDE DEF u, b, w
    <3> QED BY <3>1, <3>2, BlocksConcat
  <2>2. GoesOn(u, y)
    BY <1>2
  <2>3. Drain[t].blocks = << b >> \o Drain[u].blocks /\ Drain[t].left = Drain[u].left
    BY <1>2, DrainTurn
  <2>4. HasBlock(w) /\ Before(w, NextDelimiter(w).at) = b /\ AfterBlock(w) = u \o y
    BY <1>2, BlockGoesOn
  <2> HIDE DEF u, b, w
  <2>5. Drain[w].blocks = << b >> \o Drain[u \o y].blocks /\ Drain[w].left = Drain[u \o y].left
    BY <2>1, <2>4, DrainTurn, ZenonT(60)
  <2>6. Drain[u].left \in Seq(Bytes) /\ Drain[u].blocks \in Seq(Seq(Bytes))
    BY <2>1, DrainTypes DEF Drained
  <2>7. v \in Seq(Bytes)
    BY <2>6, ConcatProperties
  <2>8. Drain[u \o y].blocks = Drain[u].blocks \o Drain[v].blocks /\ Drain[u \o y].left = Drain[v].left
    BY <2>2 DEF GoesOn
  <2>9. Drain[t].left \o y = v
    BY <2>3
  <2> HIDE DEF v
  <2>10. Drain[v].blocks \in Seq(Seq(Bytes))
    BY <2>7, DrainTypes DEF Drained
  <2>11. (<< b >> \o Drain[u].blocks) \o Drain[v].blocks = << b >> \o (Drain[u].blocks \o Drain[v].blocks)
    <3>1. \A p, q, r \in Seq(Seq(Bytes)) : (p \o q) \o r = p \o (q \o r)
      BY BlocksConcat
    <3>2. \A q, r \in Seq(Seq(Bytes)) : (<< b >> \o q) \o r = << b >> \o (q \o r)
      BY <2>1, <3>1, Zenon
    <3> QED BY <2>6, <2>10, <3>2, Zenon
  <2>12. Drain[w].blocks = Drain[t].blocks \o Drain[v].blocks /\ Drain[w].left = Drain[v].left
    BY <2>3, <2>5, <2>8, <2>11
  <2>13. GoesOn(t, y)
    BY <2>9, <2>12 DEF w, GoesOn
  <2> QED BY <2>13
<1>3. T = Seq(Bytes)
  <2>1. T \in SUBSET Seq(Bytes)
    OBVIOUS
  <2> HIDE DEF T
  <2> QED BY <1>1, <1>2, <2>1, AllTextsByBlocks
<1> QED BY <1>3

------------------------------------------------------------------------------
(***************************************************************************)
(* The blocks are text.                                                    *)
(***************************************************************************)

\* Before the end of a line no character is unfinished.
LEMMA LineEndIsWhole ==
    ASSUME NEW s \in Seq(Bytes), NEW j \in 1 .. Len(s), Missing(s) = 0, s[j] \in { CR, LF }
    PROVE  Missing(SubSeq(s, 1, j - 1)) = 0 /\ Missing(SubSeq(s, 1, j)) = 0
<1> DEFINE p == SubSeq(s, 1, j - 1)
           q == SubSeq(s, 1, j)
<1>1. Len(s) \in Nat /\ j - 1 \in 0 .. Len(s) /\ j \in 0 .. Len(s) /\ s[j] \in Bytes
  OBVIOUS
<1>2. p \in Seq(Bytes) /\ q \in Seq(Bytes) /\ q \o From(s, j + 1) = s /\ From(s, j + 1) \in Seq(Bytes)
  BY <1>1, Pieces
<1>3. q = Append(p, s[j])
  <2>1. q \in Seq(Bytes) /\ Len(q) = j /\ \A i \in 1 .. j : q[i] = s[i]
    BY <1>1, Pieces
  <2>2. p \in Seq(Bytes) /\ Len(p) = j - 1 /\ \A i \in 1 .. j - 1 : p[i] = s[i]
    BY <1>1, Pieces
  <2> HIDE DEF p, q
  <2>3. /\ Append(p, s[j]) \in Seq(Bytes) /\ Len(Append(p, s[j])) = j
        /\ \A i \in 1 .. j : Append(p, s[j])[i] = s[i]
    BY <1>1, <2>2, AppendProperties
  <2> QED BY <2>1, <2>3, SeqEqual
<1> HIDE DEF p, q
<1>4. Missing(q) = Owed(Missing(p), s[j])
  BY <1>1, <1>2, <1>3, MissingAppend
<1>5. Missing(q) # Broken
  <2>1. SUFFICES ASSUME Missing(q) = Broken PROVE FALSE
    OBVIOUS
  <2> DEFINE r == From(s, j + 1)
  <2>2. q \in Seq(Bytes) /\ r \in Seq(Bytes) /\ q \o r = s
    BY <1>2
  <2> HIDE DEF r
  <2>3. Missing(q \o r) = Broken
    BY <2>1, <2>2, BrokenStays
  <2>4. Missing(s) = Broken
    BY <2>2, <2>3, Zenon
  <2> QED BY <2>4 DEF Broken
<1>6. Missing(p) \in { 0, 1, 2, Broken }
  BY <1>2, MissingValues
<1>7. s[j] # Later /\ s[j] \notin { Lead2, Lead3, Bad }
  BY DEF CR, LF, Later, Lead2, Lead3, Bad
<1>8. Missing(p) = 0
  BY <1>4, <1>5, <1>6, <1>7 DEF Owed, Broken
<1>9. Missing(q) = 0
  BY <1>4, <1>7, <1>8 DEF Owed, Broken
<1> QED BY <1>8, <1>9 DEF p, q

\* So a block of a text and what stands behind it are text.
LEMMA BlockIsWhole ==
    ASSUME NEW t \in Seq(Bytes), HasBlock(t), Missing(t) = 0
    PROVE  Missing(Before(t, NextDelimiter(t).at)) = 0 /\ Missing(AfterBlock(t)) = 0
<1> DEFINE f == NextDelimiter(t)
           e == f.at + f.length - 1
<1>1. /\ f.at \in Nat \ { 0 } /\ f.length \in { 2, 4 } /\ e \in 2 .. Len(t)
      /\ Before(t, f.at) = SubSeq(t, 1, f.at - 1) /\ AfterBlock(t) = From(t, e + 1)
  BY BlockParts
<1>2. Blank(t, f.at, f.length)
  BY NextIsFirst
<1> HIDE DEF f
<1>3. f.at \in 1 .. Len(t) /\ e \in 1 .. Len(t) /\ t[f.at] \in { CR, LF } /\ t[e] \in { CR, LF }
  <2>1. CASE f.length = 2
    <3>1. e = f.at + 1
      BY <1>1, <2>1
    <3> QED BY <1>1, <1>2, <2>1, <3>1 DEF Blank
  <2>2. CASE f.length = 4
    <3>1. e = f.at + 3
      BY <1>1, <2>2
    <3> QED BY <1>1, <1>2, <2>2, <3>1 DEF Blank
  <2> QED BY <1>1, <2>1, <2>2
<1> HIDE DEF e
<1>4. Missing(SubSeq(t, 1, f.at - 1)) = 0 /\ Missing(SubSeq(t, 1, e)) = 0
  BY <1>3, LineEndIsWhole
<1>5. Missing(From(t, e + 1)) = 0
  <2> DEFINE p == SubSeq(t, 1, e)
             r == From(t, e + 1)
  <2>1. p \in Seq(Bytes) /\ r \in Seq(Bytes) /\ p \o r = t
    <3>1. e \in 0 .. Len(t)
      BY <1>3
    <3> QED BY <3>1, Pieces
  <2>2. Missing(p) = 0
    BY <1>4
  <2> HIDE DEF p, r
  <2>3. Missing(p \o r) = Missing(r)
    BY <2>1, <2>2, MissingConcat
  <2> QED BY <2>1, <2>3 DEF r
<1> QED BY <1>1, <1>4, <1>5 DEF f

AllWhole(d) == Missing(d.left) = 0 /\ \A i \in DOMAIN d.blocks : Missing(d.blocks[i]) = 0

\* The loop makes text of text.
LEMMA DrainIsWhole ==
    ASSUME NEW text \in Seq(Bytes), Missing(text) = 0
    PROVE  AllWhole(Drain[text])
<1> DEFINE T == { t \in Seq(Bytes) : Missing(t) = 0 => AllWhole(Drain[t]) }
<1>1. \A t \in Seq(Bytes) : ~HasBlock(t) => t \in T
  <2>1. ASSUME NEW t \in Seq(Bytes), ~HasBlock(t), Missing(t) = 0 PROVE AllWhole(Drain[t])
    <3>1. Drain[t].blocks = << >> /\ Drain[t].left = t
      BY <2>1, DrainTurn
    <3>2. DOMAIN << >> = {}
      OBVIOUS
    <3> QED BY <2>1, <3>1, <3>2 DEF AllWhole
  <2> QED BY <2>1
<1>2. ASSUME NEW t \in Seq(Bytes), HasBlock(t), AfterBlock(t) \in T PROVE t \in T
  <2>1. SUFFICES ASSUME Missing(t) = 0 PROVE AllWhole(Drain[t])
    OBVIOUS
  <2> DEFINE u == AfterBlock(t)
             b == Before(t, NextDelimiter(t).at)
  <2>2. Missing(b) = 0 /\ Missing(u) = 0 /\ b \in Seq(Bytes) /\ u \in Seq(Bytes)
    BY <1>2, <2>1, BlockIsWhole, BlockParts
  <2>3. AllWhole(Drain[u])
    BY <1>2, <2>2
  <2>4. Drain[t].blocks = << b >> \o Drain[u].blocks /\ Drain[t].left = Drain[u].left
    BY <1>2, DrainTurn
  <2> HIDE DEF u, b
  <2> DEFINE rest == Drain[u].blocks
             bs == Drain[t].blocks
  <2>5. rest \in Seq(Seq(Bytes)) /\ \A i \in 1 .. Len(rest) : Missing(rest[i]) = 0
    <3>1. rest \in Seq(Seq(Bytes))
      BY <2>2, DrainTypes DEF Drained
    <3>2. \A i \in DOMAIN rest : Missing(rest[i]) = 0
      BY <2>3 DEF AllWhole
    <3> HIDE DEF rest
    <3> QED BY <3>1, <3>2
  <2>6. bs = << b >> \o rest
    BY <2>4
  <2>7. Missing(Drain[t].left) = 0
    BY <2>3, <2>4 DEF AllWhole
  <2> HIDE DEF rest, bs
  <2>8. ASSUME NEW i \in DOMAIN bs PROVE Missing(bs[i]) = 0
    <3>1. /\ << b >> \in Seq(Seq(Bytes)) /\ Len(<< b >>) = 1
          /\ Len(rest) \in Nat
      BY <2>2, <2>5
    <3>2. i \in 1 .. 1 + Len(rest) /\ bs[i] = IF i <= 1 THEN << b >>[i] ELSE rest[i - 1]
      BY <2>5, <2>6, <3>1, ConcatProperties
    <3>3. CASE i = 1
      BY <2>2, <3>2, <3>3
    <3>4. CASE i # 1
      <4>1. i - 1 \in 1 .. Len(rest) /\ bs[i] = rest[i - 1]
        BY <3>1, <3>2, <3>4
      <4> QED BY <2>5, <4>1
    <3> QED BY <3>3, <3>4
  <2> QED BY <2>7, <2>8 DEF AllWhole, bs
<1>3. T = Seq(Bytes)
  <2>1. T \in SUBSET Seq(Bytes)
    OBVIOUS
  <2> HIDE DEF T
  <2> QED BY <1>1, <1>2, <2>1, AllTextsByBlocks
<1> QED BY <1>3

------------------------------------------------------------------------------
(***************************************************************************)
(* The lines of a text, and the groups of lines between empty lines: what  *)
(* lies between ends.                                                      *)
(***************************************************************************)
\* m is the last end before p
Marks(s, end, p, m) ==
    /\ m \in 0 .. p - 1
    /\ m = 0 \/ s[m] = end
    /\ \A k \in m + 1 .. p - 1 : s[k] # end

\* There is one.
LEMMA MarkExists ==
    ASSUME NEW S, NEW s \in Seq(S), NEW end, NEW p \in 1 .. Len(s) + 1
    PROVE  \E m : Marks(s, end, p, m)
<1> DEFINE T == { q \in 0 .. p - 1 : q = 0 \/ s[q] = end }
<1>1. p \in Nat /\ p - 1 \in Nat /\ Len(s) \in Nat
  OBVIOUS
<1>2. PICK m \in T : \A y \in T : y <= m
  <2>1. T \in SUBSET Nat /\ 0 \in T /\ \A k \in T : k <= p - 1
    BY <1>1
  <2> HIDE DEF T
  <2> QED BY <1>1, <2>1, Greatest
<1>3. ASSUME NEW k \in m + 1 .. p - 1 PROVE s[k] # end
  <2>1. k \in 0 .. p - 1 /\ ~(k <= m)
    BY <1>1, <1>2
  <2> QED BY <1>2, <2>1
<1> QED BY <1>2, <1>3 DEF Marks

\* What lies behind it.
LEMMA SinceIs ==
    ASSUME NEW S, NEW s \in Seq(S), NEW end, NEW p \in 1 .. Len(s) + 1, NEW m, Marks(s, end, p, m)
    PROVE  /\ Since(s, end, p) \in Seq(S) /\ Len(Since(s, end, p)) = (p - 1) - m
           /\ \A i \in 1 .. (p - 1) - m : Since(s, end, p)[i] = s[m + i]
<1> DEFINE T == { 0 } \cup { q \in DOMAIN s : q < p /\ s[q] = end }
<1>1. /\ p \in Nat /\ p - 1 \in Nat /\ Len(s) \in Nat /\ DOMAIN s = 1 .. Len(s) /\ m \in Nat
      /\ m <= p - 1 /\ p - 1 <= Len(s) /\ \A i \in 1 .. Len(s) : s[i] \in S
  BY ElementOfSeq DEF Marks
<1>2. m \in T
  BY <1>1 DEF Marks
<1>3. ASSUME NEW y \in T PROVE y \in Nat /\ m >= y
  <2>1. CASE y = 0
    BY <1>1, <2>1
  <2>2. CASE y \in 1 .. Len(s) /\ y < p /\ s[y] = end
    <3>1. y \notin m + 1 .. p - 1
      BY <2>2 DEF Marks
    <3> QED BY <1>1, <2>2, <3>1
  <2> QED BY <1>1, <2>1, <2>2
<1>4. Max(T) = m
  <2>1. \A x \in T : (\A y \in T : x >= y) => x = m
    <3>1. ASSUME NEW x \in T, \A y \in T : x >= y PROVE x = m
      <4>1. x \in Nat /\ m >= x /\ x >= m
        BY <1>2, <1>3, <3>1
      <4> QED BY <1>1, <4>1
    <3> QED BY <3>1
  <2> HIDE DEF T
  <2>2. \A y \in T : m >= y
    BY <1>3
  <2> QED BY <1>2, <2>1, <2>2 DEF Max
<1>5. Since(s, end, p) = SubSeq(s, m + 1, p - 1)
  BY <1>4 DEF Since
<1> DEFINE r == SubSeq(s, m + 1, p - 1)
<1>6. /\ r \in Seq(S) /\ Len(r) = IF m + 1 <= p - 1 THEN (p - 1) - (m + 1) + 1 ELSE 0
      /\ \A i \in 1 .. (p - 1) - (m + 1) + 1 : r[i] = s[(m + 1) + i - 1]
  <2>1. m + 1 \in Int /\ p - 1 \in Int
    BY <1>1
  <2>2. \A i \in m + 1 .. p - 1 : s[i] \in S
    BY <1>1
  <2> QED BY <2>1, <2>2, SubSeqProperties
<1> HIDE DEF r
<1>7. Len(r) = (p - 1) - m
  BY <1>1, <1>6
<1>8. ASSUME NEW i \in 1 .. (p - 1) - m PROVE r[i] = s[m + i]
  <2>1. i \in 1 .. (p - 1) - (m + 1) + 1 /\ (m + 1) + i - 1 = m + i
    BY <1>1
  <2> QED BY <1>6, <2>1
<1> QED BY <1>5, <1>6, <1>7, <1>8 DEF r

\* s behind m is t behind n
Alike(s, p, m, t, q, n) == p - m = q - n /\ \A i \in 1 .. (p - 1) - m : s[m + i] = t[n + i]

\* Two sequences with the same elements behind the last end.
LEMMA SinceSame ==
    ASSUME NEW S, NEW s \in Seq(S), NEW t \in Seq(S), NEW end,
           NEW p \in 1 .. Len(s) + 1, NEW q \in 1 .. Len(t) + 1, NEW m, NEW n,
           Marks(s, end, p, m), Marks(t, end, q, n), Alike(s, p, m, t, q, n)
    PROVE  Since(s, end, p) = Since(t, end, q)
<1> DEFINE x == Since(s, end, p)
           y == Since(t, end, q)
           Told(w, k, o) == /\ Since(w, end, k) \in Seq(S) /\ Len(Since(w, end, k)) = (k - 1) - o
                            /\ \A i \in 1 .. (k - 1) - o : Since(w, end, k)[i] = w[o + i]
<1>1. ASSUME NEW w \in Seq(S), NEW k \in 1 .. Len(w) + 1, NEW o, Marks(w, end, k, o) PROVE Told(w, k, o)
  BY <1>1, SinceIs
<1> HIDE DEF Told
<1>2. Told(s, p, m) /\ Told(t, q, n)
  BY <1>1
<1>3. /\ x \in Seq(S) /\ Len(x) = (p - 1) - m /\ \A i \in 1 .. (p - 1) - m : x[i] = s[m + i]
  BY <1>2 DEF Told
<1>4. /\ y \in Seq(S) /\ Len(y) = (q - 1) - n /\ \A i \in 1 .. (q - 1) - n : y[i] = t[n + i]
  BY <1>2 DEF Told
<1> HIDE DEF x, y
<1>5. m \in Int /\ n \in Int /\ p \in Int /\ q \in Int
  BY DEF Marks
<1>6. (p - 1) - m = (q - 1) - n
  BY <1>5 DEF Alike
<1>7. Len(x) = Len(y) /\ \A i \in 1 .. Len(x) : x[i] = y[i]
  BY <1>3, <1>4, <1>6 DEF Alike
<1>8. x = y
  BY <1>3, <1>4, <1>7, SeqEqual
<1> QED BY <1>8 DEF x, y

\* Behind an end, and before it, it does not matter what stands on the other side.
LEMMA SinceConcat ==
    ASSUME NEW S, NEW s \in Seq(S), NEW t \in Seq(S), NEW end
    PROVE  /\ \A p \in 1 .. Len(s) : Since(s \o t, end, p) = Since(s, end, p)
           /\ s = << >> \/ s[Len(s)] = end =>
                \A p \in 1 .. Len(t) + 1 : Since(s \o t, end, Len(s) + p) = Since(t, end, p)
<1> DEFINE w == s \o t
           l == Len(s)
<1>1. /\ w \in Seq(S) /\ Len(w) = l + Len(t) /\ l \in Nat /\ Len(t) \in Nat
      /\ \A i \in 1 .. l + Len(t) : w[i] = IF i <= l THEN s[i] ELSE t[i - l]
  BY ConcatProperties
<1> HIDE DEF w, l
<1>2. ASSUME NEW p \in 1 .. l PROVE Since(w, end, p) = Since(s, end, p)
  <2>1. p \in 1 .. Len(s) + 1 /\ p \in 1 .. Len(w) + 1 /\ p \in Nat
    BY <1>1, <1>2 DEF l
  <2>2. PICK m : Marks(s, end, p, m)
    BY <2>1, MarkExists
  <2>3. m \in 0 .. p - 1 /\ \A k \in 1 .. p - 1 : w[k] = s[k]
    BY <1>1, <1>2, <2>2 DEF Marks
  <2>4. \A k \in m + 1 .. p - 1 : k \in 1 .. p - 1
    BY <2>1, <2>3
  <2>5. m = 0 \/ m \in 1 .. p - 1
    BY <2>1, <2>3
  <2>6. Marks(w, end, p, m)
    BY <2>2, <2>3, <2>4, <2>5 DEF Marks
  <2>7. \A i \in 1 .. (p - 1) - m : w[m + i] = s[m + i]
    <3>1. \A i \in 1 .. (p - 1) - m : m + i \in 1 .. p - 1
      BY <2>1, <2>3
    <3> QED BY <2>3, <3>1
  <2>8. Alike(w, p, m, s, p, m)
    BY <2>1, <2>3, <2>7 DEF Alike
  <2> QED BY <1>1, <2>1, <2>2, <2>6, <2>8, SinceSame
<1>3. ASSUME s = << >> \/ s[l] = end, NEW p \in 1 .. Len(t) + 1
      PROVE  Since(w, end, l + p) = Since(t, end, p)
  <2>1. l + p \in 1 .. Len(w) + 1 /\ p \in Nat
    BY <1>1
  <2>2. PICK m : Marks(t, end, p, m)
    BY MarkExists
  <2>3. m \in 0 .. p - 1
    BY <2>2 DEF Marks
  <2>4. \A k \in 1 .. p - 1 : w[l + k] = t[k]
    <3>1. ASSUME NEW k \in 1 .. p - 1 PROVE l + k \in 1 .. l + Len(t) /\ ~(l + k <= l) /\ (l + k) - l = k
      BY <1>1, <2>1
    <3> QED BY <1>1, <3>1
  <2>5. l + m \in 0 .. (l + p) - 1
    BY <1>1, <2>1, <2>3
  <2>6. l + m = 0 \/ w[l + m] = end
    <3>1. CASE m # 0
      BY <2>2, <2>3, <2>4, <3>1 DEF Marks
    <3>2. CASE m = 0 /\ s = << >>
      BY <1>1, <3>2 DEF l
    <3>3. CASE m = 0 /\ s # << >>
      <4>1. s[l] = end /\ l # 0
        BY <1>3, <3>3, EmptySeq DEF l
      <4>2. l \in 1 .. l + Len(t) /\ l <= l /\ l + m = l
        BY <1>1, <3>3, <4>1
      <4> QED BY <1>1, <4>1, <4>2
    <3> QED BY <3>1, <3>2, <3>3
  <2>7. \A k \in (l + m) + 1 .. (l + p) - 1 : w[k] # end
    <3>1. ASSUME NEW k \in (l + m) + 1 .. (l + p) - 1 PROVE w[k] # end
      <4>1. k - l \in m + 1 .. p - 1 /\ k - l \in 1 .. p - 1 /\ l + (k - l) = k
        BY <1>1, <2>1, <2>3
      <4> QED BY <2>2, <2>4, <4>1 DEF Marks
    <3> QED BY <3>1
  <2>8. Marks(w, end, l + p, l + m)
    BY <2>5, <2>6, <2>7 DEF Marks
  <2>9. (l + p) - (l + m) = p - m
    BY <1>1, <2>1, <2>3
  <2>10. \A i \in 1 .. (p - 1) - m : t[m + i] = w[(l + m) + i]
    <3>1. ASSUME NEW i \in 1 .. (p - 1) - m PROVE m + i \in 1 .. p - 1 /\ l + (m + i) = (l + m) + i
      BY <1>1, <2>1, <2>3
    <3> QED BY <2>4, <3>1
  <2>11. Alike(t, p, m, w, l + p, l + m)
    BY <2>9, <2>10 DEF Alike
  <2>12. Since(t, end, p) = Since(w, end, l + p)
    BY <1>1, <2>1, <2>2, <2>8, <2>11, SinceSame
  <2> QED BY <2>12
<1> QED BY <1>2, <1>3 DEF w, l

(***************************************************************************)
(* Lines.                                                                  *)
(***************************************************************************)
\* The line that ends at p, if one does.
LinePart(text, p) ==
    CASE text[p] = LF                   -> << Stripped(Since(text, LF, p)) >>
      [] text[p] # LF /\ p = Len(text) -> << Since(text, LF, p + 1) >>
      [] OTHER                          -> << >>

LineParts(text) == [ p \in DOMAIN text |-> LinePart(text, p) ]

\* A line without its carriage return.
LEMMA StrippedIs ==
    ASSUME NEW r \in Seq(Bytes)
    PROVE  /\ Stripped(r) \in Seq(Bytes)
           /\ Stripped(r) = << >> => r = << >> \/ (Len(r) = 1 /\ r[1] = CR)
           /\ r = << >> \/ r[Len(r)] # CR => Stripped(r) = r /\ Stripped(Append(r, CR)) = r
           /\ Stripped(<< >>) = << >> /\ Stripped(<< CR >>) = << >>
<1>1. \A x \in Seq(Bytes) : \A b \in Bytes : Stripped(Append(x, b)) = IF b = CR THEN x ELSE Append(x, b)
  <2> TAKE x \in Seq(Bytes)
  <2> TAKE b \in Bytes
  <2>1. /\ Append(x, b) \in Seq(Bytes) /\ Len(Append(x, b)) = Len(x) + 1 /\ Len(x) \in Nat
        /\ Append(x, b)[Len(x) + 1] = b /\ Append(x, b) # << >>
    BY AppendProperties
  <2>2. SubSeq(Append(x, b), 1, Len(x)) = x
    <3>1. Append(x, b) = x \o << b >> /\ << b >> \in Seq(Bytes) /\ Len(x) \in 0 .. Len(x)
      BY <2>1
    <3>2. SubSeq(x \o << b >>, 1, Len(x)) = SubSeq(x, 1, Len(x))
      BY <3>1, PiecesOfConcat
    <3> QED BY <3>1, <3>2, SubSeqFull
  <2>3. Last(Append(x, b)) = b /\ Front(Append(x, b)) = x
    BY <2>1, <2>2 DEF Last, Front
  <2> QED BY <2>1, <2>3 DEF Stripped
<1>2. Stripped(<< >>) = << >>
  BY DEF Stripped
<1>3. CASE r = << >>
  <2>1. CR \in Bytes /\ << >> \in Seq(Bytes) /\ << CR >> = Append(<< >>, CR)
    BY DEF Bytes
  <2> QED BY <1>1, <1>2, <1>3, <2>1
<1>4. CASE r # << >>
  <2>1. PICK x \in Seq(Bytes), b \in Bytes : r = Append(x, b)
    BY <1>4, SequenceEmptyOrAppend
  <2>2. Len(r) = Len(x) + 1 /\ Len(x) \in Nat /\ r[Len(r)] = b
    BY <2>1, AppendProperties
  <2>3. Stripped(r) = IF b = CR THEN x ELSE r
    BY <1>1, <2>1
  <2>4. CR \in Bytes /\ << >> \in Seq(Bytes) /\ << CR >> = Append(<< >>, CR)
    BY DEF Bytes
  <2>5. Stripped(Append(r, CR)) = r /\ Stripped(<< CR >>) = << >>
    BY <1>1, <2>4
  <2>6. Stripped(r) = << >> => Len(r) = 1 /\ r[1] = CR
    <3>1. x = << >> => Len(x) = 0
      OBVIOUS
    <3> QED BY <1>4, <2>2, <2>3, <3>1
  <2> QED BY <1>2, <1>4, <2>1, <2>2, <2>3, <2>5, <2>6
<1> QED BY <1>3, <1>4

\* The parts of a text are sequences of lines.
LEMMA LinePartsType ==
    ASSUME NEW text \in Seq(Bytes)
    PROVE  /\ LineParts(text) \in Seq(Seq(Seq(Bytes))) /\ Len(LineParts(text)) = Len(text)
           /\ \A p \in 1 .. Len(text) : LineParts(text)[p] = LinePart(text, p)
           /\ Lines(text) = FlattenSeq(LineParts(text)) /\ Lines(text) \in Seq(Seq(Bytes))
<1>1. \A p \in 1 .. Len(text) + 1 : Since(text, LF, p) \in Seq(Bytes)
  BY MarkExists, SinceIs
<1>2. Len(text) \in Nat /\ DOMAIN text = 1 .. Len(text)
  OBVIOUS
<1>3. ASSUME NEW p \in 1 .. Len(text) PROVE LinePart(text, p) \in Seq(Seq(Bytes))
  <2>1. Since(text, LF, p) \in Seq(Bytes) /\ Since(text, LF, p + 1) \in Seq(Bytes)
    BY <1>1, <1>2
  <2>2. Stripped(Since(text, LF, p)) \in Seq(Bytes)
    BY <2>1, StrippedIs
  <2>3. \A x \in Seq(Bytes) : << x >> \in Seq(Seq(Bytes))
    OBVIOUS
  <2>4. << >> \in Seq(Seq(Bytes))
    OBVIOUS
  <2> QED BY <2>1, <2>2, <2>3, <2>4 DEF LinePart
<1>4. LineParts(text) \in [ 1 .. Len(text) -> Seq(Seq(Bytes)) ]
  BY <1>2, <1>3 DEF LineParts
<1>5. LineParts(text) \in Seq(Seq(Seq(Bytes))) /\ Len(LineParts(text)) = Len(text)
  BY <1>2, <1>4, FirstNumbers
<1>6. Lines(text) = FlattenSeq(LineParts(text))
  BY DEF Lines, LineParts, LinePart
<1>7. \A p \in 1 .. Len(text) : LineParts(text)[p] = LinePart(text, p)
  BY <1>2 DEF LineParts
<1> QED BY <1>5, <1>6, <1>7, FlattenConcat

\* The lines of a text that goes on behind a line end.
LEMMA LinesConcat ==
    ASSUME NEW s \in Seq(Bytes), NEW t \in Seq(Bytes), s = << >> \/ s[Len(s)] = LF
    PROVE  Lines(s \o t) = Lines(s) \o Lines(t)
<1> DEFINE w == s \o t
           l == Len(s)
<1>1. /\ w \in Seq(Bytes) /\ Len(w) = l + Len(t) /\ l \in Nat /\ Len(t) \in Nat
      /\ \A i \in 1 .. l + Len(t) : w[i] = IF i <= l THEN s[i] ELSE t[i - l]
  BY ConcatProperties
<1>2. /\ \A p \in 1 .. l : Since(w, LF, p) = Since(s, LF, p)
      /\ \A p \in 1 .. Len(t) + 1 : Since(w, LF, l + p) = Since(t, LF, p)
  BY SinceConcat
<1>3. l # 0 => s[l] = LF
  BY EmptySeq
<1> HIDE DEF w, l
<1>4. ASSUME NEW p \in 1 .. l PROVE LinePart(w, p) = LinePart(s, p)
  <2>1. w[p] = s[p] /\ Since(w, LF, p) = Since(s, LF, p)
    BY <1>1, <1>2
  <2>2. CASE s[p] = LF
    BY <2>1, <2>2 DEF LinePart
  <2>3. CASE s[p] # LF
    <3>1. p # l /\ p # Len(w)
      BY <1>1, <1>3, <2>3
    <3> QED BY <2>1, <2>3, <3>1 DEF LinePart, l
  <2> QED BY <2>2, <2>3
<1>5. ASSUME NEW p \in 1 .. Len(t) PROVE LinePart(w, l + p) = LinePart(t, p)
  <2>1. w[l + p] = t[p]
    <3>1. l + p \in 1 .. l + Len(t) /\ ~(l + p <= l) /\ (l + p) - l = p
      BY <1>1
    <3> QED BY <1>1, <3>1
  <2>2. /\ p \in 1 .. Len(t) + 1 /\ p + 1 \in 1 .. Len(t) + 1 /\ l + (p + 1) = (l + p) + 1
        /\ (l + p = Len(w) <=> p = Len(t))
    <3> DEFINE k == Len(t)
    <3>1. k \in Nat /\ p \in 1 .. k /\ l \in Nat /\ Len(w) = l + k
      BY <1>1
    <3> HIDE DEF k
    <3>2. /\ p \in 1 .. k + 1 /\ p + 1 \in 1 .. k + 1 /\ l + (p + 1) = (l + p) + 1
          /\ (l + p = l + k <=> p = k)
      BY <3>1
    <3> QED BY <3>1, <3>2 DEF k
  <2>3. Since(w, LF, l + p) = Since(t, LF, p) /\ Since(w, LF, (l + p) + 1) = Since(t, LF, p + 1)
    <3>1. Since(w, LF, l + (p + 1)) = Since(t, LF, p + 1)
      BY <1>2, <2>2
    <3> QED BY <1>2, <2>2, <3>1
  <2> QED BY <2>1, <2>2, <2>3 DEF LinePart
<1> DEFINE a == LineParts(s)
           b == LineParts(t)
           c == LineParts(w)
           L == Seq(Seq(Bytes))
<1>6. /\ a \in Seq(L) /\ Len(a) = l /\ \A p \in 1 .. l : a[p] = LinePart(s, p)
      /\ b \in Seq(L) /\ Len(b) = Len(t) /\ \A p \in 1 .. Len(t) : b[p] = LinePart(t, p)
      /\ c \in Seq(L) /\ Len(c) = Len(w) /\ \A p \in 1 .. Len(w) : c[p] = LinePart(w, p)
  BY <1>1, LinePartsType DEF l
<1>7. FlattenSeq(a) = Lines(s) /\ FlattenSeq(b) = Lines(t) /\ FlattenSeq(c) = Lines(w)
  BY <1>1, LinePartsType
<1> HIDE DEF a, b, c
<1>8. FlattenSeq(a \o b) = FlattenSeq(a) \o FlattenSeq(b)
  BY <1>6, FlattenConcat
<1>9. c = a \o b
  <2> HIDE DEF L
  <2>1. /\ a \o b \in Seq(L) /\ Len(a \o b) = l + Len(t)
        /\ \A i \in 1 .. l + Len(t) : (a \o b)[i] = IF i <= l THEN a[i] ELSE b[i - l]
    <3>1. /\ a \o b \in Seq(L) /\ Len(a \o b) = Len(a) + Len(b)
          /\ \A i \in 1 .. Len(a) + Len(b) : (a \o b)[i] = IF i <= Len(a) THEN a[i] ELSE b[i - Len(a)]
      BY <1>6, ConcatProperties
    <3>2. Len(a) = l /\ Len(b) = Len(t)
      BY <1>6
    <3> QED BY <3>1, <3>2
  <2>2. ASSUME NEW i \in 1 .. l + Len(t) PROVE c[i] = (a \o b)[i]
    <3>1. CASE i <= l
      <4>1. i \in 1 .. l
        BY <1>1, <3>1
      <4> QED BY <1>1, <1>4, <1>6, <2>1, <3>1, <4>1
    <3>2. CASE ~(i <= l)
      <4>1. i - l \in 1 .. Len(t) /\ l + (i - l) = i
        BY <1>1, <3>2
      <4> QED BY <1>1, <1>5, <1>6, <2>1, <3>2, <4>1
    <3> QED BY <3>1, <3>2
  <2> QED BY <1>1, <1>6, <2>1, <2>2, SeqEqual
<1> QED BY <1>7, <1>8, <1>9 DEF w

\* A line alone.
LEMMA LineAlone ==
    ASSUME NEW r \in Seq(Bytes), \A i \in 1 .. Len(r) : r[i] # LF
    PROVE  /\ Lines(r) = IF r = << >> THEN << >> ELSE << r >>
           /\ Lines(Append(r, LF)) = << Stripped(r) >>
<1> DEFINE n == Len(r)
           t == Append(r, LF)
           L == Seq(Seq(Bytes))
<1>1. /\ n \in Nat /\ t \in Seq(Bytes) /\ Len(t) = n + 1 /\ t[n + 1] = LF
      /\ \A i \in 1 .. n : t[i] = r[i]
  <2>1. LF \in Bytes
    BY DEF Bytes
  <2> QED BY <2>1, AppendProperties
<1>2. Since(r, LF, n + 1) = r
  <2>1. Marks(r, LF, n + 1, 0)
    <3>1. 0 \in 0 .. (n + 1) - 1 /\ \A k \in 0 + 1 .. (n + 1) - 1 : k \in 1 .. n
      BY <1>1
    <3> QED BY <3>1 DEF Marks
  <2> DEFINE x == Since(r, LF, n + 1)
  <2>2. x \in Seq(Bytes) /\ Len(x) = ((n + 1) - 1) - 0 /\ \A i \in 1 .. ((n + 1) - 1) - 0 : x[i] = r[0 + i]
    <3>1. n + 1 \in 1 .. Len(r) + 1
      BY <1>1
    <3> QED BY <2>1, <3>1, SinceIs
  <2> HIDE DEF x, n
  <2>3. Len(x) = n /\ \A i \in 1 .. n : x[i] = r[i]
    <3>1. ((n + 1) - 1) - 0 = n /\ \A i \in 1 .. n : 0 + i = i
      BY <1>1
    <3> QED BY <2>2, <3>1
  <2>4. x = r
    BY <2>2, <2>3, SeqEqual DEF n
  <2> QED BY <2>4 DEF x
<1>3. Lines(r) = IF r = << >> THEN << >> ELSE << r >>
  <2> DEFINE a == LineParts(r)
  <2>1. /\ a \in Seq(L) /\ Len(a) = n /\ \A p \in 1 .. n : a[p] = LinePart(r, p)
        /\ Lines(r) = FlattenSeq(a)
    BY LinePartsType
  <2> HIDE DEF a
  <2>2. \A i \in 1 .. Len(a) - 1 : a[i] = << >>
    <3>1. ASSUME NEW i \in 1 .. Len(a) - 1 PROVE a[i] = << >>
      <4>1. i \in 1 .. n /\ i # n
        BY <1>1, <2>1
      <4> QED BY <2>1, <4>1 DEF LinePart
    <3> QED BY <3>1
  <2>3. Lines(r) = IF a = << >> THEN << >> ELSE a[Len(a)]
    BY <2>1, <2>2, FlattenLast
  <2>4. CASE r = << >>
    <3>1. n = 0
      BY <2>4
    <3>2. a = << >>
      BY <2>1, <3>1, EmptySeq
    <3> QED BY <2>3, <2>4, <3>2
  <2>5. CASE r # << >>
    <3>1. n \in 1 .. n /\ n # 0
      BY <1>1, <2>5, EmptySeq
    <3>2. a # << >>
      BY <2>1, <3>1, EmptySeq
    <3>3. a[n] = << Since(r, LF, n + 1) >>
      BY <2>1, <3>1 DEF LinePart
    <3> QED BY <1>2, <2>1, <2>3, <2>5, <3>2, <3>3
  <2> QED BY <2>4, <2>5
<1>4. Since(t, LF, n + 1) = r
  <2>1. Marks(r, LF, n + 1, 0) /\ Marks(t, LF, n + 1, 0)
    <3>1. 0 \in 0 .. (n + 1) - 1 /\ \A k \in 0 + 1 .. (n + 1) - 1 : k \in 1 .. n
      BY <1>1
    <3> QED BY <1>1, <3>1 DEF Marks
  <2>2. Alike(t, n + 1, 0, r, n + 1, 0)
    <3>1. \A i \in 1 .. ((n + 1) - 1) - 0 : i \in 1 .. n /\ 0 + i = i
      BY <1>1
    <3> QED BY <1>1, <3>1 DEF Alike
  <2>3. n + 1 \in 1 .. Len(r) + 1 /\ n + 1 \in 1 .. Len(t) + 1
    BY <1>1
  <2> HIDE DEF t
  <2>4. Since(t, LF, n + 1) = Since(r, LF, n + 1)
    BY <1>1, <2>1, <2>2, <2>3, SinceSame
  <2> QED BY <1>2, <2>4
<1>5. Lines(t) = << Stripped(r) >>
  <2> DEFINE a == LineParts(t)
  <2> HIDE DEF t
  <2>1. /\ a \in Seq(L) /\ Len(a) = n + 1 /\ \A p \in 1 .. n + 1 : a[p] = LinePart(t, p)
        /\ Lines(t) = FlattenSeq(a)
    BY <1>1, LinePartsType
  <2> HIDE DEF a
  <2>2. \A i \in 1 .. Len(a) - 1 : a[i] = << >>
    <3>1. ASSUME NEW i \in 1 .. Len(a) - 1 PROVE a[i] = << >>
      <4>1. i \in 1 .. n /\ i # n + 1 /\ i \in 1 .. n + 1
        BY <1>1, <2>1
      <4> QED BY <1>1, <2>1, <4>1 DEF LinePart
    <3> QED BY <3>1
  <2>3. Lines(t) = IF a = << >> THEN << >> ELSE a[Len(a)]
    BY <2>1, <2>2, FlattenLast
  <2>4. n + 1 \in 1 .. n + 1 /\ a # << >>
    BY <1>1, <2>1, EmptySeq
  <2>5. a[n + 1] = << Stripped(Since(t, LF, n + 1)) >>
    BY <1>1, <2>1, <2>4 DEF LinePart
  <2> QED BY <1>4, <2>1, <2>3, <2>4, <2>5
<1> QED BY <1>3, <1>5

(***************************************************************************)
(* Events.                                                                 *)
(***************************************************************************)
\* What f makes of the elements of s, one after the other.
Each(f, s) == [ n \in DOMAIN s |-> f[s[n]] ]

\* f makes sequences over T of the elements of s and t, which are in S.
MadeOf(S, T, f, s, t) == f \in [ S -> Seq(T) ] /\ s \in Seq(S) /\ t \in Seq(S)

\* It is made of each part of s by itself.
LEMMA EachConcat ==
    ASSUME NEW S, NEW T, NEW f, NEW s, NEW t, MadeOf(S, T, f, s, t)
    PROVE  /\ FlattenSeq(Each(f, s)) \in Seq(T)
           /\ FlattenSeq(Each(f, s \o t)) = FlattenSeq(Each(f, s)) \o FlattenSeq(Each(f, t))
<1>0. f \in [ S -> Seq(T) ] /\ s \in Seq(S) /\ t \in Seq(S)
  BY DEF MadeOf
<1>1. ASSUME NEW u \in Seq(S)
      PROVE  /\ Each(f, u) \in Seq(Seq(T)) /\ Len(Each(f, u)) = Len(u)
             /\ \A i \in 1 .. Len(u) : Each(f, u)[i] = f[u[i]]
  <2>1. DOMAIN u = 1 .. Len(u) /\ Len(u) \in Nat /\ \A n \in 1 .. Len(u) : u[n] \in S
    BY ElementOfSeq
  <2>2. Each(f, u) \in [ 1 .. Len(u) -> Seq(T) ]
    BY <1>0, <2>1 DEF Each
  <2>3. \A i \in 1 .. Len(u) : Each(f, u)[i] = f[u[i]]
    BY <2>1 DEF Each
  <2> QED BY <2>1, <2>2, <2>3, FirstNumbers
<1> DEFINE w == s \o t
           l == Len(s)
           a == Each(f, s)
           b == Each(f, t)
           c == Each(f, w)
<1>2. /\ w \in Seq(S) /\ Len(w) = l + Len(t) /\ l \in Nat /\ Len(t) \in Nat
      /\ \A i \in 1 .. l + Len(t) : w[i] = IF i <= l THEN s[i] ELSE t[i - l]
  BY <1>0, ConcatProperties
<1> HIDE DEF w
<1>3. /\ a \in Seq(Seq(T)) /\ Len(a) = l /\ \A i \in 1 .. l : a[i] = f[s[i]]
      /\ b \in Seq(Seq(T)) /\ Len(b) = Len(t) /\ \A i \in 1 .. Len(t) : b[i] = f[t[i]]
      /\ c \in Seq(Seq(T)) /\ Len(c) = Len(w) /\ \A i \in 1 .. Len(w) : c[i] = f[w[i]]
  BY <1>0, <1>1, <1>2
<1> HIDE DEF a, b, c, l
<1>4. /\ a \o b \in Seq(Seq(T)) /\ Len(a \o b) = l + Len(t)
      /\ \A i \in 1 .. l + Len(t) : (a \o b)[i] = IF i <= l THEN a[i] ELSE b[i - l]
  <2>1. a \in Seq(Seq(T)) /\ b \in Seq(Seq(T)) /\ Len(a) = l /\ Len(b) = Len(t)
    BY <1>3
  <2> DEFINE E == Seq(T)
  <2> HIDE DEF E
  <2>2. a \in Seq(E) /\ b \in Seq(E)
    BY <2>1 DEF E
  <2>3. /\ a \o b \in Seq(E) /\ Len(a \o b) = Len(a) + Len(b)
        /\ \A i \in 1 .. Len(a) + Len(b) : (a \o b)[i] = IF i <= Len(a) THEN a[i] ELSE b[i - Len(a)]
    BY <2>2, ConcatProperties
  <2> QED BY <2>1, <2>3 DEF E
<1>5. ASSUME NEW i \in 1 .. l + Len(t) PROVE c[i] = (a \o b)[i]
  <2>1. CASE i <= l
    <3>1. i \in 1 .. l /\ i \in 1 .. Len(w)
      BY <1>2, <2>1
    <3>2. w[i] = s[i] /\ (a \o b)[i] = a[i]
      BY <1>2, <1>4, <2>1
    <3>3. a[i] = f[s[i]] /\ c[i] = f[w[i]]
      BY <1>3, <3>1
    <3> QED BY <3>2, <3>3
  <2>2. CASE ~(i <= l)
    <3>1. i - l \in 1 .. Len(t) /\ i \in 1 .. Len(w)
      BY <1>2, <2>2
    <3>2. w[i] = t[i - l] /\ (a \o b)[i] = b[i - l]
      BY <1>2, <1>4, <2>2
    <3>3. b[i - l] = f[t[i - l]] /\ c[i] = f[w[i]]
      BY <1>3, <3>1
    <3> QED BY <3>2, <3>3
  <2> QED BY <2>1, <2>2
<1>6. c = a \o b
  BY <1>2, <1>3, <1>4, <1>5, SeqEqual
<1> QED BY <1>3, <1>6, FlattenConcat DEF a, b, c, w

\* What stands behind a prefix in one line.
BehindPart(prefix, line) == IF line # << >> /\ Head(line) = prefix THEN << Tail(line) >> ELSE << >>

\* What stands behind a prefix is collected line by line; an empty line adds nothing.
LEMMA BehindConcat ==
    ASSUME NEW prefix, NEW s \in Seq(Seq(Bytes)), NEW t \in Seq(Seq(Bytes))
    PROVE  /\ Behind(prefix, s) \in Seq(Seq(Bytes))
           /\ Behind(prefix, s \o t) = Behind(prefix, s) \o Behind(prefix, t)
           /\ Behind(prefix, << >>) = << >> /\ Behind(prefix, << << >> >>) = << >>
<1> DEFINE f == [ x \in Seq(Bytes) |-> BehindPart(prefix, x) ]
<1>1. f \in [ Seq(Bytes) -> Seq(Seq(Bytes)) ]
  <2>1. ASSUME NEW x \in Seq(Bytes) PROVE BehindPart(prefix, x) \in Seq(Seq(Bytes))
    <3>1. << >> \in Seq(Seq(Bytes))
      OBVIOUS
    <3>2. x # << >> => << Tail(x) >> \in Seq(Seq(Bytes))
      <4>1. x # << >> => Tail(x) \in Seq(Bytes)
        OBVIOUS
      <4>2. \A y \in Seq(Bytes) : << y >> \in Seq(Seq(Bytes))
        OBVIOUS
      <4> QED BY <4>1, <4>2
    <3> QED BY <3>1, <3>2 DEF BehindPart
  <2> QED BY <2>1
<1>2. ASSUME NEW u \in Seq(Seq(Bytes)) PROVE Behind(prefix, u) = FlattenSeq(Each(f, u))
  <2>1. DOMAIN u = 1 .. Len(u) /\ \A i \in 1 .. Len(u) : u[i] \in Seq(Bytes)
    BY ElementOfSeq
  <2>2. Each(f, u) = [ i \in DOMAIN u |-> BehindPart(prefix, u[i]) ]
    BY <2>1 DEF Each
  <2>3. Behind(prefix, u) = FlattenSeq([ i \in DOMAIN u |-> BehindPart(prefix, u[i]) ])
    BY DEF Behind, BehindPart
  <2> QED BY <2>2, <2>3
<1>3. Behind(prefix, << >>) = << >>
  <2>1. << >> \in Seq(Seq(Bytes)) /\ Each(f, << >>) = << >>
    BY DEF Each
  <2> HIDE DEF f
  <2> QED BY <1>2, <2>1, FlattenNothing
<1>4. Behind(prefix, << << >> >>) = << >>
  <2> DEFINE e == << << >> >>
             g == [ i \in DOMAIN e |-> BehindPart(prefix, e[i]) ]
  <2>1. Len(e) = 1 /\ DOMAIN e = 1 .. 1 /\ e[1] = << >>
    OBVIOUS
  <2>2. g \in [ 1 .. 1 -> Seq(Bytes) ] /\ g[1] = << >>
    BY <2>1 DEF BehindPart
  <2>3. Behind(prefix, e) = FlattenSeq(g)
    BY DEF Behind, BehindPart
  <2> HIDE DEF g, e
  <2>4. g \in Seq(Seq(Bytes)) /\ Len(g) = 1
    BY <2>2, FirstNumbers
  <2>5. FlattenSeq(g) = << >>
    <3>1. \A i \in 1 .. Len(g) - 1 : g[i] = << >>
      BY <2>4
    <3>2. FlattenSeq(g) = IF g = << >> THEN << >> ELSE g[Len(g)]
      BY <2>4, <3>1, FlattenLast
    <3> QED BY <2>2, <2>4, <3>2
  <2> QED BY <2>3, <2>5 DEF e
<1> HIDE DEF f
<1>5. s \o t \in Seq(Seq(Bytes))
  OBVIOUS
<1>6. /\ FlattenSeq(Each(f, s)) \in Seq(Seq(Bytes))
      /\ FlattenSeq(Each(f, s \o t)) = FlattenSeq(Each(f, s)) \o FlattenSeq(Each(f, t))
  <2> DEFINE X == Seq(Bytes)
  <2>1. MadeOf(X, X, f, s, t)
    BY <1>1 DEF MadeOf
  <2> HIDE DEF X
  <2>2. /\ FlattenSeq(Each(f, s)) \in Seq(X)
        /\ FlattenSeq(Each(f, s \o t)) = FlattenSeq(Each(f, s)) \o FlattenSeq(Each(f, t))
    BY <2>1, EachConcat
  <2> QED BY <2>2 DEF X
<1> QED BY <1>2, <1>3, <1>4, <1>5, <1>6

\* The events there can be.
Events == { [ data |-> DataOf(lines), event |-> EventOf(lines) ] : lines \in Seq(Seq(Bytes)) }

\* No event comes of no lines, and an empty line before others is not heard.
LEMMA HeardIs ==
    ASSUME NEW lines \in Seq(Seq(Bytes))
    PROVE  /\ Heard(lines) \in Seq(Events) /\ Heard(<< >>) = << >>
           /\ Heard(<< << >> >> \o lines) = Heard(lines)
<1>1. Heard(lines) \in Seq(Events)
  <2> DEFINE e == [ data |-> DataOf(lines), event |-> EventOf(lines) ]
  <2>1. e \in Events
    BY DEF Events
  <2>2. Heard(lines) = << >> \/ Heard(lines) = << e >>
    BY DEF Heard
  <2> HIDE DEF e
  <2>3. << >> \in Seq(Events) /\ << e >> \in Seq(Events)
    BY <2>1
  <2> QED BY <2>2, <2>3
<1>2. Heard(<< >>) = << >>
  <2>1. << >> \in Seq(Seq(Bytes))
    OBVIOUS
  <2>2. DataOf(<< >>) = << >> /\ EventOf(<< >>) = FirstNamed(<< >>)
    BY <2>1, BehindConcat DEF DataOf, EventOf
  <2>3. FirstNamed(<< >>) = NoEvent
    BY DEF FirstNamed
  <2> QED BY <2>2, <2>3 DEF Heard, NoData
<1>3. Heard(<< << >> >> \o lines) = Heard(lines)
  <2> DEFINE e == << << >> >>
  <2>1. e \in Seq(Seq(Bytes))
    <3>1. << >> \in Seq(Bytes)
      OBVIOUS
    <3> QED BY <3>1
  <2>2. \A prefix : Behind(prefix, e) = << >>
    BY BehindConcat
  <2> HIDE DEF e
  <2>3. ASSUME NEW prefix PROVE Behind(prefix, e \o lines) = Behind(prefix, lines)
    <3>1. Behind(prefix, e \o lines) = Behind(prefix, e) \o Behind(prefix, lines)
      BY <2>1, BehindConcat
    <3>2. Behind(prefix, lines) \in Seq(Seq(Bytes))
      BY BehindConcat
    <3> QED BY <2>2, <3>1, <3>2, ConcatEmptySeq
  <2>4. DataOf(e \o lines) = DataOf(lines) /\ EventOf(e \o lines) = EventOf(lines)
    BY <2>3 DEF DataOf, EventOf
  <2>5. Heard(e \o lines) = Heard(lines)
    BY <2>4 DEF Heard
  <2> QED BY <2>5 DEF e
<1> QED BY <1>1, <1>2, <1>3

\* What an empty line hands on.
ByPart(lines, i) == IF lines[i] = << >> THEN Heard(Since(lines, << >>, i)) ELSE << >>

ByParts(lines) == [ i \in DOMAIN lines |-> ByPart(lines, i) ]

\* The parts of lines are sequences of events.
LEMMA ByPartsType ==
    ASSUME NEW lines \in Seq(Seq(Bytes))
    PROVE  /\ ByParts(lines) \in Seq(Seq(Events)) /\ Len(ByParts(lines)) = Len(lines)
           /\ \A i \in 1 .. Len(lines) : ByParts(lines)[i] = ByPart(lines, i)
           /\ ByLines(lines) = FlattenSeq(ByParts(lines)) /\ ByLines(lines) \in Seq(Events)
<1>1. \A i \in 1 .. Len(lines) + 1 : Since(lines, << >>, i) \in Seq(Seq(Bytes))
  <2> DEFINE E == Seq(Bytes)
  <2>1. lines \in Seq(E)
    OBVIOUS
  <2> HIDE DEF E
  <2>2. \A i \in 1 .. Len(lines) + 1 : Since(lines, << >>, i) \in Seq(E)
    BY <2>1, MarkExists, SinceIs
  <2> QED BY <2>2 DEF E
<1>2. Len(lines) \in Nat /\ DOMAIN lines = 1 .. Len(lines)
  OBVIOUS
<1>3. ASSUME NEW i \in 1 .. Len(lines) PROVE ByPart(lines, i) \in Seq(Events)
  <2>1. Since(lines, << >>, i) \in Seq(Seq(Bytes))
    BY <1>1, <1>2
  <2>2. Heard(Since(lines, << >>, i)) \in Seq(Events)
    BY <2>1, HeardIs
  <2>3. << >> \in Seq(Events)
    OBVIOUS
  <2> QED BY <2>2, <2>3 DEF ByPart
<1>4. ByParts(lines) \in [ 1 .. Len(lines) -> Seq(Events) ]
  BY <1>2, <1>3 DEF ByParts
<1>5. ByParts(lines) \in Seq(Seq(Events)) /\ Len(ByParts(lines)) = Len(lines)
  BY <1>2, <1>4, FirstNumbers
<1>6. ByLines(lines) = FlattenSeq(ByParts(lines))
  BY DEF ByLines, ByParts, ByPart
<1>7. \A i \in 1 .. Len(lines) : ByParts(lines)[i] = ByPart(lines, i)
  BY <1>2 DEF ByParts
<1> QED BY <1>5, <1>6, <1>7, FlattenConcat

\* The events of lines that go on behind an empty line.
LEMMA ByLinesConcat ==
    ASSUME NEW s \in Seq(Seq(Bytes)), NEW t \in Seq(Seq(Bytes)), s = << >> \/ s[Len(s)] = << >>
    PROVE  ByLines(s \o t) = ByLines(s) \o ByLines(t)
<1> DEFINE w == s \o t
           l == Len(s)
           E == Seq(Bytes)
<1> HIDE DEF E
<1>0. s \in Seq(E) /\ t \in Seq(E)
  BY DEF E
<1>1. /\ w \in Seq(E) /\ Len(w) = l + Len(t) /\ l \in Nat /\ Len(t) \in Nat
      /\ \A i \in 1 .. l + Len(t) : w[i] = IF i <= l THEN s[i] ELSE t[i - l]
  BY <1>0, ConcatProperties
<1>2. /\ \A p \in 1 .. l : Since(w, << >>, p) = Since(s, << >>, p)
      /\ \A p \in 1 .. Len(t) + 1 : Since(w, << >>, l + p) = Since(t, << >>, p)
  BY <1>0, SinceConcat
<1>3. w \in Seq(Seq(Bytes))
  BY <1>1 DEF E
<1> HIDE DEF w, l
<1>4. ASSUME NEW p \in 1 .. l PROVE ByPart(w, p) = ByPart(s, p)
  <2>1. w[p] = s[p] /\ Since(w, << >>, p) = Since(s, << >>, p)
    BY <1>1, <1>2
  <2> QED BY <2>1 DEF ByPart
<1>5. ASSUME NEW p \in 1 .. Len(t) PROVE ByPart(w, l + p) = ByPart(t, p)
  <2>1. w[l + p] = t[p]
    <3>1. l + p \in 1 .. l + Len(t) /\ ~(l + p <= l) /\ (l + p) - l = p
      BY <1>1
    <3> QED BY <1>1, <3>1
  <2>2. Since(w, << >>, l + p) = Since(t, << >>, p)
    BY <1>1, <1>2
  <2> QED BY <2>1, <2>2 DEF ByPart
<1> DEFINE a == ByParts(s)
           b == ByParts(t)
           c == ByParts(w)
           L == Seq(Events)
<1>6. /\ a \in Seq(L) /\ Len(a) = l /\ \A p \in 1 .. l : a[p] = ByPart(s, p)
      /\ b \in Seq(L) /\ Len(b) = Len(t) /\ \A p \in 1 .. Len(t) : b[p] = ByPart(t, p)
      /\ c \in Seq(L) /\ Len(c) = Len(w) /\ \A p \in 1 .. Len(w) : c[p] = ByPart(w, p)
  BY <1>3, ByPartsType DEF l
<1>7. FlattenSeq(a) = ByLines(s) /\ FlattenSeq(b) = ByLines(t) /\ FlattenSeq(c) = ByLines(w)
  BY <1>3, ByPartsType
<1> HIDE DEF a, b, c
<1>8. FlattenSeq(a \o b) = FlattenSeq(a) \o FlattenSeq(b)
  BY <1>6, FlattenConcat
<1>9. c = a \o b
  <2> HIDE DEF L
  <2>1. /\ a \o b \in Seq(L) /\ Len(a \o b) = l + Len(t)
        /\ \A i \in 1 .. l + Len(t) : (a \o b)[i] = IF i <= l THEN a[i] ELSE b[i - l]
    <3>1. /\ a \o b \in Seq(L) /\ Len(a \o b) = Len(a) + Len(b)
          /\ \A i \in 1 .. Len(a) + Len(b) : (a \o b)[i] = IF i <= Len(a) THEN a[i] ELSE b[i - Len(a)]
      BY <1>6, ConcatProperties
    <3>2. Len(a) = l /\ Len(b) = Len(t)
      BY <1>6
    <3> QED BY <3>1, <3>2
  <2>2. ASSUME NEW i \in 1 .. l + Len(t) PROVE c[i] = (a \o b)[i]
    <3>1. CASE i <= l
      <4>1. i \in 1 .. l
        BY <1>1, <3>1
      <4> QED BY <1>1, <1>4, <1>6, <2>1, <3>1, <4>1
    <3>2. CASE ~(i <= l)
      <4>1. i - l \in 1 .. Len(t) /\ l + (i - l) = i
        BY <1>1, <3>2
      <4> QED BY <1>1, <1>5, <1>6, <2>1, <3>2, <4>1
    <3> QED BY <3>1, <3>2
  <2> QED BY <1>1, <1>6, <2>1, <2>2, SeqEqual
<1> QED BY <1>7, <1>8, <1>9 DEF w

\* Lines that are not empty hand on nothing before an empty line, and are heard then.
LEMMA ByLinesAlone ==
    ASSUME NEW r \in Seq(Seq(Bytes)), \A i \in 1 .. Len(r) : r[i] # << >>
    PROVE  ByLines(r) = << >> /\ ByLines(Append(r, << >>)) = Heard(r)
<1> DEFINE n == Len(r)
           t == Append(r, << >>)
           E == Seq(Bytes)
           L == Seq(Events)
<1> HIDE DEF E, L
<1>0. r \in Seq(E) /\ << >> \in E
  <2>1. << >> \in Seq(Bytes)
    OBVIOUS
  <2> QED BY <2>1 DEF E
<1>1. /\ n \in Nat /\ t \in Seq(E) /\ Len(t) = n + 1 /\ t[n + 1] = << >>
      /\ \A i \in 1 .. n : t[i] = r[i]
  BY <1>0, AppendProperties
<1>2. ByLines(r) = << >>
  <2> DEFINE a == ByParts(r)
  <2>1. /\ a \in Seq(L) /\ Len(a) = n /\ \A p \in 1 .. n : a[p] = ByPart(r, p)
        /\ ByLines(r) = FlattenSeq(a)
    BY ByPartsType DEF L
  <2> HIDE DEF a
  <2>2. ASSUME NEW i \in 1 .. n PROVE a[i] = << >>
    BY <2>1 DEF ByPart
  <2>3. \A i \in 1 .. Len(a) - 1 : a[i] = << >>
    <3>1. \A i \in 1 .. Len(a) - 1 : i \in 1 .. n
      BY <1>1, <2>1
    <3> QED BY <2>2, <3>1
  <2>4. a \in Seq(Seq(Events))
    BY <2>1 DEF L
  <2>5. ByLines(r) = IF a = << >> THEN << >> ELSE a[Len(a)]
    BY <2>1, <2>3, <2>4, FlattenLast
  <2>6. a # << >> => Len(a) \in 1 .. n
    BY <1>1, <2>1, EmptySeq
  <2> QED BY <2>2, <2>5, <2>6
<1>3. Since(t, << >>, n + 1) = r
  <2> DEFINE x == Since(t, << >>, n + 1)
  <2>1. Marks(t, << >>, n + 1, 0)
    <3>1. 0 \in 0 .. (n + 1) - 1 /\ \A k \in 0 + 1 .. (n + 1) - 1 : k \in 1 .. n
      BY <1>1
    <3> QED BY <1>1, <3>1 DEF Marks
  <2>2. n + 1 \in 1 .. Len(t) + 1
    BY <1>1
  <2> HIDE DEF t
  <2>3. /\ x \in Seq(E) /\ Len(x) = ((n + 1) - 1) - 0
        /\ \A i \in 1 .. ((n + 1) - 1) - 0 : x[i] = t[0 + i]
    BY <1>1, <2>1, <2>2, SinceIs, SMTT(30)
  <2> HIDE DEF x, n
  <2>4. Len(x) = n /\ \A i \in 1 .. n : x[i] = r[i]
    <3>1. ((n + 1) - 1) - 0 = n /\ \A i \in 1 .. n : 0 + i = i
      BY <1>1
    <3> QED BY <1>1, <2>3, <3>1
  <2>5. x = r
    BY <1>0, <2>3, <2>4, SeqEqual DEF n
  <2> QED BY <2>5 DEF x
<1>4. ByLines(t) = Heard(r)
  <2> DEFINE a == ByParts(t)
  <2> HIDE DEF t
  <2>1. t \in Seq(Seq(Bytes))
    BY <1>1 DEF E
  <2>2. /\ a \in Seq(L) /\ Len(a) = n + 1 /\ \A p \in 1 .. n + 1 : a[p] = ByPart(t, p)
        /\ ByLines(t) = FlattenSeq(a)
    BY <1>1, <2>1, ByPartsType DEF L
  <2> HIDE DEF a
  <2>3. ASSUME NEW i \in 1 .. Len(a) - 1 PROVE a[i] = << >>
    <3>1. i \in 1 .. n /\ i \in 1 .. n + 1
      BY <1>1, <2>2
    <3> QED BY <1>1, <2>2, <3>1 DEF ByPart
  <2>4. a \in Seq(Seq(Events))
    BY <2>2 DEF L
  <2>5. ByLines(t) = IF a = << >> THEN << >> ELSE a[Len(a)]
    BY <2>2, <2>3, <2>4, FlattenLast
  <2>6. n + 1 \in 1 .. n + 1 /\ a # << >>
    BY <1>1, <2>2, EmptySeq
  <2>7. a[n + 1] = Heard(Since(t, << >>, n + 1))
    BY <1>1, <2>2, <2>6 DEF ByPart
  <2> QED BY <1>3, <2>2, <2>5, <2>6, <2>7
<1> QED BY <1>2, <1>4

\* What is heard of blocks.
HeardOf(texts) == FlattenSeq([ i \in DOMAIN texts |-> Heard(Lines(texts[i])) ])

\* It is what is heard of the first one, and of the others.
LEMMA HeardOfBlocks ==
    ASSUME NEW b \in Seq(Bytes), NEW rest \in Seq(Seq(Bytes))
    PROVE  HeardOf(<< >>) = << >> /\ HeardOf(<< b >> \o rest) = Heard(Lines(b)) \o HeardOf(rest)
<1> DEFINE f == [ x \in Seq(Bytes) |-> Heard(Lines(x)) ]
           one == << b >>
<1>1. f \in [ Seq(Bytes) -> Seq(Events) ]
  <2>1. ASSUME NEW x \in Seq(Bytes) PROVE Heard(Lines(x)) \in Seq(Events)
    BY LinePartsType, HeardIs
  <2> QED BY <2>1
<1>2. ASSUME NEW x \in Seq(Seq(Bytes)) PROVE HeardOf(x) = FlattenSeq(Each(f, x))
  <2>1. DOMAIN x = 1 .. Len(x) /\ \A i \in 1 .. Len(x) : x[i] \in Seq(Bytes)
    BY ElementOfSeq
  <2>2. Each(f, x) = [ i \in DOMAIN x |-> Heard(Lines(x[i])) ]
    BY <2>1 DEF Each
  <2> QED BY <2>2 DEF HeardOf
<1>3. HeardOf(<< >>) = << >>
  <2>1. << >> \in Seq(Seq(Bytes)) /\ Each(f, << >>) = << >>
    BY DEF Each
  <2> HIDE DEF f
  <2> QED BY <1>2, <2>1, FlattenNothing
<1>4. FlattenSeq(Each(f, one)) = Heard(Lines(b))
  <2>1. Each(f, one) = << Heard(Lines(b)) >>
    BY DEF Each
  <2>2. Heard(Lines(b)) \in Seq(Events)
    BY LinePartsType, HeardIs
  <2> QED BY <2>1, <2>2, FlattenOne
<1>5. one \in Seq(Seq(Bytes)) /\ one \o rest \in Seq(Seq(Bytes))
  BY BlocksConcat
<1> HIDE DEF f, one
<1>6. FlattenSeq(Each(f, one \o rest)) = FlattenSeq(Each(f, one)) \o FlattenSeq(Each(f, rest))
  <2> DEFINE X == Seq(Bytes)
             Y == Events
  <2>1. MadeOf(X, Y, f, one, rest)
    BY <1>1, <1>5 DEF MadeOf
  <2> HIDE DEF X, Y
  <2> QED BY <2>1, EachConcat
<1>7. HeardOf(one \o rest) = Heard(Lines(b)) \o HeardOf(rest)
  BY <1>2, <1>4, <1>5, <1>6
<1> QED BY <1>3, <1>7 DEF one

\* A text that begins with d.
LEMMA Leads ==
    ASSUME NEW y \in Seq(Bytes), NEW d \in Seq(Bytes), Len(d) <= Len(y), \A i \in 1 .. Len(d) : y[i] = d[i]
    PROVE  y = d \o From(y, Len(d) + 1)
<1> DEFINE n == Len(d)
           x == SubSeq(y, 1, n)
<1>1. n \in 0 .. Len(y) /\ n \in Nat
  OBVIOUS
<1> HIDE DEF n
<1>2. /\ x \in Seq(Bytes) /\ Len(x) = n /\ x \o From(y, n + 1) = y
      /\ \A i \in 1 .. n : x[i] = y[i]
  BY <1>1, Pieces
<1> HIDE DEF x
<1>3. x = d
  <2>1. Len(x) = Len(d) /\ \A i \in 1 .. Len(x) : x[i] = d[i]
    BY <1>2 DEF n
  <2> QED BY <1>2, <2>1, SeqEqual
<1> QED BY <1>2, <1>3 DEF n

\* A text is its last line, which has no line end, behind the lines before it.
LEMMA LastLine ==
    ASSUME NEW b \in Seq(Bytes), b # << >>, b[Len(b)] # LF
    PROVE  \E a, r \in Seq(Bytes) :
               /\ b = a \o r /\ (a = << >> \/ a[Len(a)] = LF)
               /\ r # << >> /\ r[Len(r)] = b[Len(b)] /\ \A i \in 1 .. Len(r) : r[i] # LF
<1> DEFINE n == Len(b)
<1>1. n \in Nat /\ n # 0 /\ n \in 1 .. n
  BY EmptySeq
<1>2. PICK m : Marks(b, LF, n + 1, m)
  <2>1. n + 1 \in 1 .. Len(b) + 1
    BY <1>1
  <2> QED BY <2>1, MarkExists
<1>3. /\ m \in 0 .. n /\ m # n /\ (m = 0 \/ b[m] = LF)
      /\ \A k \in m + 1 .. n : b[k] # LF
  <2>1. (n + 1) - 1 = n
    BY <1>1
  <2> QED BY <1>1, <1>2, <2>1 DEF Marks
<1> HIDE DEF n
<1> DEFINE a == SubSeq(b, 1, m)
           r == From(b, m + 1)
<1>4. /\ a \in Seq(Bytes) /\ Len(a) = m /\ r \in Seq(Bytes) /\ Len(r) = n - m /\ a \o r = b
      /\ \A i \in 1 .. m : a[i] = b[i]
      /\ \A i \in 1 .. n - m : r[i] = b[m + i]
  BY <1>3, Pieces DEF n
<1> HIDE DEF a, r
<1>5. a = << >> \/ a[Len(a)] = LF
  <2>1. CASE m = 0
    BY <1>4, <2>1, EmptySeq
  <2>2. CASE m # 0
    <3>1. m \in 1 .. m
      BY <1>1, <1>3, <2>2
    <3> QED BY <1>3, <1>4, <2>2, <3>1
  <2> QED BY <2>1, <2>2
<1>6. n - m \in 1 .. n - m /\ n - m # 0 /\ m + (n - m) = n
  BY <1>1, <1>3
<1>7. r # << >> /\ r[Len(r)] = b[n]
  BY <1>4, <1>6, EmptySeq
<1>8. ASSUME NEW i \in 1 .. Len(r) PROVE r[i] # LF
  <2>1. i \in 1 .. n - m /\ m + i \in m + 1 .. n
    BY <1>1, <1>3, <1>4
  <2> QED BY <1>3, <1>4, <2>1
<1>9. a \in Seq(Bytes) /\ r \in Seq(Bytes) /\ b = a \o r
  BY <1>4
<1> QED BY <1>5, <1>7, <1>8, <1>9 DEF n

\* A text with a line end is its first line, the line end, and the lines behind it.
LEMMA FirstLine ==
    ASSUME NEW t \in Seq(Bytes), \E i \in 1 .. Len(t) : t[i] = LF
    PROVE  \E r, u \in Seq(Bytes) :
               t = Append(r, LF) \o u /\ \A i \in 1 .. Len(r) : r[i] # LF
<1> DEFINE T == { i \in 1 .. Len(t) : t[i] = LF }
<1>1. Len(t) \in Nat
  OBVIOUS
<1>2. PICK p \in T : \A y \in T : p <= y
  <2>1. T \in SUBSET Nat /\ T # {}
    BY <1>1
  <2> HIDE DEF T
  <2> QED BY <2>1, Least
<1>3. p \in 1 .. Len(t) /\ t[p] = LF /\ \A k \in 1 .. p - 1 : t[k] # LF
  <2>1. ASSUME NEW k \in 1 .. p - 1 PROVE t[k] # LF
    <3>1. k \in 1 .. Len(t) /\ ~(p <= k)
      BY <1>1, <1>2
    <3> QED BY <1>2, <3>1
  <2> QED BY <1>2, <2>1
<1> HIDE DEF T
<1> DEFINE n == p - 1
           x == SubSeq(t, 1, p)
           u == From(t, p + 1)
           r == SubSeq(t, 1, n)
<1>4. p \in 0 .. Len(t) /\ n \in 0 .. Len(t) /\ n \in Nat /\ p = n + 1 /\ p \in Nat
  BY <1>1, <1>3
<1> HIDE DEF n
<1>5. /\ x \in Seq(Bytes) /\ Len(x) = p /\ u \in Seq(Bytes) /\ x \o u = t
      /\ \A i \in 1 .. p : x[i] = t[i]
  BY <1>4, Pieces
<1>6. r \in Seq(Bytes) /\ Len(r) = n /\ \A i \in 1 .. n : r[i] = t[i]
  BY <1>4, Pieces
<1> HIDE DEF x, u, r
<1>7. x = Append(r, LF)
  <2>1. LF \in Bytes
    BY DEF Bytes
  <2>2. Len(x) = Len(r) + 1 /\ x[Len(r) + 1] = LF
    <3>1. p \in 1 .. p
      BY <1>4, <1>3
    <3> QED BY <1>3, <1>4, <1>5, <1>6, <3>1
  <2>3. \A i \in 1 .. Len(r) : x[i] = r[i]
    <3>1. \A i \in 1 .. n : i \in 1 .. p
      BY <1>4
    <3> QED BY <1>5, <1>6, <3>1
  <2> QED BY <1>5, <1>6, <2>1, <2>2, <2>3, OneMore
<1>8. \A i \in 1 .. Len(r) : r[i] # LF
  BY <1>3, <1>4, <1>6
<1> QED BY <1>5, <1>6, <1>7, <1>8

\* No line is empty but perhaps the first.
AtMostFirst(lines) ==
    \E l \in Seq(Seq(Bytes)) :
        /\ lines = l \/ lines = << << >> >> \o l
        /\ \A i \in 1 .. Len(l) : l[i] # << >>

\* Such lines are one group: they hand on nothing, and are heard at the next empty line.
LEMMA OneGroup ==
    ASSUME NEW lines \in Seq(Seq(Bytes)), AtMostFirst(lines)
    PROVE  /\ ByLines(lines) = << >>
           /\ ByLines(lines \o << << >> >>) = Heard(lines)
<1> DEFINE e == << << >> >>
           E == Seq(Bytes)
<1>1. PICK l \in Seq(E) : (lines = l \/ lines = e \o l) /\ \A i \in 1 .. Len(l) : l[i] # << >>
  BY DEF AtMostFirst
<1>2. ByLines(l) = << >> /\ ByLines(Append(l, << >>)) = Heard(l)
  BY <1>1, ByLinesAlone
<1>3. /\ e \in Seq(E) /\ e[Len(e)] = << >> /\ << >> \in Seq(E) /\ << >> \in E
      /\ \A i \in 1 .. Len(<< >>) : << >>[i] # << >>
      /\ e = Append(<< >>, << >>)
  <2>1. << >> \in E
    OBVIOUS
  <2> HIDE DEF E
  <2> QED BY <2>1
<1>4. ByLines(e) = << >>
  <2>1. ByLines(Append(<< >>, << >>)) = Heard(<< >>)
    BY <1>3, ByLinesAlone
  <2> QED BY <1>3, <2>1, HeardIs
<1>5. l \o e = Append(l, << >>) /\ l \o e \in Seq(E) /\ (e \o l) \o e = e \o (l \o e)
  <2> HIDE DEF E
  <2>1. l \o e = Append(l, << >>) /\ l \o e \in Seq(E)
    BY <1>3
  <2> HIDE DEF e
  <2>2. (e \o l) \o e = e \o (l \o e)
    BY <1>3, ConcatAssociative
  <2> QED BY <2>1, <2>2
<1>6. Heard(e \o l) = Heard(l) /\ Heard(l) \in Seq(Events)
  BY HeardIs
<1> HIDE DEF e
<1>7. CASE lines = l
  BY <1>2, <1>5, <1>7 DEF e
<1>8. CASE lines = e \o l
  <2>1. /\ ByLines(e \o l) = ByLines(e) \o ByLines(l)
        /\ ByLines(e \o (l \o e)) = ByLines(e) \o ByLines(l \o e)
    BY <1>3, <1>5, ByLinesConcat
  <2>2. << >> \o << >> = << >> /\ << >> \o Heard(l) = Heard(l)
    BY <1>6, ConcatEmptySeq
  <2> QED BY <1>2, <1>4, <1>5, <1>6, <1>8, <2>1, <2>2 DEF e
<1> QED BY <1>1, <1>7, <1>8

\* Where a line is empty, two line ends stand behind one another.
LEMMA EmptyLine ==
    ASSUME NEW u \in Seq(Bytes), NEW i \in 1 .. Len(Lines(u)), Lines(u)[i] = << >>
    PROVE  \E q \in 1 .. Len(u) :
               /\ u[q] = LF
               /\ \/ q = 1 \/ u[q - 1] = LF
                  \/ u[q - 1] = CR /\ (q = 2 \/ u[q - 2] = LF)
<1>1. /\ LineParts(u) \in Seq(Seq(Seq(Bytes))) /\ Len(LineParts(u)) = Len(u)
      /\ \A p \in 1 .. Len(u) : LineParts(u)[p] = LinePart(u, p)
      /\ Lines(u) = FlattenSeq(LineParts(u)) /\ Lines(u) \in Seq(Seq(Bytes))
  BY LinePartsType
<1>2. PICK q \in 1 .. Len(u) : \E k \in DOMAIN LinePart(u, q) : LinePart(u, q)[k] = << >>
  <2> DEFINE a == LineParts(u)
             E == Seq(Bytes)
  <2>1. a \in Seq(Seq(E)) /\ DOMAIN a = 1 .. Len(u) /\ i \in DOMAIN FlattenSeq(a) /\ FlattenSeq(a)[i] = << >>
    BY <1>1
  <2>2. \A p \in 1 .. Len(u) : a[p] = LinePart(u, p)
    BY <1>1
  <2> HIDE DEF a, E
  <2>3. \E j \in DOMAIN a : \E k \in DOMAIN a[j] : FlattenSeq(a)[i] = a[j][k]
    BY <2>1, FlattenElement
  <2> QED BY <2>1, <2>2, <2>3
<1>3. q \in Nat /\ q + 1 \in 1 .. Len(u) + 1 /\ q \in 1 .. Len(u) + 1 /\ Len(u) \in Nat
  OBVIOUS
<1>4. u[q] = LF
  <2>1. SUFFICES ASSUME u[q] # LF PROVE FALSE
    OBVIOUS
  <2> DEFINE x == Since(u, LF, q + 1)
  <2>2. LinePart(u, q) = << x >> \/ LinePart(u, q) = << >>
    BY <2>1 DEF LinePart
  <2>3. x = << >>
    <3> HIDE DEF x
    <3> QED BY <1>2, <2>2
  <2>4. PICK m : Marks(u, LF, q + 1, m)
    BY <1>3, MarkExists
  <2>5. /\ x \in Seq(Bytes) /\ Len(x) = ((q + 1) - 1) - m
        /\ \A j \in 1 .. ((q + 1) - 1) - m : x[j] = u[m + j]
    BY <1>3, <2>4, SinceIs
  <2>6. m = q
    <3>1. Len(x) = 0
      BY <2>3
    <3> HIDE DEF x
    <3> QED BY <1>3, <2>4, <2>5, <3>1 DEF Marks
  <2> QED BY <1>3, <2>1, <2>4, <2>6 DEF Marks
<1>5. PICK m : Marks(u, LF, q, m)
  BY <1>3, MarkExists
<1> DEFINE x == Since(u, LF, q)
<1>6. x \in Seq(Bytes) /\ Len(x) = (q - 1) - m /\ \A j \in 1 .. (q - 1) - m : x[j] = u[m + j]
  BY <1>3, <1>5, SinceIs
<1>7. x = << >> \/ (Len(x) = 1 /\ x[1] = CR)
  <2>1. LinePart(u, q) = << Stripped(x) >>
    BY <1>4 DEF LinePart
  <2>2. Stripped(x) = << >>
    BY <1>2, <2>1
  <2> HIDE DEF x
  <2> QED BY <1>6, <2>2, StrippedIs
<1>8. m \in 0 .. q - 1 /\ (m = 0 \/ u[m] = LF)
  BY <1>5 DEF Marks
<1> HIDE DEF x
<1>9. CASE x = << >>
  <2>1. m = q - 1
    <3>1. Len(x) = 0
      BY <1>9
    <3> QED BY <1>3, <1>6, <1>8, <3>1
  <2> QED BY <1>3, <1>4, <1>8, <2>1
<1>10. CASE Len(x) = 1 /\ x[1] = CR
  <2>0. (q - 1) - m = 1 /\ \A j \in 1 .. 1 : x[j] = u[m + j]
    <3>1. (q - 1) - m = 1
      BY <1>6, <1>10
    <3> QED BY <1>6, <3>1
  <2>1. m = q - 2
    BY <1>3, <1>8, <2>0
  <2>2. x[1] = u[m + 1]
    BY <2>0
  <2>3. u[q - 1] = CR /\ (q = 2 \/ u[q - 2] = LF)
    <3>1. m + 1 = q - 1 /\ (m = 0 => q = 2)
      BY <1>3, <2>1
    <3> QED BY <1>8, <1>10, <2>1, <2>2, <3>1
  <2> QED BY <1>4, <2>3
<1> QED BY <1>7, <1>9, <1>10

\* A text of one kind of line end that has no blank line has no empty line but perhaps the first.
LEMMA NoBlankNoEmpty ==
    ASSUME NEW t \in Seq(Bytes), Uniform(t), ~HasBlock(t)
    PROVE  AtMostFirst(Lines(t))
<1>1. Lines(t) \in Seq(Seq(Bytes)) /\ Len(t) \in Nat
  BY LinePartsType
<1>2. CASE ~\E i \in 1 .. Len(t) : t[i] = LF
  <2>1. Lines(t) = IF t = << >> THEN << >> ELSE << t >>
    BY <1>2, LineAlone
  <2>2. \A i \in 1 .. Len(Lines(t)) : Lines(t)[i] # << >>
    <3>1. CASE t = << >>
      BY <2>1, <3>1
    <3>2. CASE t # << >>
      BY <2>1, <3>2
    <3> QED BY <3>1, <3>2
  <2> QED BY <1>1, <2>2 DEF AtMostFirst
<1>3. CASE \E i \in 1 .. Len(t) : t[i] = LF
  <2>1. PICK r \in Seq(Bytes), u \in Seq(Bytes) : t = Append(r, LF) \o u /\ \A i \in 1 .. Len(r) : r[i] # LF
    <3>1. \E r, u \in Seq(Bytes) : t = Append(r, LF) \o u /\ \A i \in 1 .. Len(r) : r[i] # LF
      BY <1>3, FirstLine
    <3> QED BY <3>1
  <2> DEFINE a == Append(r, LF)
             l == Len(r) + 1
  <2>2. a \in Seq(Bytes) /\ Len(a) = l /\ a[l] = LF /\ l \in Nat /\ l # 0
    <3>1. LF \in Bytes
      BY DEF Bytes
    <3> QED BY <3>1, AppendProperties
  <2>3. t = a \o u
    BY <2>1
  <2>4. Lines(a) = << Stripped(r) >> /\ Stripped(r) \in Seq(Bytes)
    BY <2>1, LineAlone, StrippedIs
  <2> HIDE DEF a, l
  <2>5. Lines(t) = Lines(a) \o Lines(u) /\ Lines(u) \in Seq(Seq(Bytes)) /\ Lines(a) \in Seq(Seq(Bytes))
    BY <2>2, <2>3, LinesConcat, LinePartsType
  <2>6. /\ Len(t) = l + Len(u) /\ Len(u) \in Nat
        /\ \A i \in 1 .. l + Len(u) : t[i] = IF i <= l THEN a[i] ELSE u[i - l]
    <3>1. a \in Seq(Bytes) /\ u \in Seq(Bytes)
      BY <2>2
    <3>2. /\ Len(a \o u) = Len(a) + Len(u)
          /\ \A i \in 1 .. Len(a) + Len(u) : (a \o u)[i] = IF i <= Len(a) THEN a[i] ELSE u[i - Len(a)]
      BY <3>1, ConcatProperties
    <3>3. Len(u) \in Nat
      OBVIOUS
    <3> QED BY <2>2, <2>3, <3>2, <3>3
  <2>7. t[l] = LF /\ \A q \in 1 .. Len(u) : t[l + q] = u[q] /\ l + q \in 1 .. Len(t)
    <3>1. l \in 1 .. l + Len(u) /\ l <= l
      BY <2>2, <2>6
    <3>2. ASSUME NEW q \in 1 .. Len(u) PROVE t[l + q] = u[q] /\ l + q \in 1 .. Len(t)
      <4>1. l + q \in 1 .. l + Len(u) /\ ~(l + q <= l) /\ (l + q) - l = q
        BY <2>2, <2>6
      <4> QED BY <2>6, <4>1
    <3> QED BY <2>2, <2>6, <3>1, <3>2
  <2>8. \A p, n : ~Blank(t, p, n)
    BY NextIsFirst
  <2>9. ASSUME NEW i \in 1 .. Len(Lines(u)), Lines(u)[i] = << >> PROVE FALSE
    <3>1. PICK q \in 1 .. Len(u) :
              /\ u[q] = LF
              /\ \/ q = 1 \/ u[q - 1] = LF
                 \/ u[q - 1] = CR /\ (q = 2 \/ u[q - 2] = LF)
      BY <2>9, EmptyLine
    <3>2. q \in Nat /\ l \in Nat /\ l # 0 /\ q # 0 /\ t[l + q] = LF /\ l + q \in 1 .. Len(t)
      BY <2>2, <2>7, <3>1
    <3>3. CASE q = 1 \/ u[q - 1] = LF
      <4>1. t[(l + q) - 1] = LF
        <5>1. CASE q = 1
          BY <2>2, <2>7, <5>1
        <5>2. CASE q # 1
          <6>1. q - 1 \in 1 .. Len(u) /\ l + (q - 1) = (l + q) - 1
            BY <3>2, <5>2
          <6>2. t[l + (q - 1)] = u[q - 1]
            BY <2>7, <6>1
          <6> QED BY <3>3, <5>2, <6>1, <6>2
        <5> QED BY <5>1, <5>2
      <4>2. (l + q) - 1 \in 1 .. Len(t) - 1 /\ ((l + q) - 1) + 1 = l + q
        BY <3>2
      <4>3. Blank(t, (l + q) - 1, 2)
        BY <3>2, <4>1, <4>2 DEF Blank
      <4> QED BY <2>8, <4>3
    <3>4. CASE q # 1 /\ u[q - 1] = CR /\ (q = 2 \/ u[q - 2] = LF)
      <4>1. t[(l + q) - 1] = CR
        <5>1. q - 1 \in 1 .. Len(u) /\ l + (q - 1) = (l + q) - 1
          BY <3>2, <3>4
        <5>2. t[l + (q - 1)] = u[q - 1]
          BY <2>7, <5>1
        <5> QED BY <3>4, <5>1, <5>2
      <4>2. t[(l + q) - 2] = LF
        <5>1. CASE q = 2
          <6>1. (l + q) - 2 = l
            BY <2>2, <5>1
          <6> QED BY <2>7, <6>1
        <5>2. CASE q # 2
          <6>1. q - 2 \in 1 .. Len(u) /\ l + (q - 2) = (l + q) - 2
            BY <3>2, <3>4, <5>2
          <6>2. t[l + (q - 2)] = u[q - 2]
            BY <2>7, <6>1
          <6> QED BY <3>4, <5>2, <6>1, <6>2
        <5> QED BY <5>1, <5>2
      <4>3. (l + q) - 2 \in 1 .. Len(t) /\ (l + q) - 1 \in 1 .. Len(t) /\ DOMAIN t = 1 .. Len(t)
        BY <3>2, <3>4
      <4>4. CR \in Range(t)
        BY <4>1, <4>3 DEF Range
      <4>5. (l + q) - 2 > 1 /\ t[((l + q) - 2) - 1] = CR
        BY <4>2, <4>3, <4>4 DEF Uniform
      <4>6. /\ (l + q) - 3 \in 1 .. Len(t) - 3 /\ ((l + q) - 2) - 1 = (l + q) - 3
            /\ ((l + q) - 3) + 1 = (l + q) - 2 /\ ((l + q) - 3) + 2 = (l + q) - 1
            /\ ((l + q) - 3) + 3 = l + q
        BY <3>2, <4>5
      <4>7. Blank(t, (l + q) - 3, 4)
        BY <3>2, <4>1, <4>2, <4>5, <4>6 DEF Blank
      <4> QED BY <2>8, <4>7
    <3> QED BY <3>1, <3>3, <3>4
  <2>10. \A i \in 1 .. Len(Lines(u)) : Lines(u)[i] # << >>
    BY <2>9
  <2>11. CASE Stripped(r) = << >>
    <3>1. Lines(t) = << << >> >> \o Lines(u)
      BY <2>4, <2>5, <2>11
    <3> QED BY <2>5, <2>10, <3>1 DEF AtMostFirst
  <2>12. CASE Stripped(r) # << >>
    <3> DEFINE x == Stripped(r)
               L == Lines(u)
               E == Seq(Bytes)
    <3>1. L \in Seq(E) /\ x \in E /\ x # << >> /\ Lines(t) = << x >> \o L /\ \A i \in 1 .. Len(L) : L[i] # << >>
      BY <2>4, <2>5, <2>10, <2>12
    <3> HIDE DEF x, L, E
    <3>2. << x >> \in Seq(E) /\ Len(<< x >>) = 1 /\ << x >>[1] = x /\ Len(L) \in Nat
      BY <3>1
    <3>3. /\ Len(<< x >> \o L) = 1 + Len(L)
          /\ \A i \in 1 .. 1 + Len(L) : (<< x >> \o L)[i] = IF i <= 1 THEN << x >>[i] ELSE L[i - 1]
      BY <3>1, <3>2, ConcatProperties
    <3>4. ASSUME NEW i \in 1 .. Len(<< x >> \o L) PROVE (<< x >> \o L)[i] # << >>
      <4>1. i \in 1 .. 1 + Len(L) /\ (i <= 1 => i = 1) /\ (~(i <= 1) => i - 1 \in 1 .. Len(L))
        BY <3>2, <3>3
      <4> QED BY <3>1, <3>2, <3>3, <4>1
    <3>5. \A i \in 1 .. Len(Lines(t)) : Lines(t)[i] # << >>
      BY <3>1, <3>4
    <3> QED BY <1>1, <3>5 DEF AtMostFirst
  <2> QED BY <2>11, <2>12
<1> QED BY <1>2, <1>3

(***************************************************************************)
(* A text of one kind of line end, block by block.                         *)
(***************************************************************************)
LineEnds == { << LF >>, << CR, LF >> }

\* The ends of lines, byte by byte.
LEMMA LineEndIs ==
    /\ << LF >> \in Seq(Bytes) /\ Len(<< LF >>) = 1 /\ << LF >>[1] = LF
    /\ << CR, LF >> \in Seq(Bytes) /\ Len(<< CR, LF >>) = 2
    /\ << CR, LF >>[1] = CR /\ << CR, LF >>[2] = LF
    /\ LF \in Bytes /\ CR \in Bytes /\ LF # CR
<1>1. LF \in Bytes /\ CR \in Bytes /\ LF # CR
  BY DEF Bytes, LF, CR
<1> QED BY <1>1

\* A line end takes a line that has none, and nothing of the line.
LEMMA LineEnded ==
    ASSUME NEW r \in Seq(Bytes), \A i \in 1 .. Len(r) : r[i] # LF,
           r = << >> \/ r[Len(r)] # CR, NEW e \in LineEnds
    PROVE  Lines(r \o e) = << r >>
<1>1. CASE e = << LF >>
  <2>1. r \o e = Append(r, LF)
    BY <1>1, LineEndIs
  <2>2. Stripped(r) = r
    BY StrippedIs
  <2> QED BY <2>1, <2>2, LineAlone
<1>2. CASE e = << CR, LF >>
  <2> DEFINE s == Append(r, CR)
  <2>1. /\ s \in Seq(Bytes) /\ Len(s) = Len(r) + 1 /\ s[Len(r) + 1] = CR
        /\ \A i \in 1 .. Len(r) : s[i] = r[i]
    BY LineEndIs, AppendProperties
  <2>2. r \o e = Append(s, LF)
    <3>1. r \o << CR, LF >> = Append(Append(r, CR), LF)
      BY LineEndIs
    <3> QED BY <1>2, <3>1
  <2>3. Stripped(s) = r
    BY StrippedIs
  <2> HIDE DEF s
  <2>4. ASSUME NEW i \in 1 .. Len(s) PROVE s[i] # LF
    <3>1. i \in 1 .. Len(r) \/ i = Len(r) + 1
      BY <2>1
    <3> QED BY <2>1, <3>1, LineEndIs
  <2> QED BY <2>1, <2>2, <2>3, <2>4, LineAlone
<1> QED BY <1>1, <1>2 DEF LineEnds

\* The same is heard of a text with and without its last line end.
LEMMA HeardWithEnd ==
    ASSUME NEW b \in Seq(Bytes), b = << >> \/ b[Len(b)] \notin { LF, CR }, NEW e \in LineEnds
    PROVE  Heard(Lines(b \o e)) = Heard(Lines(b)) /\ Lines(e) = << << >> >>
<1>1. e \in Seq(Bytes)
  BY LineEndIs DEF LineEnds
<1>2. Lines(e) = << << >> >>
  <2>1. << >> \in Seq(Bytes) /\ \A i \in 1 .. Len(<< >>) : << >>[i] # LF
    OBVIOUS
  <2>2. Lines(<< >> \o e) = << << >> >>
    BY <2>1, LineEnded
  <2> QED BY <1>1, <2>2, ConcatEmptySeq
<1>3. CASE b = << >>
  <2>1. b \o e = e
    BY <1>1, <1>3, ConcatEmptySeq
  <2>2. Lines(b) = << >>
    <3>1. \A i \in 1 .. Len(b) : b[i] # LF
      BY <1>3
    <3> QED BY <1>3, <3>1, LineAlone
  <2>3. Heard(<< << >> >>) = Heard(<< >>)
    <3>1. << >> \in Seq(Seq(Bytes))
      OBVIOUS
    <3>2. Heard(<< << >> >> \o << >>) = Heard(<< >>)
      BY <3>1, HeardIs
    <3>3. << << >> >> \o << >> = << << >> >>
      OBVIOUS
    <3> QED BY <3>2, <3>3
  <2> QED BY <1>2, <2>1, <2>2, <2>3
<1>4. CASE b # << >>
  <2>1. PICK a \in Seq(Bytes), r \in Seq(Bytes) :
               /\ b = a \o r /\ (a = << >> \/ a[Len(a)] = LF)
               /\ r # << >> /\ r[Len(r)] = b[Len(b)] /\ \A i \in 1 .. Len(r) : r[i] # LF
    <3>1. b[Len(b)] # LF
      BY <1>4
    <3>2. \E a, r \in Seq(Bytes) :
               /\ b = a \o r /\ (a = << >> \/ a[Len(a)] = LF)
               /\ r # << >> /\ r[Len(r)] = b[Len(b)] /\ \A i \in 1 .. Len(r) : r[i] # LF
      BY <1>4, <3>1, LastLine
    <3> QED BY <3>2
  <2>2. r[Len(r)] # CR
    BY <1>4, <2>1
  <2>3. b \o e = a \o (r \o e) /\ r \o e \in Seq(Bytes)
    BY <1>1, <2>1, Associates
  <2>4. Lines(r) = << r >> /\ Lines(r \o e) = << r >>
    BY <2>1, <2>2, LineAlone, LineEnded
  <2>5. Lines(a \o r) = Lines(a) \o Lines(r) /\ Lines(a \o (r \o e)) = Lines(a) \o Lines(r \o e)
    BY <2>1, <2>3, LinesConcat
  <2> QED BY <1>2, <2>1, <2>3, <2>4, <2>5
<1> QED BY <1>3, <1>4

\* The parts of a text of one kind of line end have no other, if the first ends in one.
LEMMA UniformParts ==
    ASSUME NEW v \in Seq(Bytes), NEW x \in Seq(Bytes), Uniform(v \o x), v # << >>, v[Len(v)] = LF
    PROVE  Uniform(v) /\ Uniform(x)
<1> DEFINE t == v \o x
           l == Len(v)
           k == Len(x)
<1>1. /\ t \in Seq(Bytes) /\ Len(t) = l + k /\ l \in Nat /\ k \in Nat /\ l # 0
      /\ DOMAIN v = 1 .. l /\ DOMAIN x = 1 .. k /\ DOMAIN t = 1 .. l + k
      /\ \A i \in 1 .. l + k : t[i] = IF i <= l THEN v[i] ELSE x[i - l]
  <2>1. /\ t \in Seq(Bytes) /\ Len(t) = l + k
        /\ \A i \in 1 .. l + k : t[i] = IF i <= l THEN v[i] ELSE x[i - l]
    BY ConcatProperties
  <2>2. l \in Nat /\ k \in Nat /\ l # 0 /\ DOMAIN v = 1 .. l /\ DOMAIN x = 1 .. k
    BY EmptySeq
  <2> HIDE DEF t, l, k
  <2>3. DOMAIN t = 1 .. Len(t)
    BY <2>1
  <2> QED BY <2>1, <2>2, <2>3
<1>2. Uniform(t) /\ v[l] = LF
  OBVIOUS
<1> HIDE DEF t, l, k
<1>3. \A i \in 1 .. l : t[i] = v[i] /\ i \in 1 .. l + k
  BY <1>1
<1>4. ASSUME NEW i \in 1 .. k PROVE t[l + i] = x[i] /\ l + i \in 1 .. l + k
  <2>1. l + i \in 1 .. l + k /\ ~(l + i <= l) /\ (l + i) - l = i
    BY <1>1
  <2> QED BY <1>1, <2>1
<1>5. CASE CR \notin Range(t)
  <2>1. \A i \in 1 .. l + k : t[i] # CR
    BY <1>1, <1>5 DEF Range
  <2>2. (\A i \in 1 .. l : v[i] # CR) /\ \A i \in 1 .. k : x[i] # CR
    BY <1>3, <1>4, <2>1
  <2> QED BY <1>1, <2>2 DEF Uniform, Range
<1>6. CASE \A i \in DOMAIN t : /\ t[i] = LF => i > 1 /\ t[i - 1] = CR
                               /\ t[i] = CR => i < Len(t) /\ t[i + 1] = LF
  <2>1. \A i \in 1 .. l + k : /\ t[i] = LF => i > 1 /\ t[i - 1] = CR
                              /\ t[i] = CR => i < l + k /\ t[i + 1] = LF
    BY <1>1, <1>6
  <2>2. ASSUME NEW i \in 1 .. l
        PROVE  /\ v[i] = LF => i > 1 /\ v[i - 1] = CR
               /\ v[i] = CR => i < l /\ v[i + 1] = LF
    <3>1. t[i] = v[i] /\ i \in 1 .. l + k
      BY <1>3
    <3>2. i > 1 => t[i - 1] = v[i - 1]
      <4>1. i > 1 => i - 1 \in 1 .. l
        BY <1>1
      <4> QED BY <1>3, <4>1
    <3>3. i < l => t[i + 1] = v[i + 1]
      <4>1. i < l => i + 1 \in 1 .. l
        BY <1>1
      <4> QED BY <1>3, <4>1
    <3>4. v[i] = CR => i < l
      BY <1>1, <1>2, LineEndIs
    <3> QED BY <2>1, <3>1, <3>2, <3>3, <3>4
  <2>3. ASSUME NEW i \in 1 .. k
        PROVE  /\ x[i] = LF => i > 1 /\ x[i - 1] = CR
               /\ x[i] = CR => i < k /\ x[i + 1] = LF
    <3>1. t[l + i] = x[i] /\ l + i \in 1 .. l + k
      BY <1>4
    <3>2. x[i] = LF => i > 1 /\ x[i - 1] = CR
      <4>1. SUFFICES ASSUME x[i] = LF PROVE i > 1 /\ x[i - 1] = CR
        OBVIOUS
      <4>2. t[(l + i) - 1] = CR
        BY <2>1, <3>1, <4>1
      <4>3. i > 1
        <5>1. CASE i = 1
          <6>1. (l + i) - 1 = l /\ l \in 1 .. l
            BY <1>1, <5>1
          <6> QED BY <1>2, <1>3, <4>2, <6>1, LineEndIs
        <5> QED BY <1>1, <5>1
      <4>4. i - 1 \in 1 .. k /\ l + (i - 1) = (l + i) - 1
        BY <1>1, <4>3
      <4> QED BY <1>4, <4>2, <4>3, <4>4
    <3>3. x[i] = CR => i < k /\ x[i + 1] = LF
      <4>1. SUFFICES ASSUME x[i] = CR PROVE i < k /\ x[i + 1] = LF
        OBVIOUS
      <4>2. l + i < l + k /\ t[(l + i) + 1] = LF
        BY <2>1, <3>1, <4>1
      <4>3. i < k /\ i + 1 \in 1 .. k /\ l + (i + 1) = (l + i) + 1
        BY <1>1, <4>2
      <4> QED BY <1>4, <4>2, <4>3
    <3> QED BY <3>2, <3>3
  <2>4. /\ \A i \in DOMAIN v : /\ v[i] = LF => i > 1 /\ v[i - 1] = CR
                               /\ v[i] = CR => i < Len(v) /\ v[i + 1] = LF
        /\ \A i \in DOMAIN x : /\ x[i] = LF => i > 1 /\ x[i - 1] = CR
                               /\ x[i] = CR => i < Len(x) /\ x[i + 1] = LF
    BY <1>1, <2>2, <2>3 DEF l, k
  <2> QED BY <2>4 DEF Uniform
<1> QED BY <1>2, <1>5, <1>6 DEF Uniform

\* A text of one kind of line end with a blank line: the block, the end of its last line,
\* the end of the empty line, and what is left.
BlockCut(t, b, e, u) ==
    /\ e \in LineEnds /\ b \in Seq(Bytes) /\ u \in Seq(Bytes)
    /\ t = (b \o e) \o (e \o u)
    /\ ~HasBlock(b \o e)
    /\ b = << >> \/ b[Len(b)] \notin { LF, CR }

\* Either ends in a line feed.
LEMMA LineEndsInLF ==
    ASSUME NEW e \in LineEnds
    PROVE  e \in Seq(Bytes) /\ e # << >> /\ e[Len(e)] = LF
<1>1. CASE e = << LF >>
  <2>1. e \in Seq(Bytes) /\ Len(e) = 1 /\ e[1] = LF
    BY <1>1, LineEndIs
  <2> QED BY <2>1, EmptySeq
<1>2. CASE e = << CR, LF >>
  <2>1. e \in Seq(Bytes) /\ Len(e) = 2 /\ e[2] = LF
    BY <1>2, LineEndIs
  <2> QED BY <2>1, EmptySeq
<1> QED BY <1>1, <1>2 DEF LineEnds

\* A line end twice.
LEMMA TwoEnds ==
    /\ (<< LF >> \o << LF >>)[1] = LF /\ (<< LF >> \o << LF >>)[2] = LF
    /\ (<< CR, LF >> \o << CR, LF >>)[1] = CR /\ (<< CR, LF >> \o << CR, LF >>)[2] = LF
    /\ (<< CR, LF >> \o << CR, LF >>)[3] = CR /\ (<< CR, LF >> \o << CR, LF >>)[4] = LF
<1>1. ASSUME NEW s \in Seq(Bytes), NEW n \in Nat, n = Len(s), NEW i \in 1 .. n
      PROVE  (s \o s)[i] = s[i] /\ (s \o s)[n + i] = s[i]
  <2>1. \A j \in 1 .. n + n : (s \o s)[j] = IF j <= n THEN s[j] ELSE s[j - n]
    BY <1>1, ConcatProperties
  <2>2. i \in 1 .. n + n /\ i <= n /\ n + i \in 1 .. n + n /\ ~(n + i <= n) /\ (n + i) - n = i
    OBVIOUS
  <2> QED BY <2>1, <2>2
<1>2. (<< LF >> \o << LF >>)[1] = LF /\ (<< LF >> \o << LF >>)[2] = LF
  <2> DEFINE e == << LF >>
  <2>1. e \in Seq(Bytes) /\ Len(e) = 1 /\ e[1] = LF
    BY LineEndIs
  <2> HIDE DEF e
  <2>2. (e \o e)[1] = e[1] /\ (e \o e)[1 + 1] = e[1]
    BY <1>1, <2>1, SMTT(30)
  <2> QED BY <2>1, <2>2 DEF e
<1>3. /\ (<< CR, LF >> \o << CR, LF >>)[1] = CR /\ (<< CR, LF >> \o << CR, LF >>)[2] = LF
      /\ (<< CR, LF >> \o << CR, LF >>)[3] = CR /\ (<< CR, LF >> \o << CR, LF >>)[4] = LF
  <2> DEFINE e == << CR, LF >>
  <2>1. e \in Seq(Bytes) /\ Len(e) = 2 /\ e[1] = CR /\ e[2] = LF
    BY LineEndIs
  <2> HIDE DEF e
  <2>2. /\ (e \o e)[1] = e[1] /\ (e \o e)[2] = e[2]
        /\ (e \o e)[2 + 1] = e[1] /\ (e \o e)[2 + 2] = e[2]
    BY <1>1, <2>1, SMTT(30)
  <2> QED BY <2>1, <2>2 DEF e
<1> QED BY <1>2, <1>3

\* Behind n, an empty line with the line ends e.
Twice(t, n, e) ==
    /\ n + 2 * Len(e) <= Len(t)
    /\ \A i \in 1 .. 2 * Len(e) : t[n + i] = (e \o e)[i]
    /\ t[n + 1] = e[1]
    /\ Len(e) = 1 => t[n + 1] = LF /\ t[n + 2] = LF
    /\ Len(e) = 2 => t[n + 1] = CR /\ t[n + 2] = LF

\* Its parts are what the parser takes from it.
LEMMA BlockIsCut ==
    ASSUME NEW t \in Seq(Bytes), Uniform(t), HasBlock(t)
    PROVE  \E e : BlockCut(t, Before(t, NextDelimiter(t).at), e, AfterBlock(t))
<1> DEFINE at == NextDelimiter(t).at
           length == NextDelimiter(t).length
           n == at - 1
           u == AfterBlock(t)
           b == Before(t, at)
           y == From(t, n + 1)
<1>1. Blank(t, at, length) /\ \A p, m : Blank(t, p, m) => at <= p
  BY NextIsFirst
<1>2. /\ at \in Nat \ { 0 } /\ u = From(t, at + length - 1 + 1) /\ u \in Seq(Bytes)
      /\ b = SubSeq(t, 1, n) /\ b \in Seq(Bytes)
  BY BlockParts
<1> HIDE DEF at, length, u, b
<1>3. n \in 0 .. Len(t) /\ n \in Nat /\ at = n + 1 /\ Len(t) \in Nat
  BY <1>1, <1>2 DEF Blank
<1> HIDE DEF n
<1>4. /\ b \in Seq(Bytes) /\ Len(b) = n /\ y \in Seq(Bytes) /\ Len(y) = Len(t) - n /\ b \o y = t
      /\ \A i \in 1 .. n : b[i] = t[i]
      /\ \A i \in 1 .. Len(t) - n : y[i] = t[n + i]
  BY <1>2, <1>3, Pieces
<1> HIDE DEF y
<1>5. PICK e \in LineEnds : length = 2 * Len(e) /\ Twice(t, n, e)
  <2>1. CASE length = 2
    <3> DEFINE e == << LF >>
    <3>1. n + 1 \in 1 .. Len(t) - 1 /\ t[n + 1] = LF /\ t[n + 2] = LF
      <4>1. (n + 1) + 1 = n + 2
        BY <1>3
      <4> QED BY <1>1, <1>3, <2>1, <4>1 DEF Blank
    <3>2. (e \o e)[1] = LF /\ (e \o e)[2] = LF
      BY TwoEnds
    <3>3. e \in LineEnds /\ Len(e) = 1 /\ e[1] = LF
      BY DEF LineEnds
    <3>4. 2 * Len(e) = 2
      BY <3>3
    <3>5. \A i \in 1 .. 2 : t[n + i] = (e \o e)[i]
      <4>1. \A i \in 1 .. 2 : i = 1 \/ i = 2
        OBVIOUS
      <4> HIDE DEF e
      <4> QED BY <3>1, <3>2, <4>1
    <3> HIDE DEF e
    <3>6. n + 2 <= Len(t)
      BY <1>3, <3>1
    <3>7. Twice(t, n, e)
      <4>1. n + 2 * Len(e) <= Len(t) /\ \A i \in 1 .. 2 * Len(e) : t[n + i] = (e \o e)[i]
        BY <3>4, <3>5, <3>6
      <4>2. /\ t[n + 1] = e[1]
            /\ Len(e) = 1 => t[n + 1] = LF /\ t[n + 2] = LF
            /\ Len(e) = 2 => t[n + 1] = CR /\ t[n + 2] = LF
        BY <3>1, <3>3
      <4> QED BY <4>1, <4>2, Zenon DEF Twice
    <3> QED BY <2>1, <3>3, <3>4, <3>7
  <2>2. CASE length = 4
    <3> DEFINE e == << CR, LF >>
    <3>1. n + 1 \in 1 .. Len(t) - 3 /\ t[n + 1] = CR /\ t[n + 2] = LF /\ t[n + 3] = CR /\ t[n + 4] = LF
      <4>1. (n + 1) + 1 = n + 2 /\ (n + 1) + 2 = n + 3 /\ (n + 1) + 3 = n + 4
        BY <1>3
      <4> QED BY <1>1, <1>3, <2>2, <4>1 DEF Blank
    <3>2. (e \o e)[1] = CR /\ (e \o e)[2] = LF /\ (e \o e)[3] = CR /\ (e \o e)[4] = LF
      BY TwoEnds
    <3>3. e \in LineEnds /\ Len(e) = 2 /\ e[1] = CR
      BY DEF LineEnds
    <3>4. 2 * Len(e) = 4
      BY <3>3
    <3>5. \A i \in 1 .. 4 : t[n + i] = (e \o e)[i]
      <4>1. \A i \in 1 .. 4 : i = 1 \/ i = 2 \/ i = 3 \/ i = 4
        OBVIOUS
      <4> HIDE DEF e
      <4> QED BY <3>1, <3>2, <4>1
    <3> HIDE DEF e
    <3>6. n + 4 <= Len(t)
      BY <1>3, <3>1
    <3>7. Twice(t, n, e)
      <4>1. n + 2 * Len(e) <= Len(t) /\ \A i \in 1 .. 2 * Len(e) : t[n + i] = (e \o e)[i]
        BY <3>4, <3>5, <3>6
      <4>2. /\ t[n + 1] = e[1]
            /\ Len(e) = 1 => t[n + 1] = LF /\ t[n + 2] = LF
            /\ Len(e) = 2 => t[n + 1] = CR /\ t[n + 2] = LF
        BY <3>1, <3>3
      <4> QED BY <4>1, <4>2, Zenon DEF Twice
    <3> QED BY <2>2, <3>3, <3>4, <3>7
  <2>3. length = 2 \/ length = 4
    BY <1>1 DEF Blank
  <2> QED BY <2>1, <2>2, <2>3
<1>6. e \in Seq(Bytes) /\ Len(e) \in { 1, 2 }
  BY LineEndIs DEF LineEnds
<1> DEFINE d == e \o e
           k == Len(e)
           v == b \o e
<1>7. d \in Seq(Bytes) /\ Len(d) = 2 * k /\ k \in 1 .. 2 /\ k \in Nat
  <2>1. d \in Seq(Bytes) /\ Len(d) = k + k
    BY <1>6, ConcatProperties
  <2>2. k \in 1 .. 2 /\ k \in Nat
    BY <1>6
  <2> HIDE DEF d, k
  <2> QED BY <2>1, <2>2
<1>8. y = d \o u
  <2>1. Len(d) <= Len(y) /\ \A i \in 1 .. Len(d) : y[i] = d[i]
    <3>0. n + 2 * k <= Len(t) /\ \A i \in 1 .. 2 * k : t[n + i] = d[i]
      BY <1>5 DEF Twice
    <3> HIDE DEF d, k
    <3>1. 2 * k \in 0 .. Len(t) - n /\ \A i \in 1 .. 2 * k : t[n + i] = d[i]
      BY <1>3, <1>7, <3>0
    <3>2. \A i \in 1 .. 2 * k : i \in 1 .. Len(t) - n
      BY <1>3, <1>7, <3>1
    <3>3. \A i \in 1 .. 2 * k : y[i] = d[i]
      BY <1>4, <3>1, <3>2
    <3>4. 2 * k <= Len(y)
      BY <1>3, <1>4, <3>1
    <3> QED BY <1>7, <3>3, <3>4
  <2>2. 2 * k \in 0 .. Len(y)
    <3> HIDE DEF d, k
    <3> QED BY <1>4, <1>7, <2>1
  <2>3. From(t, n + 2 * k + 1) = From(y, 2 * k + 1)
    <3>1. From(b \o y, Len(b) + 2 * k + 1) = From(y, 2 * k + 1)
      BY <1>4, <2>2, PiecesOfConcat
    <3> QED BY <1>4, <3>1
  <2>4. at + length - 1 + 1 = n + 2 * k + 1
    <3>1. length = 2 * k
      BY <1>5
    <3> HIDE DEF k
    <3> QED BY <1>3, <1>7, <3>1
  <2>5. u = From(y, Len(d) + 1)
    BY <1>2, <1>7, <2>3, <2>4
  <2> HIDE DEF d
  <2> QED BY <1>4, <1>7, <2>1, <2>5, Leads
<1>9. t = v \o (e \o u) /\ v \in Seq(Bytes) /\ e \o u \in Seq(Bytes)
  <2> DEFINE x == e \o u
  <2>1. x \in Seq(Bytes) /\ v \in Seq(Bytes)
    BY <1>2, <1>4, <1>6, ConcatProperties
  <2>2. (e \o e) \o u = e \o x
    BY <1>2, <1>6, Associates
  <2> HIDE DEF x
  <2>3. (b \o e) \o x = b \o (e \o x)
    BY <1>4, <1>6, <2>1, Associates, ZenonT(60)
  <2> QED BY <1>4, <1>8, <2>1, <2>2, <2>3 DEF x
<1> HIDE DEF d, k
<1>10. /\ Len(v) = n + k /\ Len(v) <= Len(t)
      /\ \A i \in 1 .. n + k : v[i] = t[i]
  <2>1. Len(v) = n + k
    <3>1. Len(v) = Len(b) + Len(e)
      BY <1>4, <1>6, ConcatProperties
    <3> QED BY <1>4, <3>1 DEF k
  <2> HIDE DEF v
  <2> DEFINE x == e \o u
  <2> HIDE DEF x
  <2>2. x \in Seq(Bytes) /\ t = v \o x
    BY <1>9 DEF x
  <2>3. /\ Len(t) = Len(v) + Len(x) /\ Len(x) \in Nat
        /\ \A i \in 1 .. Len(v) + Len(x) : t[i] = IF i <= Len(v) THEN v[i] ELSE x[i - Len(v)]
    <3>1. /\ Len(v \o x) = Len(v) + Len(x)
          /\ \A i \in 1 .. Len(v) + Len(x) : (v \o x)[i] = IF i <= Len(v) THEN v[i] ELSE x[i - Len(v)]
      BY <1>9, <2>2, ConcatProperties
    <3>2. Len(x) \in Nat
      BY <2>2
    <3> QED BY <2>2, <3>1, <3>2
  <2>4. ASSUME NEW i \in 1 .. n + k PROVE v[i] = t[i]
    <3>1. i \in 1 .. Len(v) + Len(x) /\ i <= Len(v)
      BY <1>3, <1>7, <2>1, <2>3
    <3> QED BY <2>3, <3>1
  <2> QED BY <1>3, <1>7, <2>1, <2>3, <2>4
<1> HIDE DEF v
<1>11. ~HasBlock(v)
  <2>1. ASSUME NEW p, NEW m, Blank(v, p, m) PROVE FALSE
    <3>1. /\ p \in Nat /\ p # 0 /\ m \in { 2, 4 } /\ p + m - 1 <= n + k
          /\ m = 2 => p \in 1 .. n + k /\ p + 1 \in 1 .. n + k /\ v[p] = LF /\ v[p + 1] = LF
          /\ m = 4 => p \in 1 .. n + k /\ p + 1 \in 1 .. n + k /\ p + 2 \in 1 .. n + k /\ p + 3 \in 1 .. n + k
      BY <1>3, <1>7, <1>10, <2>1 DEF Blank
    <3>2. Blank(t, p, m)
      BY <1>3, <1>7, <1>10, <2>1, <3>1 DEF Blank
    <3>3. n + 1 <= p
      BY <1>1, <1>3, <3>2
    <3>4. k = 2 /\ m = 2 /\ p = n + 1
      BY <1>3, <1>7, <3>1, <3>3
    <3>5. t[n + 1] = CR
      BY <1>5, <3>4 DEF k, Twice
    <3> QED BY <1>10, <3>1, <3>4, <3>5, LineEndIs
  <2> QED BY <1>9, <2>1, NextIsFirst
<1>12. b = << >> \/ b[Len(b)] \notin { LF, CR }
  <2>1. SUFFICES ASSUME b # << >> PROVE b[Len(b)] \notin { LF, CR }
    OBVIOUS
  <2>2. n \in 1 .. n /\ n # 0 /\ b[Len(b)] = t[n] /\ n \in 1 .. Len(t) /\ n + 1 \in 1 .. Len(t)
    <3>1. n # 0
      BY <1>4, <2>1, EmptySeq
    <3>2. n \in 1 .. n /\ n + 1 \in 1 .. Len(t) /\ n \in 1 .. Len(t)
      <4>1. n + 2 * k <= Len(t)
        BY <1>5 DEF k, Twice
      <4> QED BY <1>3, <1>7, <3>1, <4>1
    <3> QED BY <1>4, <3>1, <3>2
  <2>3. DOMAIN t = 1 .. Len(t)
    OBVIOUS
  <2>4. ASSUME t[n] = CR PROVE FALSE
    <3>1. CR \in Range(t)
      BY <2>2, <2>3, <2>4 DEF Range
    <3>2. t[n + 1] = LF
      BY <2>2, <2>3, <2>4, <3>1 DEF Uniform
    <3>4. Len(e) = 1
      BY <1>5, <1>6, <3>2, LineEndIs DEF Twice
    <3>5. t[n + 2] = LF /\ n + 2 \in 1 .. Len(t)
      <4>1. t[n + 2] = LF /\ n + 2 * 1 <= Len(t)
        BY <1>5, <3>4 DEF Twice
      <4> QED BY <1>3, <4>1
    <3>6. t[(n + 2) - 1] = CR
      BY <2>3, <3>1, <3>5 DEF Uniform
    <3>7. (n + 2) - 1 = n + 1
      BY <1>3
    <3> QED BY <3>2, <3>6, <3>7, LineEndIs
  <2>5. ASSUME t[n] = LF PROVE FALSE
    <3>1. CASE Len(e) = 1
      <4>1. t[n + 1] = LF /\ n \in 1 .. Len(t) - 1
        BY <1>3, <1>5, <2>2, <3>1 DEF Twice
      <4>2. Blank(t, n, 2)
        BY <2>5, <4>1 DEF Blank
      <4>3. at <= n
        BY <1>1, <4>2
      <4> QED BY <1>3, <4>3
    <3>2. CASE Len(e) = 2
      <4>1. t[n + 1] = CR /\ t[n + 2] = LF /\ n + 4 <= Len(t)
        <5>1. n + 2 * 2 <= Len(t) /\ 2 * 2 = 4
          BY <1>5, <3>2 DEF Twice
        <5> QED BY <1>5, <3>2, <5>1 DEF Twice
      <4>2. CR \in Range(t)
        BY <2>2, <2>3, <4>1 DEF Range
      <4>3. n > 1 /\ t[n - 1] = CR
        BY <2>2, <2>3, <2>5, <4>2 DEF Uniform
      <4>4. /\ n - 1 \in 1 .. Len(t) - 3 /\ (n - 1) + 1 = n /\ (n - 1) + 2 = n + 1 /\ (n - 1) + 3 = n + 2
        BY <1>3, <4>1, <4>3
      <4>5. Blank(t, n - 1, 4)
        BY <2>5, <4>1, <4>3, <4>4 DEF Blank
      <4>6. at <= n - 1
        BY <1>1, <4>5
      <4> QED BY <1>3, <4>6
    <3> QED BY <1>6, <3>1, <3>2
  <2> QED BY <2>2, <2>4, <2>5
<1>13. BlockCut(t, b, e, u)
  BY <1>2, <1>5, <1>9, <1>11, <1>12 DEF BlockCut, v
<1> QED BY <1>13 DEF b, u, at

\* Block by block, what is heard of the blocks is what the lines say.
LEMMA BlocksAreHeard ==
    ASSUME NEW text \in Seq(Bytes), Uniform(text)
    PROVE  HeardOf(Drain[text].blocks) = ByLines(Lines(text))
<1> DEFINE T == { t \in Seq(Bytes) : Uniform(t) => HeardOf(Drain[t].blocks) = ByLines(Lines(t)) }
<1>1. ASSUME NEW t \in Seq(Bytes), ~HasBlock(t) PROVE t \in T
  <2>1. SUFFICES ASSUME Uniform(t) PROVE HeardOf(Drain[t].blocks) = ByLines(Lines(t))
    OBVIOUS
  <2>2. Drain[t].blocks = << >>
    BY <1>1, DrainTurn
  <2>3. HeardOf(<< >>) = << >>
    <3>1. << >> \in Seq(Bytes) /\ << >> \in Seq(Seq(Bytes))
      OBVIOUS
    <3> QED BY <3>1, HeardOfBlocks
  <2>4. Lines(t) \in Seq(Seq(Bytes)) /\ AtMostFirst(Lines(t))
    BY <1>1, <2>1, LinePartsType, NoBlankNoEmpty
  <2> QED BY <2>2, <2>3, <2>4, OneGroup
<1>2. ASSUME NEW t \in Seq(Bytes), HasBlock(t), AfterBlock(t) \in T PROVE t \in T
  <2>1. SUFFICES ASSUME Uniform(t) PROVE HeardOf(Drain[t].blocks) = ByLines(Lines(t))
    OBVIOUS
  <2> DEFINE b == Before(t, NextDelimiter(t).at)
             u == AfterBlock(t)
             rest == Drain[u].blocks
  <2>2. PICK e : BlockCut(t, b, e, u)
    BY <1>2, <2>1, BlockIsCut
  <2>3. Drain[t].blocks = << b >> \o rest
    BY <1>2, DrainTurn
  <2>4. u \in Seq(Bytes) /\ (Uniform(u) => HeardOf(rest) = ByLines(Lines(u)))
    BY <1>2
  <2> HIDE DEF b, u
  <2>5. rest \in Seq(Seq(Bytes))
    BY <2>4, DrainTypes DEF Drained
  <2> HIDE DEF rest
  <2> DEFINE v == b \o e
             x == e \o u
             L == Lines(v)
             M == Lines(u)
             z == << << >> >>
  <2>6. /\ b \in Seq(Bytes) /\ e \in LineEnds /\ e \in Seq(Bytes) /\ e # << >> /\ e[Len(e)] = LF
        /\ (b = << >> \/ b[Len(b)] \notin { LF, CR }) /\ t = v \o x /\ ~HasBlock(v)
    <3>1. e \in LineEnds
      BY <2>2 DEF BlockCut
    <3>2. e \in Seq(Bytes) /\ e # << >> /\ e[Len(e)] = LF
      BY <3>1, LineEndsInLF
    <3> QED BY <2>2, <3>1, <3>2 DEF BlockCut
  <2>7. v \in Seq(Bytes) /\ v # << >> /\ v[Len(v)] = LF /\ x \in Seq(Bytes)
    <3>1. /\ v \in Seq(Bytes) /\ Len(v) = Len(b) + Len(e)
          /\ \A i \in 1 .. Len(b) + Len(e) : v[i] = IF i <= Len(b) THEN b[i] ELSE e[i - Len(b)]
      BY <2>6, ConcatProperties
    <3>2. Len(b) \in Nat /\ Len(e) \in Nat /\ Len(e) # 0
      BY <2>6, EmptySeq
    <3>3. x \in Seq(Bytes)
      BY <2>4, <2>6, ConcatProperties
    <3> HIDE DEF v
    <3>4. Len(b) + Len(e) \in 1 .. Len(b) + Len(e) /\ ~(Len(b) + Len(e) <= Len(b))
          /\ (Len(b) + Len(e)) - Len(b) = Len(e) /\ Len(b) + Len(e) # 0
      BY <3>2
    <3>5. v[Len(v)] = LF
      BY <2>6, <3>1, <3>4
    <3>6. v # << >>
      BY <3>1, <3>4, EmptySeq
    <3> QED BY <3>1, <3>3, <3>5, <3>6
  <2>8. Uniform(v) /\ Uniform(u)
    <3> HIDE DEF v
    <3>1. Uniform(v) /\ Uniform(x)
      <4> HIDE DEF x
      <4> QED BY <2>1, <2>6, <2>7, UniformParts
    <3>2. Uniform(u)
      BY <2>4, <2>6, <3>1, UniformParts
    <3> QED BY <3>1, <3>2
  <2>9. Heard(L) = Heard(Lines(b)) /\ Lines(e) = z
    BY <2>6, HeardWithEnd
  <2>10. Lines(x) = z \o M
    BY <2>4, <2>6, <2>9, LinesConcat
  <2> HIDE DEF v, x
  <2>11. L \in Seq(Seq(Bytes)) /\ M \in Seq(Seq(Bytes)) /\ AtMostFirst(L)
    BY <2>4, <2>6, <2>7, <2>8, LinePartsType, NoBlankNoEmpty
  <2>12. Lines(t) = L \o (z \o M)
    BY <2>6, <2>7, <2>10, LinesConcat, ZenonT(60)
  <2> HIDE DEF L, M
  <2>13. ByLines(L \o z) = Heard(L)
    BY <2>11, OneGroup
  <2>14. z \in Seq(Seq(Bytes)) /\ z # << >> /\ z[Len(z)] = << >> /\ Len(z) = 1
    <3>1. << >> \in Seq(Bytes)
      OBVIOUS
    <3> QED BY <3>1
  <2> HIDE DEF z
  <2> DEFINE E == Seq(Bytes)
             y == L \o z
  <2>15. /\ y \in Seq(E) /\ y[Len(y)] = << >>
         /\ y \o M = L \o (z \o M)
    <3> HIDE DEF E
    <3>1. L \in Seq(E) /\ z \in Seq(E) /\ M \in Seq(E)
      BY <2>11, <2>14 DEF E
    <3>2. /\ y \in Seq(E) /\ Len(y) = Len(L) + Len(z)
          /\ \A i \in 1 .. Len(L) + Len(z) : y[i] = IF i <= Len(L) THEN L[i] ELSE z[i - Len(L)]
      BY <3>1, ConcatProperties
    <3>3. y \o M = L \o (z \o M)
      BY <3>1, ConcatAssociative
    <3> HIDE DEF y
    <3>4. Len(L) \in Nat
      BY <3>1
    <3>5. /\ Len(L) + 1 \in 1 .. Len(L) + 1 /\ ~(Len(L) + 1 <= Len(L))
          /\ (Len(L) + 1) - Len(L) = 1
      BY <3>4
    <3>6. y[Len(y)] = << >>
      BY <2>14, <3>2, <3>5
    <3> QED BY <3>2, <3>3, <3>6
  <2> HIDE DEF y
  <2>16. ByLines(y \o M) = ByLines(y) \o ByLines(M)
    BY <2>11, <2>15, ByLinesConcat
  <2>17. ByLines(Lines(t)) = Heard(L) \o ByLines(M)
    BY <2>12, <2>13, <2>15, <2>16 DEF y
  <2>18. HeardOf(<< b >> \o rest) = Heard(Lines(b)) \o HeardOf(rest)
    BY <2>5, <2>6, HeardOfBlocks
  <2> QED BY <2>3, <2>4, <2>8, <2>9, <2>17, <2>18 DEF M
<1>3. T = Seq(Bytes)
  <2>1. T \in SUBSET Seq(Bytes)
    OBVIOUS
  <2> HIDE DEF T
  <2> QED BY <1>1, <1>2, <2>1, AllTextsByBlocks
<1> QED BY <1>3

------------------------------------------------------------------------------
(***************************************************************************)
(* The parser.  Its state is a function of the bytes that have arrived.    *)
(***************************************************************************)
SInv == body \in Seq(Bytes) /\ arrived \in 0 .. Len(body) /\ CutsDoNotMatter

\* At the start nothing has arrived.
LEMMA InitCuts == Init => SInv
<1> SUFFICES ASSUME Init PROVE SInv
  OBVIOUS
<1>1. body \in Seq(Bytes) /\ arrived = 0 /\ Len(body) \in Nat
  BY BodiesAssumption DEF Init
<1>2. Received = << >>
  BY <1>1 DEF Received
<1> DEFINE e == << >>
<1>3. e \in Seq(Bytes) /\ Len(e) = 0 /\ \A x \in Seq(Bytes) : Len(x) = 0 => x = e
  BY EmptySeq
<1> HIDE DEF e
<1>4. ValidUpTo(e) = 0
  <2>1. ValidUpTo(e) \in 0 .. Len(e)
    BY <1>3, RestIsUndecoded
  <2> QED BY <1>3, <2>1
<1>5. SubSeq(e, 1, 0) = e /\ From(e, 0 + 1) = e
  <2>1. 0 \in 0 .. Len(e)
    BY <1>3
  <2>2. /\ SubSeq(e, 1, 0) \in Seq(Bytes) /\ Len(SubSeq(e, 1, 0)) = 0
        /\ From(e, 0 + 1) \in Seq(Bytes) /\ Len(From(e, 0 + 1)) = Len(e) - 0
    BY <1>3, <2>1, Pieces
  <2> QED BY <1>3, <2>2
<1>6. ~HasBlock(e)
  <2>1. SUFFICES ASSUME HasBlock(e) PROVE FALSE
    OBVIOUS
  <2>2. AfterBlock(e) \in Seq(Bytes) /\ Len(AfterBlock(e)) < 0
    BY <1>3, <2>1, BlockParts
  <2> QED BY <2>2
<1>7. Drain[e].blocks = e /\ Drain[e].left = e
  BY <1>3, <1>6, DrainTurn DEF e
<1>8. CutsDoNotMatter
  <2>1. Received = e /\ remainder = e /\ buffer = e /\ blocks = e
    BY <1>2 DEF e, Init
  <2> QED BY <1>4, <1>5, <1>7, <2>1 DEF CutsDoNotMatter
<1> QED BY <1>1, <1>8 DEF SInv

\* Another chunk leads to where all that has arrived would have led at once.
LEMMA ChunkCuts == SInv /\ [Chunk]_vars => SInv'
<1> SUFFICES ASSUME SInv, [Chunk]_vars PROVE SInv'
  OBVIOUS
<1>1. CASE UNCHANGED vars
  BY <1>1 DEF vars, SInv, CutsDoNotMatter, Received
<1>2. CASE Chunk
  <2>1. PICK n \in arrived + 1 .. Len(body) :
           /\ arrived' = n
           /\ Parse(SubSeq(body, arrived + 1, n))
           /\ UNCHANGED body
    BY <1>2 DEF Chunk
  <2>2. body \in Seq(Bytes) /\ arrived \in 0 .. Len(body) /\ CutsDoNotMatter
    BY DEF SInv
  <2> DEFINE s == Received
             t == SubSeq(body, arrived + 1, n)
             m == ValidUpTo(s)
             x == SubSeq(s, 1, m)
             k == ValidUpTo(remainder \o t)
             y == SubSeq(remainder \o t, 1, k)
  <2>3. s \in Seq(Bytes) /\ t \in Seq(Bytes) /\ SubSeq(body, 1, n) = s \o t
    <3>1. s \in Seq(Bytes)
      BY <2>2, Pieces DEF Received
    <3>2. n \in Int /\ arrived + 1 \in Int /\ \A i \in arrived + 1 .. n : body[i] \in Bytes
      BY <2>1, <2>2, ElementOfSeq
    <3>3. t \in Seq(Bytes)
      BY <2>2, <3>2, SubSeqProperties
    <3>4. SubSeq(body, 1, arrived) \o SubSeq(body, arrived + 1, n) = SubSeq(body, 1, n)
      <4>1. /\ 1 \in 1 .. Len(body) + 1 /\ arrived \in 1 - 1 .. Len(body)
            /\ n \in arrived .. Len(body)
        BY <2>1, <2>2
      <4> QED BY <2>2, <4>1, ConcatAdjacentSubSeq
    <3> QED BY <3>1, <3>3, <3>4 DEF Received
  <2>4. s' = s \o t /\ arrived' \in 0 .. Len(body') /\ body' = body
    BY <2>1, <2>2, <2>3 DEF Received
  <2>5. remainder = From(s, m + 1) /\ buffer = Drain[x].left /\ blocks = Drain[x].blocks
    BY <2>2 DEF CutsDoNotMatter
  <2>6. /\ remainder' = From(remainder \o t, k + 1)
        /\ buffer' = Drain[buffer \o y].left
        /\ blocks' = blocks \o Drain[buffer \o y].blocks
    BY <2>1 DEF Parse, Combined, Framed
  <2>7. m \in 0 .. Len(s)
    BY <2>3, RestIsUndecoded
  <2> HIDE DEF s, t, m
  <2>8. x \in Seq(Bytes) /\ remainder \in Seq(Bytes) /\ remainder \o t \in Seq(Bytes)
    <3>1. x \in Seq(Bytes) /\ remainder \in Seq(Bytes)
      BY <2>3, <2>5, <2>7, Pieces
    <3> QED BY <2>3, <3>1, ConcatProperties
  <2>9. k \in 0 .. Len(remainder \o t)
    BY <2>8, RestIsUndecoded
  <2> HIDE DEF x, k
  <2>10. y \in Seq(Bytes)
    BY <2>8, <2>9, Pieces
  <2> HIDE DEF y
  <2>11. /\ ValidUpTo(s \o t) = m + k
         /\ SubSeq(s \o t, 1, m + k) = x \o y
         /\ From(s \o t, m + k + 1) = From(remainder \o t, k + 1)
    BY <2>3, <2>5, ValidGoesOn DEF m, x, k, y
  <2>12. Drain[x \o y].blocks = blocks' /\ Drain[x \o y].left = buffer'
    <3>1. GoesOn(x, y)
      BY <2>8, <2>10, DrainGoesOn
    <3> QED BY <2>5, <2>6, <3>1 DEF GoesOn
  <2>13. CutsDoNotMatter'
    <3>1. /\ remainder' = From(s', ValidUpTo(s') + 1)
          /\ buffer' = Drain[SubSeq(s', 1, ValidUpTo(s'))].left
          /\ blocks' = Drain[SubSeq(s', 1, ValidUpTo(s'))].blocks
      BY <2>4, <2>6, <2>11, <2>12
    <3> QED BY <3>1 DEF CutsDoNotMatter, s
  <2> QED BY <2>2, <2>4, <2>13 DEF SInv
<1> QED BY <1>1, <1>2

\* The parser's invariant.
LEMMA AlwaysCuts == Spec => []SInv
<1> QED BY InitCuts, ChunkCuts, PTL DEF Spec

(***************************************************************************)
(* Wherever the body is cut into chunks - in a character, in a line end,   *)
(* in a blank line - the parser keeps and has handed on what it would if   *)
(* all that has arrived had come in one chunk.                             *)
(***************************************************************************)
THEOREM CutsAreUnseen == Spec => []CutsDoNotMatter
<1>1. SInv => CutsDoNotMatter
  BY DEF SInv
<1> QED BY <1>1, AlwaysCuts, PTL

(***************************************************************************)
(* As long as no byte has come that belongs to no character, at most the   *)
(* two bytes of an unfinished character wait: nothing is held back for     *)
(* good.                                                                   *)
(***************************************************************************)
THEOREM OnlyBrokenWaits == Spec => []HeldBackIfBroken
<1>1. SInv => HeldBackIfBroken
  <2>1. SUFFICES ASSUME SInv, Missing(Received) # Broken PROVE Len(remainder) <= 2
    BY DEF HeldBackIfBroken
  <2> DEFINE s == Received
  <2>2. s \in Seq(Bytes) /\ remainder = From(s, ValidUpTo(s) + 1)
    BY <2>1, Pieces DEF SInv, CutsDoNotMatter, Received
  <2>3. Missing(s) # Broken
    BY <2>1
  <2> HIDE DEF s
  <2>4. ValidUpTo(s) \in 0 .. Len(s)
    BY <2>2, RestIsUndecoded
  <2>5. Len(remainder) = Len(s) - ValidUpTo(s)
    BY <2>2, <2>4, Pieces
  <2> QED BY <2>2, <2>3, <2>5, AtMostTwoWait
<1> QED BY <1>1, AlwaysCuts, PTL

(***************************************************************************)
(* What the parser keeps as text and hands on is made of whole characters, *)
(* as the unchecked conversion of parse_chat_sse_bytes needs, and nothing  *)
(* waits that could be decoded or handed on.                               *)
(***************************************************************************)
THEOREM TypeCorrect == Spec => []TypeOK
<1>1. SInv => TypeOK
  <2>1. SUFFICES ASSUME SInv PROVE TypeOK
    OBVIOUS
  <2> DEFINE s == Received
             n == ValidUpTo(s)
             x == SubSeq(s, 1, n)
  <2>2. /\ s \in Seq(Bytes) /\ remainder = From(s, n + 1)
        /\ buffer = Drain[x].left /\ blocks = Drain[x].blocks
    BY <2>1, Pieces DEF SInv, CutsDoNotMatter, Received
  <2> HIDE DEF s
  <2>3. n \in 0 .. Len(s) /\ Missing(x) = 0 /\ ValidUpTo(remainder) = 0
    BY <2>2, RestIsUndecoded
  <2> HIDE DEF n
  <2>4. x \in Seq(Bytes)
    BY <2>2, <2>3, Pieces
  <2> HIDE DEF x
  <2>5. AllWhole(Drain[x]) /\ Drained(Drain[x])
    BY <2>3, <2>4, DrainIsWhole, DrainTypes
  <2>6. \A text \in Range(blocks) \cup { buffer } : Missing(text) = 0
    BY <2>2, <2>5 DEF AllWhole, Range
  <2>7. ~HasBlock(buffer)
    BY <2>2, <2>5 DEF Drained
  <2> QED BY <2>1, <2>3, <2>6, <2>7 DEF SInv, TypeOK
<1> QED BY <1>1, AlwaysCuts, PTL

(***************************************************************************)
(* With either kind of line end, what the reader hears of the blocks that  *)
(* were handed on are the events that the standard's reading, line by      *)
(* line, finds in all the text that has arrived: none is lost, split,      *)
(* joined to another or late.                                              *)
(***************************************************************************)
THEOREM BlocksAreEvents == Spec => []FramedAsLines
<1>1. SInv => FramedAsLines
  <2>1. SUFFICES ASSUME SInv PROVE FramedAsLines
    OBVIOUS
  <2> DEFINE s == Received
             n == ValidUpTo(s)
             x == SubSeq(s, 1, n)
  <2>2. s \in Seq(Bytes) /\ blocks = Drain[x].blocks
    BY <2>1, Pieces DEF SInv, CutsDoNotMatter, Received
  <2> HIDE DEF s
  <2>3. n \in 0 .. Len(s)
    BY <2>2, RestIsUndecoded
  <2> HIDE DEF n
  <2>4. x \in Seq(Bytes)
    BY <2>2, <2>3, Pieces
  <2> HIDE DEF x
  <2>5. Uniform(x) => HeardOf(blocks) = ByLines(Lines(x))
    BY <2>2, <2>4, BlocksAreHeard
  <2> QED BY <2>5 DEF FramedAsLines, HeardOf, x, n, s
<1> QED BY <1>1, AlwaysCuts, PTL
==============================================================================
