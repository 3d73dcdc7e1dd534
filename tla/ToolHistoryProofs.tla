-------------------------- MODULE ToolHistoryProofs --------------------------
(***************************************************************************)
(* Theorems about the continuation of tool calls.  First come lemmas about *)
(* the functions that read or rewrite a history item by item (ThoseOf,     *)
(* Extract, Replay, the shapes): each is empty for nothing, known for one  *)
(* item, and put together for two parts.  Tells says of messages that they *)
(* are a conversation, Fluent of items that each output follows its call.  *)
(* RecordTells and ContinuedTells carry the one over from a stored history *)
(* to what is sent upstream, StatelessTells from the items of a request.   *)
(* HInv is the invariant.                                                  *)
(***************************************************************************)
EXTENDS ToolHistory, SequenceTheorems, FiniteSetTheorems, WellFoundedInduction, TLAPS

\* The order of the naturals, as a relation, is well founded.
LEMMA SmallerIsWellFounded == IsWellFoundedOn({ p \in Nat \X Nat : p[1] < p[2] }, Nat)
<1>1. IsWellFoundedOn(OpToRel(<, Nat), Nat)
  BY NatLessThanWellFounded
<1>2. { p \in Nat \X Nat : p[1] < p[2] } = OpToRel(<, Nat)
  BY DEF OpToRel
<1> QED BY <1>1, <1>2

\* A set of numbers that is not empty has a least one.
LEMMA Least ==
    ASSUME NEW T \in SUBSET Nat, T # {}
    PROVE  \E x \in T : \A y \in T : x <= y
<1> DEFINE R == { p \in Nat \X Nat : p[1] < p[2] }
<1>1. PICK x \in T : \A y \in T : ~(<< y, x >> \in R)
  <2>1. IsWellFoundedOn(R, Nat)
    BY SmallerIsWellFounded
  <2> HIDE DEF R
  <2> QED BY <2>1, WFMin
<1>2. \A y \in T : ~(y < x)
  BY <1>1
<1> QED BY <1>2

\* A set that holds 0, and with each number the next, holds all numbers.
LEMMA AllNumbers ==
    ASSUME NEW Q \in SUBSET Nat, 0 \in Q, \A n \in Q : n + 1 \in Q
    PROVE  Q = Nat
<1>1. SUFFICES ASSUME Nat \ Q # {} PROVE FALSE
  OBVIOUS
<1>2. PICK x \in Nat \ Q : \A y \in Nat \ Q : x <= y
  BY <1>1, Least
<1>3. CASE x = 0
  BY <1>2, <1>3
<1>4. CASE x # 0
  <2>1. x - 1 \in Nat /\ ~(x <= x - 1) /\ (x - 1) + 1 = x
    BY <1>4
  <2>2. x - 1 \in Q
    BY <1>2, <2>1
  <2> QED BY <1>2, <2>1, <2>2
<1> QED BY <1>3, <1>4

(***************************************************************************)
(* Sequences.                                                              *)
(***************************************************************************)

\* A function on the first numbers is a sequence.
LEMMA FirstNumbers ==
    ASSUME NEW S, NEW n \in Nat, NEW f \in [ 1 .. n -> S ]
    PROVE  f \in Seq(S) /\ Len(f) = n
<1>1. f \in Seq(S)
  BY SeqDef
<1>2. DOMAIN f = 1 .. Len(f) /\ Len(f) \in Nat /\ DOMAIN f = 1 .. n
  BY <1>1
<1>3. 1 .. Len(f) = 1 .. n
  BY <1>2
<1>4. \A i, j \in Nat : 1 .. i = 1 .. j => i = j
  <2>1. ASSUME NEW i \in Nat, NEW j \in Nat, 1 .. i = 1 .. j, i < j PROVE FALSE
    <3>1. j \in 1 .. j /\ j \notin 1 .. i
      BY <2>1
    <3> QED BY <2>1, <3>1
  <2> QED BY <2>1
<1> QED BY <1>1, <1>2, <1>3, <1>4, Zenon

\* A sequence that has one element more.
LEMMA OneMore ==
    ASSUME NEW S, NEW s \in Seq(S), NEW r \in Seq(S), NEW x \in S, Len(r) = Len(s) + 1,
           \A i \in 1 .. Len(s) : r[i] = s[i], r[Len(s) + 1] = x
    PROVE  r = Append(s, x)
<1>1. /\ Append(s, x) \in Seq(S) /\ Len(Append(s, x)) = Len(s) + 1
      /\ \A i \in 1 .. Len(s) : Append(s, x)[i] = s[i]
      /\ Append(s, x)[Len(s) + 1] = x
  BY AppendProperties
<1>2. \A i \in 1 .. Len(s) + 1 : i \in 1 .. Len(s) \/ i = Len(s) + 1
  OBVIOUS
<1>3. \A i \in 1 .. Len(r) : r[i] = Append(s, x)[i]
  BY <1>1, <1>2
<1> QED BY <1>1, <1>3, SeqEqual

\* A set of sequences that has the empty one, and with each its extensions, has all.
LEMMA AllSequences ==
    ASSUME NEW S, NEW Q \in SUBSET Seq(S), << >> \in Q, \A s \in Q : \A x \in S : Append(s, x) \in Q
    PROVE  Q = Seq(S)
<1> DEFINE N == { n \in Nat : \A s \in Seq(S) : Len(s) = n => s \in Q }
<1>1. 0 \in N
  <2>1. \A s \in Seq(S) : Len(s) = 0 => s = << >>
    BY EmptySeq
  <2> QED BY <2>1
<1>2. ASSUME NEW n \in N PROVE n + 1 \in N
  <2>1. ASSUME NEW s \in Seq(S), Len(s) = n + 1 PROVE s \in Q
    <3>1. s # << >>
      BY <2>1
    <3>2. PICK t \in Seq(S), x \in S : s = Append(t, x)
      BY <3>1, SequenceEmptyOrAppend
    <3>3. Len(t) = n /\ Len(t) \in Nat
      BY <2>1, <3>2, AppendProperties
    <3>4. t \in Q
      BY <3>3
    <3> QED BY <3>2, <3>4
  <2> QED BY <2>1
<1>3. N = Nat
  <2>1. N \in SUBSET Nat
    OBVIOUS
  <2> HIDE DEF N
  <2> QED BY <1>1, <1>2, <2>1, AllNumbers
<1>4. ASSUME NEW s \in Seq(S) PROVE s \in Q
  <2>1. Len(s) \in N
    BY <1>3
  <2> QED BY <2>1
<1> QED BY <1>4

\* f[n] is the first n of the sequences put together.
Flattens(f, seqs, n) ==
    f = [ i \in 1 .. n |-> IF i = 1 THEN seqs[i] ELSE f[i - 1] \o seqs[i] ]

\* Such an f exists.
LEMMA FlattensExist ==
    ASSUME NEW seqs, NEW n \in Nat
    PROVE  \E f : Flattens(f, seqs, n)
<1> DEFINE Q == { m \in Nat : \E f : Flattens(f, seqs, m) }
<1>1. 0 \in Q
  <2> DEFINE f == [ i \in 1 .. 0 |-> seqs[i] ]
  <2>1. Flattens(f, seqs, 0)
    BY DEF Flattens
  <2> HIDE DEF f
  <2> QED BY <2>1
<1>2. ASSUME NEW m \in Q PROVE m + 1 \in Q
  <2>1. PICK f : Flattens(f, seqs, m)
    OBVIOUS
  <2> DEFINE g == [ i \in 1 .. m + 1 |-> IF i = 1 THEN seqs[i] ELSE f[i - 1] \o seqs[i] ]
  <2>2. ASSUME NEW i \in 1 .. m + 1, i # 1 PROVE g[i - 1] = f[i - 1]
    <3>1. i - 1 \in 1 .. m /\ i - 1 \in 1 .. m + 1
      BY <2>2
    <3>2. f[i - 1] = IF i - 1 = 1 THEN seqs[i - 1] ELSE f[(i - 1) - 1] \o seqs[i - 1]
      BY <2>1, <3>1 DEF Flattens
    <3> QED BY <3>1, <3>2
  <2>3. Flattens(g, seqs, m + 1)
    BY <2>2 DEF Flattens
  <2> HIDE DEF g
  <2> QED BY <2>3
<1>3. Q = Nat
  <2>1. Q \in SUBSET Nat
    OBVIOUS
  <2> HIDE DEF Q
  <2> QED BY <1>1, <1>2, <2>1, AllNumbers
<1> QED BY <1>3

\* Its first values depend on the first sequences only.
LEMMA FlattensAgree ==
    ASSUME NEW s, NEW t, NEW n \in Nat, NEW m \in Nat, NEW f, NEW g, Flattens(f, s, n), Flattens(g, t, m),
           NEW k \in 1 .. n, k \in 1 .. m, \A i \in 1 .. k : s[i] = t[i]
    PROVE  f[k] = g[k]
<1> DEFINE T == { i \in 1 .. k : f[i] # g[i] }
<1>1. SUFFICES ASSUME T # {} PROVE FALSE
  OBVIOUS
<1>2. PICK x \in T : \A y \in T : x <= y
  <2>1. T \in SUBSET Nat
    OBVIOUS
  <2> HIDE DEF T
  <2> QED BY <1>1, <2>1, Least
<1>3. x \in 1 .. n /\ x \in 1 .. m
  OBVIOUS
<1>4. /\ f[x] = IF x = 1 THEN s[x] ELSE f[x - 1] \o s[x]
      /\ g[x] = IF x = 1 THEN t[x] ELSE g[x - 1] \o t[x]
  BY <1>3 DEF Flattens
<1>5. x # 1 => f[x - 1] = g[x - 1]
  BY <1>2
<1> QED BY <1>4, <1>5

\* What FlattenSeq is the last value of.
LEMMA FlattenIs ==
    ASSUME NEW seqs, Len(seqs) \in Nat, Len(seqs) # 0
    PROVE  \E f : Flattens(f, seqs, Len(seqs)) /\ FlattenSeq(seqs) = f[Len(seqs)]
<1> DEFINE f == CHOOSE g : Flattens(g, seqs, Len(seqs))
<1>1. Flattens(f, seqs, Len(seqs))
  BY FlattensExist
<1>2. FlattenSeq(seqs) = f[Len(seqs)]
  BY DEF FlattenSeq, Flattens
<1> QED BY <1>1, <1>2

(***************************************************************************)
(* One sequence more.                                                      *)
(***************************************************************************)
LEMMA FlattenAppend ==
    ASSUME NEW S, NEW seqs \in Seq(Seq(S)), NEW s \in Seq(S)
    PROVE  FlattenSeq(Append(seqs, s)) = FlattenSeq(seqs) \o s
<1> DEFINE more == Append(seqs, s)
           n == Len(seqs)
<1>1. /\ n \in Nat /\ Len(more) = n + 1 /\ more[n + 1] = s /\ \A i \in 1 .. n : more[i] = seqs[i]
  BY AppendProperties
<1> HIDE DEF more
<1>2. Len(more) \in Nat /\ Len(more) # 0
  BY <1>1
<1>3. PICK g : Flattens(g, more, n + 1) /\ FlattenSeq(more) = g[n + 1]
  BY <1>1, <1>2, FlattenIs
<1>4. CASE n = 0
  <2>1. FlattenSeq(seqs) = << >>
    <3>1. seqs = << >>
      BY <1>4
    <3> QED BY <1>4, <3>1 DEF FlattenSeq
  <2>2. g[n + 1] = s
    BY <1>1, <1>3, <1>4 DEF Flattens
  <2>3. << >> \o s = s
    BY ConcatEmptySeq
  <2> QED BY <1>3, <2>1, <2>2, <2>3 DEF more
<1>5. CASE n # 0
  <2>1. PICK f : Flattens(f, seqs, n) /\ FlattenSeq(seqs) = f[n]
    BY <1>1, <1>5, FlattenIs
  <2>2. n \in 1 .. n /\ n \in 1 .. n + 1 /\ n + 1 \in 1 .. n + 1 /\ n + 1 # 1 /\ (n + 1) - 1 = n
    BY <1>1, <1>5
  <2> HIDE DEF n
  <2>3. f[n] = g[n]
    BY <1>1, <1>3, <2>1, <2>2, FlattensAgree
  <2>4. g[n + 1] = g[n] \o s
    BY <1>1, <1>3, <2>2 DEF Flattens
  <2> QED BY <1>3, <2>1, <2>3, <2>4 DEF more
<1> QED BY <1>4, <1>5

\* No sequence.
LEMMA FlattenNothing == FlattenSeq(<< >>) = << >>
  BY DEF FlattenSeq

(***************************************************************************)
(* What f makes of the elements of s, one after the other: the form of     *)
(* everything that is read off the items and the messages.                 *)
(***************************************************************************)
Each(f, s) == [ n \in DOMAIN s |-> f[s[n]] ]

Parts(f, s) == FlattenSeq(Each(f, s))

\* Nothing of nothing.
LEMMA PartsNothing ==
    ASSUME NEW f
    PROVE  Parts(f, << >>) = << >>
<1>1. Each(f, << >>) = << >>
  BY DEF Each
<1> QED BY <1>1, FlattenNothing DEF Parts

\* What is made of each element is a sequence.
LEMMA PartsEach ==
    ASSUME NEW S, NEW T, NEW f \in [ S -> Seq(T) ], NEW s \in Seq(S)
    PROVE  Each(f, s) \in [ 1 .. Len(s) -> Seq(T) ] /\ Len(s) \in Nat
<1>1. DOMAIN s = 1 .. Len(s) /\ Len(s) \in Nat /\ \A n \in 1 .. Len(s) : s[n] \in S
  BY ElementOfSeq
<1> QED BY <1>1 DEF Each

\* One element more.
LEMMA PartsAppend ==
    ASSUME NEW S, NEW T, NEW f \in [ S -> Seq(T) ], NEW s \in Seq(S), NEW x \in S
    PROVE  Parts(f, Append(s, x)) = Parts(f, s) \o f[x]
<1> DEFINE t == Append(s, x)
           u == Each(f, s)
           v == Each(f, t)
<1>1. /\ t \in Seq(S) /\ Len(t) = Len(s) + 1 /\ \A i \in 1 .. Len(s) : t[i] = s[i]
      /\ t[Len(s) + 1] = x
  BY AppendProperties
<1>2. Len(s) \in Nat /\ f[x] \in Seq(T) /\ DOMAIN s = 1 .. Len(s) /\ DOMAIN t = 1 .. Len(s) + 1
  BY <1>1
<1> HIDE DEF t
<1>3. u \in [ 1 .. Len(s) -> Seq(T) ]
  BY PartsEach
<1>4. v \in [ 1 .. Len(s) + 1 -> Seq(T) ]
  BY <1>1, PartsEach
<1>5. /\ \A i \in 1 .. Len(s) : v[i] = u[i]
      /\ v[Len(s) + 1] = f[x]
  BY <1>1, <1>2 DEF Each
<1> HIDE DEF u, v
<1>6. u \in Seq(Seq(T)) /\ Len(u) = Len(s)
  BY <1>2, <1>3, FirstNumbers
<1>7. v \in Seq(Seq(T)) /\ Len(v) = Len(s) + 1
  BY <1>2, <1>4, FirstNumbers
<1>8. v = Append(u, f[x])
  BY <1>2, <1>5, <1>6, <1>7, OneMore
<1>9. FlattenSeq(v) = FlattenSeq(u) \o f[x]
  BY <1>2, <1>6, <1>8, FlattenAppend
<1> QED BY <1>9 DEF Parts, t, u, v

\* Its type.
LEMMA PartsType ==
    ASSUME NEW S, NEW T, NEW f \in [ S -> Seq(T) ], NEW s \in Seq(S)
    PROVE  Parts(f, s) \in Seq(T)
<1> DEFINE Q == { t \in Seq(S) : Parts(f, t) \in Seq(T) }
<1>1. << >> \in Q
  <2>1. << >> \in Seq(S) /\ << >> \in Seq(T)
    OBVIOUS
  <2> QED BY <2>1, PartsNothing
<1>2. ASSUME NEW t \in Q, NEW x \in S PROVE Append(t, x) \in Q
  <2>1. t \in Seq(S) /\ Parts(f, t) \in Seq(T) /\ f[x] \in Seq(T)
    OBVIOUS
  <2>2. Parts(f, Append(t, x)) = Parts(f, t) \o f[x]
    BY <2>1, PartsAppend
  <2>3. Append(t, x) \in Seq(S) /\ Parts(f, t) \o f[x] \in Seq(T)
    BY <2>1, AppendProperties, ConcatProperties
  <2> QED BY <2>2, <2>3
<1>3. Q = Seq(S)
  <2>1. Q \in SUBSET Seq(S)
    OBVIOUS
  <2> HIDE DEF Q
  <2> QED BY <1>1, <1>2, <2>1, AllSequences
<1> QED BY <1>3

\* An element, with nothing before it.
LEMMA PartsOne ==
    ASSUME NEW S, NEW T, NEW f \in [ S -> Seq(T) ], NEW x \in S
    PROVE  Parts(f, << x >>) = f[x]
<1>1. Parts(f, Append(<< >>, x)) = Parts(f, << >>) \o f[x] /\ f[x] \in Seq(T)
  <2>1. << >> \in Seq(S)
    OBVIOUS
  <2> QED BY <2>1, PartsAppend
<1>2. << >> \o f[x] = f[x]
  BY <1>1
<1>3. Append(<< >>, x) = << x >>
  OBVIOUS
<1> QED BY <1>1, <1>2, <1>3, PartsNothing

\* Two sequences, one after the other.
LEMMA PartsConcat ==
    ASSUME NEW S, NEW T, NEW f \in [ S -> Seq(T) ], NEW s \in Seq(S), NEW t \in Seq(S)
    PROVE  Parts(f, s \o t) = Parts(f, s) \o Parts(f, t)
<1> DEFINE Q == { u \in Seq(S) : Parts(f, s \o u) = Parts(f, s) \o Parts(f, u) }
<1>1. << >> \in Q
  <2>1. Parts(f, s) \in Seq(T)
    BY PartsType
  <2>2. s \o << >> = s /\ Parts(f, s) \o << >> = Parts(f, s) /\ << >> \in Seq(S)
    BY <2>1, ConcatEmptySeq
  <2> QED BY <2>2, PartsNothing
<1>2. ASSUME NEW u \in Q, NEW x \in S PROVE Append(u, x) \in Q
  <2>1. /\ s \o Append(u, x) = Append(s \o u, x) /\ s \o u \in Seq(S) /\ Append(u, x) \in Seq(S)
        /\ u \in Seq(S)
    OBVIOUS
  <2>2. /\ Parts(f, Append(s \o u, x)) = Parts(f, s \o u) \o f[x]
        /\ Parts(f, Append(u, x)) = Parts(f, u) \o f[x]
    BY <2>1, PartsAppend
  <2>3. Parts(f, s \o u) = Parts(f, s) \o Parts(f, u)
    OBVIOUS
  <2>4. Parts(f, s) \in Seq(T) /\ Parts(f, u) \in Seq(T) /\ f[x] \in Seq(T)
    BY PartsType
  <2>5. (Parts(f, s) \o Parts(f, u)) \o f[x] = Parts(f, s) \o (Parts(f, u) \o f[x])
    BY <2>4, ConcatAssociative
  <2> QED BY <2>1, <2>2, <2>3, <2>5
<1>3. Q = Seq(S)
  <2>1. Q \in SUBSET Seq(S)
    OBVIOUS
  <2> HIDE DEF Q
  <2> QED BY <1>1, <1>2, <2>1, AllSequences
<1> QED BY <1>3

\* All of it, for one f.
LEMMA PartsLaws ==
    ASSUME NEW S, NEW T, NEW f \in [ S -> Seq(T) ]
    PROVE  /\ Parts(f, << >>) = << >>
           /\ \A s \in Seq(S) : Parts(f, s) \in Seq(T)
           /\ \A x \in S : Parts(f, << x >>) = f[x]
           /\ \A s, t \in Seq(S) : Parts(f, s \o t) = Parts(f, s) \o Parts(f, t)
<1>1. Parts(f, << >>) = << >>
  BY PartsNothing
<1>2. \A s \in Seq(S) : Parts(f, s) \in Seq(T)
  BY PartsType
<1>3. \A x \in S : Parts(f, << x >>) = f[x]
  BY PartsOne
<1>4. \A s, t \in Seq(S) : Parts(f, s \o t) = Parts(f, s) \o Parts(f, t)
  BY PartsConcat
<1> QED BY <1>1, <1>2, <1>3, <1>4

(***************************************************************************)
(* Sets of elements.                                                       *)
(***************************************************************************)
\* The elements of a sequence.
LEMMA Elements ==
    ASSUME NEW S, NEW s \in Seq(S)
    PROVE  ToSet(s) \subseteq S /\ ToSet(s) = { s[i] : i \in 1 .. Len(s) } /\ ToSet(<< >>) = {}
<1>1. DOMAIN s = 1 .. Len(s) /\ \A i \in 1 .. Len(s) : s[i] \in S
  BY ElementOfSeq
<1> QED BY <1>1 DEF ToSet

\* They are finitely many.
LEMMA FiniteElements ==
    ASSUME NEW S, NEW s \in Seq(S)
    PROVE  IsFiniteSet(ToSet(s))
<1> DEFINE D == 1 .. Len(s)
           T == ToSet(s)
<1>1. DOMAIN s = D /\ Len(s) \in Int /\ 1 \in Int
  OBVIOUS
<1>2. s \in Surjection(D, T)
  <2>1. s \in [ D -> T ] /\ \A x \in T : \E i \in D : s[i] = x
    BY <1>1 DEF ToSet
  <2> QED BY <2>1 DEF Surjection
<1>3. IsFiniteSet(D)
  BY <1>1, FS_Interval
<1> HIDE DEF D, T
<1>4. IsFiniteSet(T)
  BY <1>2, <1>3, FS_Surjection
<1> QED BY <1>4 DEF T

\* The element of a sequence of one.
LEMMA ElementsOfOne ==
    ASSUME NEW x
    PROVE  ToSet(<< x >>) = { x } /\ IsInjective(<< x >>) /\ << x >>[1] = x /\ DOMAIN << x >> = { 1 }
<1>1. DOMAIN << x >> = { 1 } /\ << x >>[1] = x
  OBVIOUS
<1> QED BY <1>1 DEF ToSet, IsInjective

\* The elements of two.
LEMMA ElementsOfConcat ==
    ASSUME NEW S, NEW s \in Seq(S), NEW t \in Seq(S)
    PROVE  ToSet(s \o t) = ToSet(s) \cup ToSet(t)
<1>1. ToSet(s) = Range(s) /\ ToSet(t) = Range(t) /\ ToSet(s \o t) = Range(s \o t)
  BY DEF ToSet, Range
<1> QED BY <1>1, RangeConcatenation

\* When nothing occurs twice in two sequences, one after the other.
LEMMA InjectiveConcat ==
    ASSUME NEW S, NEW s \in Seq(S), NEW t \in Seq(S)
    PROVE  IsInjective(s \o t) <=> IsInjective(s) /\ IsInjective(t) /\ ToSet(s) \cap ToSet(t) = {}
<1> DEFINE u == s \o t
           m == Len(s)
           n == Len(t)
<1>1. /\ m \in Nat /\ n \in Nat /\ DOMAIN s = 1 .. m /\ DOMAIN t = 1 .. n /\ DOMAIN u = 1 .. m + n
      /\ \A i \in 1 .. m : u[i] = s[i]
      /\ \A i \in 1 .. n : u[m + i] = t[i]
  BY ConcatProperties
<1>2. \A i \in 1 .. m : i \in 1 .. m + n
  BY <1>1
<1>3. \A i \in 1 .. n : m + i \in 1 .. m + n /\ m + i \notin 1 .. m
  BY <1>1
<1>4. \A k \in 1 .. m + n : k \in 1 .. m \/ \E i \in 1 .. n : k = m + i
  <2>1. ASSUME NEW k \in 1 .. m + n, k \notin 1 .. m PROVE k - m \in 1 .. n /\ k = m + (k - m)
    BY <1>1, <2>1
  <2> QED BY <2>1
<1> HIDE DEF u, m, n
<1>5. ASSUME IsInjective(u) PROVE IsInjective(s) /\ IsInjective(t) /\ ToSet(s) \cap ToSet(t) = {}
  <2>1. \A i, j \in 1 .. m + n : u[i] = u[j] => i = j
    BY <1>1, <1>5 DEF IsInjective
  <2>2. IsInjective(s)
    BY <1>1, <1>2, <2>1 DEF IsInjective
  <2>3. ASSUME NEW i \in 1 .. n, NEW j \in 1 .. n, t[i] = t[j] PROVE i = j
    <3>1. m + i = m + j
      BY <1>1, <1>3, <2>1, <2>3
    <3> QED BY <1>1, <3>1
  <2>4. IsInjective(t)
    BY <1>1, <2>3 DEF IsInjective
  <2>5. ASSUME NEW i \in 1 .. m, NEW j \in 1 .. n, s[i] = t[j] PROVE FALSE
    <3>1. u[i] = u[m + j] /\ i \in 1 .. m + n /\ m + j \in 1 .. m + n /\ m + j \notin 1 .. m
      BY <1>1, <1>2, <1>3, <2>5
    <3> QED BY <2>1, <3>1
  <2> QED BY <1>1, <2>2, <2>4, <2>5 DEF ToSet
<1>6. ASSUME IsInjective(s), IsInjective(t), ToSet(s) \cap ToSet(t) = {} PROVE IsInjective(u)
  <2>1. /\ \A i, j \in 1 .. m : s[i] = s[j] => i = j
        /\ \A i, j \in 1 .. n : t[i] = t[j] => i = j
        /\ \A i \in 1 .. m : \A j \in 1 .. n : s[i] # t[j]
    <3>1. \A i, j \in 1 .. m : s[i] = s[j] => i = j
      BY <1>1, <1>6 DEF IsInjective
    <3>2. \A i, j \in 1 .. n : t[i] = t[j] => i = j
      BY <1>1, <1>6 DEF IsInjective
    <3>3. \A i \in 1 .. m : s[i] \in ToSet(s)
      BY <1>1 DEF ToSet
    <3>4. \A i \in 1 .. n : t[i] \in ToSet(t)
      BY <1>1 DEF ToSet
    <3>5. \A x \in ToSet(s) : x \notin ToSet(t)
      BY <1>6
    <3> QED BY <3>1, <3>2, <3>3, <3>4, <3>5
  <2>2. ASSUME NEW i \in 1 .. m + n, NEW j \in 1 .. m + n, u[i] = u[j] PROVE i = j
    <3>1. CASE i \in 1 .. m /\ j \in 1 .. m
      BY <1>1, <2>1, <2>2, <3>1
    <3>2. CASE i \in 1 .. m /\ j \notin 1 .. m
      <4>1. PICK l \in 1 .. n : j = m + l
        BY <1>4, <3>2
      <4>2. s[i] = t[l]
        BY <1>1, <2>2, <3>2, <4>1
      <4> QED BY <2>1, <3>2, <4>2
    <3>3. CASE i \notin 1 .. m /\ j \in 1 .. m
      <4>1. PICK k \in 1 .. n : i = m + k
        BY <1>4, <3>3
      <4>2. s[j] = t[k]
        BY <1>1, <2>2, <3>3, <4>1
      <4> QED BY <2>1, <3>3, <4>2
    <3>4. CASE i \notin 1 .. m /\ j \notin 1 .. m
      <4>1. PICK k \in 1 .. n : i = m + k
        BY <1>4, <3>4
      <4>2. PICK l \in 1 .. n : j = m + l
        BY <1>4, <3>4
      <4>3. t[k] = t[l]
        BY <1>1, <2>2, <4>1, <4>2
      <4> QED BY <2>1, <4>1, <4>2, <4>3
    <3> QED BY <3>1, <3>2, <3>3, <3>4
  <2> QED BY <1>1, <2>2 DEF IsInjective
<1> QED BY <1>5, <1>6 DEF u

\* Sequences of the same elements are of the same length if nothing occurs twice.
LEMMA SameLength ==
    ASSUME NEW S, NEW s \in Seq(S), NEW t \in Seq(S), IsInjective(s), IsInjective(t), ToSet(s) = ToSet(t)
    PROVE  Len(s) = Len(t)
<1>1. ASSUME NEW u \in Seq(S), IsInjective(u) PROVE Cardinality(ToSet(u)) = Len(u)
  <2>1. DOMAIN u = 1 .. Len(u) /\ Len(u) \in Nat
    OBVIOUS
  <2>2. u \in [ 1 .. Len(u) -> ToSet(u) ] /\ \A x \in ToSet(u) : \E i \in 1 .. Len(u) : u[i] = x
    BY <2>1 DEF ToSet
  <2>3. u \in Bijection(1 .. Len(u), ToSet(u))
    BY <1>1, <2>1, <2>2 DEF Bijection, Injection, Surjection, IsInjective
  <2>4. ExistsBijection(1 .. Len(u), ToSet(u))
    BY <2>3 DEF ExistsBijection
  <2>5. IsFiniteSet(1 .. Len(u)) /\ Cardinality(1 .. Len(u)) = IF 1 > Len(u) THEN 0 ELSE Len(u) - 1 + 1
    <3>1. Len(u) \in Int /\ 1 \in Int
      BY <2>1
    <3> QED BY <3>1, FS_Interval
  <2>6. Cardinality(1 .. Len(u)) = Len(u)
    BY <2>1, <2>5
  <2> QED BY <2>4, <2>5, <2>6, FS_Bijection
<1> QED BY <1>1

------------------------------------------------------------------------------
(***************************************************************************)
(* The items of an input and the messages of a chat, for a set C of calls. *)
(***************************************************************************)
Items(C) ==
    { item \in [ kind : { "message", "reply", "call", "output" }, call : C \cup { NoCall } ] :
        IF item.kind \in { "call", "output" } THEN item.call \in C ELSE item.call = NoCall }

Messages(C) ==
    { m \in [ role : { "user", "assistant", "tool" }, calls : Seq(C) ] :
        /\ m.role = "user" => m.calls = << >>
        /\ m.role = "tool" => Len(m.calls) = 1 }

Plain(C) == { m \in Messages(C) : m.role # "tool" }

\* The calls there are, and those there are if the upstream gives the ids.
Call     == [ id : Nat \X Nat, from : Nat ]
RealCall == { c \in Call : c.id[1] = c.from }

\* The items there are.
LEMMA ItemCases ==
    ASSUME NEW C
    PROVE  /\ Said \in Items(C) /\ Spoken \in Items(C)
           /\ \A c \in C : Made(c) \in Items(C) /\ Answer(c) \in Items(C)
           /\ \A item \in Items(C) :
                \/ item = Said \/ item = Spoken
                \/ \E c \in C : item = Made(c)
                \/ \E c \in C : item = Answer(c)
  BY DEF Items, Said, Spoken, Made, Answer

\* The messages there are.
LEMMA MessageCases ==
    ASSUME NEW C
    PROVE  /\ User \in Plain(C) /\ \A cs \in Seq(C) : Assistant(cs) \in Plain(C)
           /\ Plain(C) \subseteq Messages(C)
           /\ \A c \in C : Tool(c) \in Messages(C)
           /\ \A m \in Messages(C) :
                \/ m = User
                \/ \E cs \in Seq(C) : m = Assistant(cs)
                \/ \E c \in C : m = Tool(c)
           /\ \A m \in Plain(C) : m = User \/ \E cs \in Seq(C) : m = Assistant(cs)
<1>1. << >> \in Seq(C) /\ \A c \in C : << c >> \in Seq(C) /\ Len(<< c >>) = 1
  OBVIOUS
<1>2. User \in Plain(C)
  BY <1>1 DEF Messages, Plain, User
<1>3. \A cs \in Seq(C) : Assistant(cs) \in Plain(C)
  BY DEF Messages, Plain, Assistant
<1>4. \A c \in C : Tool(c) \in Messages(C)
  BY <1>1 DEF Messages, Tool
<1>5. ASSUME NEW m \in Messages(C)
      PROVE  \/ m = User
             \/ \E cs \in Seq(C) : m.role = "assistant" /\ m = Assistant(cs)
             \/ \E c \in C : m.role = "tool" /\ m = Tool(c)
  <2>1. m = [ role |-> m.role, calls |-> m.calls ] /\ m.calls \in Seq(C)
    BY DEF Messages
  <2>2. CASE m.role = "user"
    BY <2>1, <2>2 DEF Messages, User
  <2>3. CASE m.role = "assistant"
    BY <2>1, <2>3 DEF Assistant
  <2>4. CASE m.role = "tool"
    <3>1. Len(m.calls) = 1
      BY <2>4 DEF Messages
    <3>2. m.calls = << m.calls[1] >> /\ m.calls[1] \in C
      BY <2>1, <3>1
    <3> QED BY <2>1, <2>4, <3>2 DEF Tool
  <2>5. m.role \in { "user", "assistant", "tool" }
    BY DEF Messages
  <2> QED BY <2>2, <2>3, <2>4, <2>5
<1>6. ASSUME NEW m \in Plain(C) PROVE m = User \/ \E cs \in Seq(C) : m = Assistant(cs)
  BY <1>5 DEF Plain
<1> QED BY <1>2, <1>3, <1>4, <1>5, <1>6 DEF Plain

\* The calls that are made in the items.
CallsPart(C) == [ x \in Items(C) |-> IF x.kind = "call" THEN << x.call >> ELSE << >> ]

\* It is empty for nothing, typed, known for one, and put together for two.
LEMMA CallsLaws ==
    ASSUME NEW C
    PROVE  /\ CallsOf(<< >>) = << >>
           /\ \A s \in Seq(Items(C)) : CallsOf(s) \in Seq(C)
           /\ \A x \in Items(C) : CallsOf(<< x >>) = IF x.kind = "call" THEN << x.call >> ELSE << >>
           /\ \A s, t \in Seq(Items(C)) : CallsOf(s \o t) = CallsOf(s) \o CallsOf(t)
<1> DEFINE f == CallsPart(C)
           B(x) == IF x.kind = "call" THEN << x.call >> ELSE << >>
<1>1. f \in [ Items(C) -> Seq(C) ] /\ \A x \in Items(C) : f[x] = B(x)
  <2>1. \A x \in Items(C) : x.kind = "call" => << x.call >> \in Seq(C)
    BY DEF Items
  <2> QED BY <2>1 DEF CallsPart
<1> HIDE DEF f, B
<1>2. /\ Parts(f, << >>) = << >>
      /\ \A s \in Seq(Items(C)) : Parts(f, s) \in Seq(C)
      /\ \A x \in Items(C) : Parts(f, << x >>) = f[x]
      /\ \A s, t \in Seq(Items(C)) : Parts(f, s \o t) = Parts(f, s) \o Parts(f, t)
  BY <1>1, PartsLaws
<1>3. ASSUME NEW s \in Seq(Items(C)) PROVE CallsOf(s) = Parts(f, s)
  <2>1. \A n \in DOMAIN s : f[s[n]] = B(s[n])
    BY <1>1, ElementOfSeq
  <2>2. Each(f, s) = [ n \in DOMAIN s |-> B(s[n]) ]
    BY <2>1, Zenon DEF Each
  <2> QED BY <2>2, Zenon DEF CallsOf, ThoseOf, Parts, B
<1>4. /\ << >> \in Seq(Items(C)) /\ \A x \in Items(C) : << x >> \in Seq(Items(C))
      /\ \A s, t \in Seq(Items(C)) : s \o t \in Seq(Items(C))
  OBVIOUS
<1>5. CallsOf(<< >>) = << >>
  BY <1>2, <1>3, <1>4
<1>6. \A s \in Seq(Items(C)) : CallsOf(s) \in Seq(C)
  BY <1>2, <1>3, Zenon
<1>7. \A x \in Items(C) : CallsOf(<< x >>) = B(x)
  BY <1>1, <1>2, <1>3, <1>4, Zenon
<1>8. \A s, t \in Seq(Items(C)) : CallsOf(s \o t) = CallsOf(s) \o CallsOf(t)
  BY <1>2, <1>3, <1>4, Zenon
<1> QED BY <1>5, <1>6, <1>7, <1>8, Zenon DEF B

\* The calls that are answered in the items.
AnswersPart(C) == [ x \in Items(C) |-> IF x.kind = "output" THEN << x.call >> ELSE << >> ]

\* It is empty for nothing, typed, known for one, and put together for two.
LEMMA AnswersLaws ==
    ASSUME NEW C
    PROVE  /\ AnswersOf(<< >>) = << >>
           /\ \A s \in Seq(Items(C)) : AnswersOf(s) \in Seq(C)
           /\ \A x \in Items(C) : AnswersOf(<< x >>) = IF x.kind = "output" THEN << x.call >> ELSE << >>
           /\ \A s, t \in Seq(Items(C)) : AnswersOf(s \o t) = AnswersOf(s) \o AnswersOf(t)
<1> DEFINE f == AnswersPart(C)
           B(x) == IF x.kind = "output" THEN << x.call >> ELSE << >>
<1>1. f \in [ Items(C) -> Seq(C) ] /\ \A x \in Items(C) : f[x] = B(x)
  <2>1. \A x \in Items(C) : x.kind = "output" => << x.call >> \in Seq(C)
    BY DEF Items
  <2> QED BY <2>1 DEF AnswersPart
<1> HIDE DEF f, B
<1>2. /\ Parts(f, << >>) = << >>
      /\ \A s \in Seq(Items(C)) : Parts(f, s) \in Seq(C)
      /\ \A x \in Items(C) : Parts(f, << x >>) = f[x]
      /\ \A s, t \in Seq(Items(C)) : Parts(f, s \o t) = Parts(f, s) \o Parts(f, t)
  BY <1>1, PartsLaws
<1>3. ASSUME NEW s \in Seq(Items(C)) PROVE AnswersOf(s) = Parts(f, s)
  <2>1. \A n \in DOMAIN s : f[s[n]] = B(s[n])
    BY <1>1, ElementOfSeq
  <2>2. Each(f, s) = [ n \in DOMAIN s |-> B(s[n]) ]
    BY <2>1, Zenon DEF Each
  <2> QED BY <2>2, Zenon DEF AnswersOf, ThoseOf, Parts, B
<1>4. /\ << >> \in Seq(Items(C)) /\ \A x \in Items(C) : << x >> \in Seq(Items(C))
      /\ \A s, t \in Seq(Items(C)) : s \o t \in Seq(Items(C))
  OBVIOUS
<1>5. AnswersOf(<< >>) = << >>
  BY <1>2, <1>3, <1>4
<1>6. \A s \in Seq(Items(C)) : AnswersOf(s) \in Seq(C)
  BY <1>2, <1>3, Zenon
<1>7. \A x \in Items(C) : AnswersOf(<< x >>) = B(x)
  BY <1>1, <1>2, <1>3, <1>4, Zenon
<1>8. \A s, t \in Seq(Items(C)) : AnswersOf(s \o t) = AnswersOf(s) \o AnswersOf(t)
  BY <1>2, <1>3, <1>4, Zenon
<1> QED BY <1>5, <1>6, <1>7, <1>8, Zenon DEF B

\* The shape of the items.
ItemShapePart(C) == [ x \in Items(C) |-> IF x.kind \in { "message", "call" } THEN << x.call >> ELSE << >> ]

\* It is empty for nothing, typed, known for one, and put together for two.
LEMMA ItemShapeLaws ==
    ASSUME NEW C
    PROVE  /\ ShapeOfItems(<< >>) = << >>
           /\ \A s \in Seq(Items(C)) : ShapeOfItems(s) \in Seq(C \cup { NoCall })
           /\ \A x \in Items(C) : ShapeOfItems(<< x >>) = IF x.kind \in { "message", "call" } THEN << x.call >> ELSE << >>
           /\ \A s, t \in Seq(Items(C)) : ShapeOfItems(s \o t) = ShapeOfItems(s) \o ShapeOfItems(t)
<1> DEFINE f == ItemShapePart(C)
           B(x) == IF x.kind \in { "message", "call" } THEN << x.call >> ELSE << >>
<1>1. f \in [ Items(C) -> Seq(C \cup { NoCall }) ] /\ \A x \in Items(C) : f[x] = B(x)
  <2>1. \A x \in Items(C) : << x.call >> \in Seq(C \cup { NoCall })
    BY DEF Items
  <2>2. << >> \in Seq(C \cup { NoCall })
    OBVIOUS
  <2> QED BY <2>1, <2>2, Zenon DEF ItemShapePart
<1> HIDE DEF f, B
<1>2. /\ Parts(f, << >>) = << >>
      /\ \A s \in Seq(Items(C)) : Parts(f, s) \in Seq(C \cup { NoCall })
      /\ \A x \in Items(C) : Parts(f, << x >>) = f[x]
      /\ \A s, t \in Seq(Items(C)) : Parts(f, s \o t) = Parts(f, s) \o Parts(f, t)
  BY <1>1, PartsLaws
<1>3. ASSUME NEW s \in Seq(Items(C)) PROVE ShapeOfItems(s) = Parts(f, s)
  <2>1. \A n \in DOMAIN s : f[s[n]] = B(s[n])
    BY <1>1, ElementOfSeq
  <2>2. Each(f, s) = [ n \in DOMAIN s |-> B(s[n]) ]
    BY <2>1, Zenon DEF Each
  <2> QED BY <2>2, Zenon DEF ShapeOfItems, Parts, B
<1>4. /\ << >> \in Seq(Items(C)) /\ \A x \in Items(C) : << x >> \in Seq(Items(C))
      /\ \A s, t \in Seq(Items(C)) : s \o t \in Seq(Items(C))
  OBVIOUS
<1>5. ShapeOfItems(<< >>) = << >>
  BY <1>2, <1>3, <1>4
<1>6. \A s \in Seq(Items(C)) : ShapeOfItems(s) \in Seq(C \cup { NoCall })
  BY <1>2, <1>3, Zenon
<1>7. \A x \in Items(C) : ShapeOfItems(<< x >>) = B(x)
  BY <1>1, <1>2, <1>3, <1>4, Zenon
<1>8. \A s, t \in Seq(Items(C)) : ShapeOfItems(s \o t) = ShapeOfItems(s) \o ShapeOfItems(t)
  BY <1>2, <1>3, <1>4, Zenon
<1> QED BY <1>5, <1>6, <1>7, <1>8, Zenon DEF B

\* The shape of the messages.
ShapePart(C) == [ x \in Messages(C) |-> CASE x.role = "user" -> << NoCall >>
                                          [] x.role = "assistant" -> x.calls
                                          [] x.role = "tool" -> << >> ]

\* It is empty for nothing, typed, known for one, and put together for two.
LEMMA ShapeLaws ==
    ASSUME NEW C
    PROVE  /\ ShapeOfMessages(<< >>) = << >>
           /\ \A s \in Seq(Messages(C)) : ShapeOfMessages(s) \in Seq(C \cup { NoCall })
           /\ \A x \in Messages(C) : ShapeOfMessages(<< x >>) = CASE x.role = "user" -> << NoCall >>
                                          [] x.role = "assistant" -> x.calls
                                          [] x.role = "tool" -> << >>
           /\ \A s, t \in Seq(Messages(C)) : ShapeOfMessages(s \o t) = ShapeOfMessages(s) \o ShapeOfMessages(t)
<1> DEFINE f == ShapePart(C)
           B(x) == CASE x.role = "user" -> << NoCall >>
                   [] x.role = "assistant" -> x.calls
                   [] x.role = "tool" -> << >>
<1>1. f \in [ Messages(C) -> Seq(C \cup { NoCall }) ] /\ \A x \in Messages(C) : f[x] = B(x)
  <2>1. << NoCall >> \in Seq(C \cup { NoCall }) /\ Seq(C) \subseteq Seq(C \cup { NoCall })
    BY SeqMonotonic
  <2>2. << >> \in Seq(C \cup { NoCall })
    OBVIOUS
  <2> QED BY <2>1, <2>2 DEF ShapePart, Messages
<1> HIDE DEF f, B
<1>2. /\ Parts(f, << >>) = << >>
      /\ \A s \in Seq(Messages(C)) : Parts(f, s) \in Seq(C \cup { NoCall })
      /\ \A x \in Messages(C) : Parts(f, << x >>) = f[x]
      /\ \A s, t \in Seq(Messages(C)) : Parts(f, s \o t) = Parts(f, s) \o Parts(f, t)
  BY <1>1, PartsLaws
<1>3. ASSUME NEW s \in Seq(Messages(C)) PROVE ShapeOfMessages(s) = Parts(f, s)
  <2>1. \A n \in DOMAIN s : f[s[n]] = B(s[n])
    BY <1>1, ElementOfSeq
  <2>2. Each(f, s) = [ n \in DOMAIN s |-> B(s[n]) ]
    BY <2>1, Zenon DEF Each
  <2> QED BY <2>2, Zenon DEF ShapeOfMessages, Parts, B
<1>4. /\ << >> \in Seq(Messages(C)) /\ \A x \in Messages(C) : << x >> \in Seq(Messages(C))
      /\ \A s, t \in Seq(Messages(C)) : s \o t \in Seq(Messages(C))
  OBVIOUS
<1>5. ShapeOfMessages(<< >>) = << >>
  BY <1>2, <1>3, <1>4
<1>6. \A s \in Seq(Messages(C)) : ShapeOfMessages(s) \in Seq(C \cup { NoCall })
  BY <1>2, <1>3, Zenon
<1>7. \A x \in Messages(C) : ShapeOfMessages(<< x >>) = B(x)
  BY <1>1, <1>2, <1>3, <1>4, Zenon
<1>8. \A s, t \in Seq(Messages(C)) : ShapeOfMessages(s \o t) = ShapeOfMessages(s) \o ShapeOfMessages(t)
  BY <1>2, <1>3, <1>4, Zenon
<1> QED BY <1>5, <1>6, <1>7, <1>8, Zenon DEF B

\* The calls whose outputs are among the messages.
ToolPart(C) == [ x \in Messages(C) |-> IF x.role = "tool" THEN x.calls ELSE << >> ]

\* It is empty for nothing, typed, known for one, and put together for two.
LEMMA ToolLaws ==
    ASSUME NEW C
    PROVE  /\ ToolCalls(<< >>) = << >>
           /\ \A s \in Seq(Messages(C)) : ToolCalls(s) \in Seq(C)
           /\ \A x \in Messages(C) : ToolCalls(<< x >>) = IF x.role = "tool" THEN x.calls ELSE << >>
           /\ \A s, t \in Seq(Messages(C)) : ToolCalls(s \o t) = ToolCalls(s) \o ToolCalls(t)
<1> DEFINE f == ToolPart(C)
           B(x) == IF x.role = "tool" THEN x.calls ELSE << >>
<1>1. f \in [ Messages(C) -> Seq(C) ] /\ \A x \in Messages(C) : f[x] = B(x)
  BY DEF ToolPart, Messages
<1> HIDE DEF f, B
<1>2. /\ Parts(f, << >>) = << >>
      /\ \A s \in Seq(Messages(C)) : Parts(f, s) \in Seq(C)
      /\ \A x \in Messages(C) : Parts(f, << x >>) = f[x]
      /\ \A s, t \in Seq(Messages(C)) : Parts(f, s \o t) = Parts(f, s) \o Parts(f, t)
  BY <1>1, PartsLaws
<1>3. ASSUME NEW s \in Seq(Messages(C)) PROVE ToolCalls(s) = Parts(f, s)
  <2>1. \A n \in DOMAIN s : f[s[n]] = B(s[n])
    BY <1>1, ElementOfSeq
  <2>2. Each(f, s) = [ n \in DOMAIN s |-> B(s[n]) ]
    BY <2>1, Zenon DEF Each
  <2> QED BY <2>2, Zenon DEF ToolCalls, Parts, B
<1>4. /\ << >> \in Seq(Messages(C)) /\ \A x \in Messages(C) : << x >> \in Seq(Messages(C))
      /\ \A s, t \in Seq(Messages(C)) : s \o t \in Seq(Messages(C))
  OBVIOUS
<1>5. ToolCalls(<< >>) = << >>
  BY <1>2, <1>3, <1>4
<1>6. \A s \in Seq(Messages(C)) : ToolCalls(s) \in Seq(C)
  BY <1>2, <1>3, Zenon
<1>7. \A x \in Messages(C) : ToolCalls(<< x >>) = B(x)
  BY <1>1, <1>2, <1>3, <1>4, Zenon
<1>8. \A s, t \in Seq(Messages(C)) : ToolCalls(s \o t) = ToolCalls(s) \o ToolCalls(t)
  BY <1>2, <1>3, <1>4, Zenon
<1> QED BY <1>5, <1>6, <1>7, <1>8, Zenon DEF B

\* The calls that are made in the messages.
CallsIn(messages) ==
    FlattenSeq([ n \in DOMAIN messages |->
        IF messages[n].role = "assistant" THEN messages[n].calls ELSE << >> ])

InPart(C) == [ x \in Messages(C) |-> IF x.role = "assistant" THEN x.calls ELSE << >> ]

\* It is empty for nothing, typed, known for one, and put together for two.
LEMMA InLaws ==
    ASSUME NEW C
    PROVE  /\ CallsIn(<< >>) = << >>
           /\ \A s \in Seq(Messages(C)) : CallsIn(s) \in Seq(C)
           /\ \A x \in Messages(C) : CallsIn(<< x >>) = IF x.role = "assistant" THEN x.calls ELSE << >>
           /\ \A s, t \in Seq(Messages(C)) : CallsIn(s \o t) = CallsIn(s) \o CallsIn(t)
<1> DEFINE f == InPart(C)
           B(x) == IF x.role = "assistant" THEN x.calls ELSE << >>
<1>1. f \in [ Messages(C) -> Seq(C) ] /\ \A x \in Messages(C) : f[x] = B(x)
  BY DEF InPart, Messages
<1> HIDE DEF f, B
<1>2. /\ Parts(f, << >>) = << >>
      /\ \A s \in Seq(Messages(C)) : Parts(f, s) \in Seq(C)
      /\ \A x \in Messages(C) : Parts(f, << x >>) = f[x]
      /\ \A s, t \in Seq(Messages(C)) : Parts(f, s \o t) = Parts(f, s) \o Parts(f, t)
  BY <1>1, PartsLaws
<1>3. ASSUME NEW s \in Seq(Messages(C)) PROVE CallsIn(s) = Parts(f, s)
  <2>1. \A n \in DOMAIN s : f[s[n]] = B(s[n])
    BY <1>1, ElementOfSeq
  <2>2. Each(f, s) = [ n \in DOMAIN s |-> B(s[n]) ]
    BY <2>1, Zenon DEF Each
  <2> QED BY <2>2, Zenon DEF CallsIn, Parts, B
<1>4. /\ << >> \in Seq(Messages(C)) /\ \A x \in Messages(C) : << x >> \in Seq(Messages(C))
      /\ \A s, t \in Seq(Messages(C)) : s \o t \in Seq(Messages(C))
  OBVIOUS
<1>5. CallsIn(<< >>) = << >>
  BY <1>2, <1>3, <1>4
<1>6. \A s \in Seq(Messages(C)) : CallsIn(s) \in Seq(C)
  BY <1>2, <1>3, Zenon
<1>7. \A x \in Messages(C) : CallsIn(<< x >>) = B(x)
  BY <1>1, <1>2, <1>3, <1>4, Zenon
<1>8. \A s, t \in Seq(Messages(C)) : CallsIn(s \o t) = CallsIn(s) \o CallsIn(t)
  BY <1>2, <1>3, <1>4, Zenon
<1> QED BY <1>5, <1>6, <1>7, <1>8, Zenon DEF B

\* A sequence made element by element grows with the one it is made of.
LEMMA EachAppend ==
    ASSUME NEW S, NEW T, NEW f \in [ S -> T ]
    PROVE  /\ Each(f, << >>) = << >>
           /\ \A s \in Seq(S) : Each(f, s) \in Seq(T) /\ Len(Each(f, s)) = Len(s)
           /\ \A s \in Seq(S) : \A x \in S : Each(f, Append(s, x)) = Each(f, s) \o << f[x] >>
<1>1. Each(f, << >>) = << >>
  BY DEF Each
<1>2. ASSUME NEW s \in Seq(S) PROVE Each(f, s) \in Seq(T) /\ Len(Each(f, s)) = Len(s)
  <2>1. DOMAIN s = 1 .. Len(s) /\ Len(s) \in Nat /\ \A n \in 1 .. Len(s) : s[n] \in S
    BY ElementOfSeq
  <2>2. Each(f, s) \in [ 1 .. Len(s) -> T ]
    BY <2>1 DEF Each
  <2> QED BY <2>1, <2>2, FirstNumbers
<1>3. ASSUME NEW s \in Seq(S), NEW x \in S PROVE Each(f, Append(s, x)) = Each(f, s) \o << f[x] >>
  <2> DEFINE t == Append(s, x)
  <2>1. /\ t \in Seq(S) /\ Len(t) = Len(s) + 1 /\ \A i \in 1 .. Len(s) : t[i] = s[i]
        /\ t[Len(s) + 1] = x /\ Len(s) \in Nat /\ f[x] \in T
    BY AppendProperties
  <2> HIDE DEF t
  <2>2. /\ Each(f, s) \in Seq(T) /\ Len(Each(f, s)) = Len(s)
        /\ Each(f, t) \in Seq(T) /\ Len(Each(f, t)) = Len(t)
    BY <1>2, <2>1
  <2>3. DOMAIN s = 1 .. Len(s) /\ DOMAIN t = 1 .. Len(s) + 1
    BY <2>1
  <2>4. /\ \A i \in 1 .. Len(s) : Each(f, t)[i] = Each(f, s)[i]
        /\ Each(f, t)[Len(s) + 1] = f[x]
    BY <2>1, <2>3 DEF Each
  <2>5. Each(f, t) = Append(Each(f, s), f[x])
    BY <2>1, <2>2, <2>4, OneMore
  <2>6. Append(Each(f, s), f[x]) = Each(f, s) \o << f[x] >>
    BY <2>1, <2>2, AppendIsConcat
  <2> QED BY <2>5, <2>6 DEF t
<1> QED BY <1>1, <1>2, <1>3

\* Outputs as messages.
LEMMA ToolsLaws ==
    ASSUME NEW C
    PROVE  /\ Tools(<< >>) = << >>
           /\ \A cs \in Seq(C) : Tools(cs) \in Seq(Messages(C)) /\ Len(Tools(cs)) = Len(cs)
           /\ \A cs \in Seq(C) : \A i \in 1 .. Len(cs) : Tools(cs)[i] = Tool(cs[i])
           /\ \A cs \in Seq(C) : \A c \in C : Tools(Append(cs, c)) = Tools(cs) \o << Tool(c) >>
           /\ \A cs \in Seq(C) : ToolCalls(Tools(cs)) = cs
           /\ \A cs \in Seq(C) : ShapeOfMessages(Tools(cs)) = << >>
           /\ \A cs \in Seq(C) : CallsIn(Tools(cs)) = << >>
<1> DEFINE f == [ c \in C |-> Tool(c) ]
<1>1. f \in [ C -> Messages(C) ] /\ \A c \in C : f[c] = Tool(c) /\ Tool(c) \in Messages(C)
  BY MessageCases
<1>2. ASSUME NEW cs \in Seq(C) PROVE Tools(cs) = Each(f, cs)
  <2>1. \A n \in DOMAIN cs : f[cs[n]] = Tool(cs[n])
    BY <1>1, ElementOfSeq
  <2> HIDE DEF f
  <2> QED BY <2>1 DEF Tools, Each
<1> HIDE DEF f
<1>3. /\ Each(f, << >>) = << >>
      /\ \A cs \in Seq(C) : Each(f, cs) \in Seq(Messages(C)) /\ Len(Each(f, cs)) = Len(cs)
      /\ \A cs \in Seq(C) : \A c \in C : Each(f, Append(cs, c)) = Each(f, cs) \o << f[c] >>
  BY <1>1, EachAppend
<1>4. << >> \in Seq(C) /\ \A cs \in Seq(C) : \A c \in C : Append(cs, c) \in Seq(C)
  OBVIOUS
<1>5. Tools(<< >>) = << >>
  BY <1>2, <1>3, <1>4
<1>6. \A cs \in Seq(C) : Tools(cs) \in Seq(Messages(C)) /\ Len(Tools(cs)) = Len(cs)
  BY <1>2, <1>3, Zenon
<1>7. \A cs \in Seq(C) : \A i \in 1 .. Len(cs) : Tools(cs)[i] = Tool(cs[i])
  BY DEF Tools
<1>8. \A cs \in Seq(C) : \A c \in C : Tools(Append(cs, c)) = Tools(cs) \o << Tool(c) >>
  BY <1>1, <1>2, <1>3, <1>4, Zenon
<1>9. ASSUME NEW cs \in Seq(C) PROVE ToolCalls(Tools(cs)) = cs
  <2> DEFINE Q == { d \in Seq(C) : ToolCalls(Tools(d)) = d }
  <2>1. << >> \in Q
    BY <1>4, <1>5, ToolLaws
  <2>2. ASSUME NEW d \in Q, NEW c \in C PROVE Append(d, c) \in Q
    <3>1. d \in Seq(C) /\ ToolCalls(Tools(d)) = d /\ Append(d, c) \in Seq(C)
      OBVIOUS
    <3> HIDE DEF Q
    <3>2. Tools(Append(d, c)) = Tools(d) \o << Tool(c) >> /\ Tools(d) \in Seq(Messages(C))
      BY <1>6, <1>8, <3>1
    <3>3. << Tool(c) >> \in Seq(Messages(C)) /\ Tool(c) \in Messages(C)
      BY <1>1
    <3>4. ToolCalls(Tools(d) \o << Tool(c) >>) = ToolCalls(Tools(d)) \o ToolCalls(<< Tool(c) >>)
      BY <3>2, <3>3, ToolLaws
    <3>5. ToolCalls(<< Tool(c) >>) = << c >>
      <4>1. Tool(c).role = "tool" /\ Tool(c).calls = << c >>
        BY DEF Tool
      <4> QED BY <3>3, <4>1, ToolLaws
    <3>6. d \o << c >> = Append(d, c)
      BY <3>1, AppendIsConcat
    <3> QED BY <3>1, <3>2, <3>4, <3>5, <3>6 DEF Q
  <2>3. Q = Seq(C)
    <3>1. Q \in SUBSET Seq(C)
      OBVIOUS
    <3> HIDE DEF Q
    <3> QED BY <2>1, <2>2, <3>1, AllSequences
  <2> QED BY <2>3
<1>10. ASSUME NEW cs \in Seq(C) PROVE ShapeOfMessages(Tools(cs)) = << >>
  <2> DEFINE Q == { d \in Seq(C) : ShapeOfMessages(Tools(d)) = << >> }
  <2>1. << >> \in Q
    BY <1>4, <1>5, ShapeLaws
  <2>2. ASSUME NEW d \in Q, NEW c \in C PROVE Append(d, c) \in Q
    <3>1. d \in Seq(C) /\ ShapeOfMessages(Tools(d)) = << >> /\ Append(d, c) \in Seq(C)
      OBVIOUS
    <3> HIDE DEF Q
    <3>2. Tools(Append(d, c)) = Tools(d) \o << Tool(c) >> /\ Tools(d) \in Seq(Messages(C))
      BY <1>6, <1>8, <3>1
    <3>3. << Tool(c) >> \in Seq(Messages(C)) /\ Tool(c) \in Messages(C)
      BY <1>1
    <3>4. ShapeOfMessages(Tools(d) \o << Tool(c) >>) = ShapeOfMessages(Tools(d)) \o ShapeOfMessages(<< Tool(c) >>)
      BY <3>2, <3>3, ShapeLaws
    <3>5. ShapeOfMessages(<< Tool(c) >>) = << >>
      <4>1. Tool(c).role = "tool" /\ Tool(c).calls = << c >>
        BY DEF Tool
      <4> QED BY <3>3, <4>1, ShapeLaws
    <3>6. << >> \o << >> = << >>
      BY <3>1
    <3> QED BY <3>1, <3>2, <3>4, <3>5, <3>6 DEF Q
  <2>3. Q = Seq(C)
    <3>1. Q \in SUBSET Seq(C)
      OBVIOUS
    <3> HIDE DEF Q
    <3> QED BY <2>1, <2>2, <3>1, AllSequences
  <2> QED BY <2>3
<1>11. ASSUME NEW cs \in Seq(C) PROVE CallsIn(Tools(cs)) = << >>
  <2> DEFINE Q == { d \in Seq(C) : CallsIn(Tools(d)) = << >> }
  <2>1. << >> \in Q
    BY <1>4, <1>5, InLaws
  <2>2. ASSUME NEW d \in Q, NEW c \in C PROVE Append(d, c) \in Q
    <3>1. d \in Seq(C) /\ CallsIn(Tools(d)) = << >> /\ Append(d, c) \in Seq(C)
      OBVIOUS
    <3> HIDE DEF Q
    <3>2. Tools(Append(d, c)) = Tools(d) \o << Tool(c) >> /\ Tools(d) \in Seq(Messages(C))
      BY <1>6, <1>8, <3>1
    <3>3. << Tool(c) >> \in Seq(Messages(C)) /\ Tool(c) \in Messages(C)
      BY <1>1
    <3>4. CallsIn(Tools(d) \o << Tool(c) >>) = CallsIn(Tools(d)) \o CallsIn(<< Tool(c) >>)
      BY <3>2, <3>3, InLaws
    <3>5. CallsIn(<< Tool(c) >>) = << >>
      <4>1. Tool(c).role = "tool" /\ Tool(c).calls = << c >>
        BY DEF Tool
      <4> QED BY <3>3, <4>1, InLaws
    <3>6. << >> \o << >> = << >>
      BY <3>1
    <3> QED BY <3>1, <3>2, <3>4, <3>5, <3>6 DEF Q
  <2>3. Q = Seq(C)
    <3>1. Q \in SUBSET Seq(C)
      OBVIOUS
    <3> HIDE DEF Q
    <3> QED BY <2>1, <2>2, <3>1, AllSequences
  <2> QED BY <2>3
<1> QED BY <1>5, <1>6, <1>7, <1>8, <1>9, <1>10, <1>11, Zenon

\* Outputs as items.
LEMMA ResultsLaws ==
    ASSUME NEW C
    PROVE  /\ Results(<< >>) = << >>
           /\ \A cs \in Seq(C) : Results(cs) \in Seq(Items(C)) /\ Len(Results(cs)) = Len(cs)
           /\ \A cs \in Seq(C) : \A i \in 1 .. Len(cs) : Results(cs)[i] = Answer(cs[i])
           /\ \A cs \in Seq(C) : \A c \in C : Results(Append(cs, c)) = Results(cs) \o << Answer(c) >>
           /\ \A cs \in Seq(C) : AnswersOf(Results(cs)) = cs
           /\ \A cs \in Seq(C) : CallsOf(Results(cs)) = << >>
           /\ \A cs \in Seq(C) : ShapeOfItems(Results(cs)) = << >>
<1> DEFINE f == [ c \in C |-> Answer(c) ]
<1>1. f \in [ C -> Items(C) ] /\ \A c \in C : f[c] = Answer(c) /\ Answer(c) \in Items(C)
  BY ItemCases
<1>2. ASSUME NEW cs \in Seq(C) PROVE Results(cs) = Each(f, cs)
  <2>1. \A n \in DOMAIN cs : f[cs[n]] = Answer(cs[n])
    BY <1>1, ElementOfSeq
  <2> HIDE DEF f
  <2> QED BY <2>1 DEF Results, Each
<1> HIDE DEF f
<1>3. /\ Each(f, << >>) = << >>
      /\ \A cs \in Seq(C) : Each(f, cs) \in Seq(Items(C)) /\ Len(Each(f, cs)) = Len(cs)
      /\ \A cs \in Seq(C) : \A c \in C : Each(f, Append(cs, c)) = Each(f, cs) \o << f[c] >>
  BY <1>1, EachAppend
<1>4. << >> \in Seq(C) /\ \A cs \in Seq(C) : \A c \in C : Append(cs, c) \in Seq(C)
  OBVIOUS
<1>5. Results(<< >>) = << >>
  BY <1>2, <1>3, <1>4
<1>6. \A cs \in Seq(C) : Results(cs) \in Seq(Items(C)) /\ Len(Results(cs)) = Len(cs)
  BY <1>2, <1>3, Zenon
<1>7. \A cs \in Seq(C) : \A i \in 1 .. Len(cs) : Results(cs)[i] = Answer(cs[i])
  BY DEF Results
<1>8. \A cs \in Seq(C) : \A c \in C : Results(Append(cs, c)) = Results(cs) \o << Answer(c) >>
  BY <1>1, <1>2, <1>3, <1>4, Zenon
<1>9. ASSUME NEW cs \in Seq(C) PROVE AnswersOf(Results(cs)) = cs
  <2> DEFINE Q == { d \in Seq(C) : AnswersOf(Results(d)) = d }
  <2>1. << >> \in Q
    BY <1>4, <1>5, AnswersLaws
  <2>2. ASSUME NEW d \in Q, NEW c \in C PROVE Append(d, c) \in Q
    <3>1. d \in Seq(C) /\ AnswersOf(Results(d)) = d /\ Append(d, c) \in Seq(C)
      OBVIOUS
    <3> HIDE DEF Q
    <3>2. Results(Append(d, c)) = Results(d) \o << Answer(c) >> /\ Results(d) \in Seq(Items(C))
      BY <1>6, <1>8, <3>1
    <3>3. << Answer(c) >> \in Seq(Items(C)) /\ Answer(c) \in Items(C)
      BY <1>1
    <3>4. AnswersOf(Results(d) \o << Answer(c) >>) = AnswersOf(Results(d)) \o AnswersOf(<< Answer(c) >>)
      BY <3>2, <3>3, AnswersLaws
    <3>5. AnswersOf(<< Answer(c) >>) = << c >>
      <4>1. Answer(c).kind = "output" /\ Answer(c).call = c
        BY DEF Answer
      <4> QED BY <3>3, <4>1, AnswersLaws
    <3>6. d \o << c >> = Append(d, c)
      BY <3>1, AppendIsConcat
    <3> QED BY <3>1, <3>2, <3>4, <3>5, <3>6 DEF Q
  <2>3. Q = Seq(C)
    <3>1. Q \in SUBSET Seq(C)
      OBVIOUS
    <3> HIDE DEF Q
    <3> QED BY <2>1, <2>2, <3>1, AllSequences
  <2> QED BY <2>3
<1>10. ASSUME NEW cs \in Seq(C) PROVE CallsOf(Results(cs)) = << >>
  <2> DEFINE Q == { d \in Seq(C) : CallsOf(Results(d)) = << >> }
  <2>1. << >> \in Q
    BY <1>4, <1>5, CallsLaws
  <2>2. ASSUME NEW d \in Q, NEW c \in C PROVE Append(d, c) \in Q
    <3>1. d \in Seq(C) /\ CallsOf(Results(d)) = << >> /\ Append(d, c) \in Seq(C)
      OBVIOUS
    <3> HIDE DEF Q
    <3>2. Results(Append(d, c)) = Results(d) \o << Answer(c) >> /\ Results(d) \in Seq(Items(C))
      BY <1>6, <1>8, <3>1
    <3>3. << Answer(c) >> \in Seq(Items(C)) /\ Answer(c) \in Items(C)
      BY <1>1
    <3>4. CallsOf(Results(d) \o << Answer(c) >>) = CallsOf(Results(d)) \o CallsOf(<< Answer(c) >>)
      BY <3>2, <3>3, CallsLaws
    <3>5. CallsOf(<< Answer(c) >>) = << >>
      <4>1. Answer(c).kind = "output" /\ Answer(c).call = c
        BY DEF Answer
      <4> QED BY <3>3, <4>1, CallsLaws
    <3>6. << >> \o << >> = << >>
      BY <3>1
    <3> QED BY <3>1, <3>2, <3>4, <3>5, <3>6 DEF Q
  <2>3. Q = Seq(C)
    <3>1. Q \in SUBSET Seq(C)
      OBVIOUS
    <3> HIDE DEF Q
    <3> QED BY <2>1, <2>2, <3>1, AllSequences
  <2> QED BY <2>3
<1>11. ASSUME NEW cs \in Seq(C) PROVE ShapeOfItems(Results(cs)) = << >>
  <2> DEFINE Q == { d \in Seq(C) : ShapeOfItems(Results(d)) = << >> }
  <2>1. << >> \in Q
    BY <1>4, <1>5, ItemShapeLaws
  <2>2. ASSUME NEW d \in Q, NEW c \in C PROVE Append(d, c) \in Q
    <3>1. d \in Seq(C) /\ ShapeOfItems(Results(d)) = << >> /\ Append(d, c) \in Seq(C)
      OBVIOUS
    <3> HIDE DEF Q
    <3>2. Results(Append(d, c)) = Results(d) \o << Answer(c) >> /\ Results(d) \in Seq(Items(C))
      BY <1>6, <1>8, <3>1
    <3>3. << Answer(c) >> \in Seq(Items(C)) /\ Answer(c) \in Items(C)
      BY <1>1
    <3>4. ShapeOfItems(Results(d) \o << Answer(c) >>) = ShapeOfItems(Results(d)) \o ShapeOfItems(<< Answer(c) >>)
      BY <3>2, <3>3, ItemShapeLaws
    <3>5. ShapeOfItems(<< Answer(c) >>) = << >>
      <4>1. Answer(c).kind = "output" /\ Answer(c).call = c
        BY DEF Answer
      <4> QED BY <3>3, <4>1, ItemShapeLaws
    <3>6. << >> \o << >> = << >>
      BY <3>1
    <3> QED BY <3>1, <3>2, <3>4, <3>5, <3>6 DEF Q
  <2>3. Q = Seq(C)
    <3>1. Q \in SUBSET Seq(C)
      OBVIOUS
    <3> HIDE DEF Q
    <3> QED BY <2>1, <2>2, <3>1, AllSequences
  <2> QED BY <2>3
<1> QED BY <1>5, <1>6, <1>7, <1>8, <1>9, <1>10, <1>11, Zenon

\* Calls as items.
MadeAll(cs) == [ n \in DOMAIN cs |-> Made(cs[n]) ]

\* They are items one by one; they have no outputs, and their calls are the calls.
LEMMA MadeLaws ==
    ASSUME NEW C
    PROVE  /\ MadeAll(<< >>) = << >>
           /\ \A cs \in Seq(C) : MadeAll(cs) \in Seq(Items(C)) /\ Len(MadeAll(cs)) = Len(cs)
           /\ \A cs \in Seq(C) : \A i \in 1 .. Len(cs) : MadeAll(cs)[i] = Made(cs[i])
           /\ \A cs \in Seq(C) : \A c \in C : MadeAll(Append(cs, c)) = MadeAll(cs) \o << Made(c) >>
           /\ \A cs \in Seq(C) : AnswersOf(MadeAll(cs)) = << >>
           /\ \A cs \in Seq(C) : CallsOf(MadeAll(cs)) = cs
           /\ \A cs \in Seq(C) : ShapeOfItems(MadeAll(cs)) = cs
<1> DEFINE f == [ c \in C |-> Made(c) ]
<1>1. f \in [ C -> Items(C) ] /\ \A c \in C : f[c] = Made(c) /\ Made(c) \in Items(C)
  BY ItemCases
<1>2. ASSUME NEW cs \in Seq(C) PROVE MadeAll(cs) = Each(f, cs)
  <2>1. \A n \in DOMAIN cs : f[cs[n]] = Made(cs[n])
    BY <1>1, ElementOfSeq
  <2> HIDE DEF f
  <2> QED BY <2>1 DEF MadeAll, Each
<1> HIDE DEF f
<1>3. /\ Each(f, << >>) = << >>
      /\ \A cs \in Seq(C) : Each(f, cs) \in Seq(Items(C)) /\ Len(Each(f, cs)) = Len(cs)
      /\ \A cs \in Seq(C) : \A c \in C : Each(f, Append(cs, c)) = Each(f, cs) \o << f[c] >>
  BY <1>1, EachAppend
<1>4. << >> \in Seq(C) /\ \A cs \in Seq(C) : \A c \in C : Append(cs, c) \in Seq(C)
  OBVIOUS
<1>5. MadeAll(<< >>) = << >>
  BY <1>2, <1>3, <1>4
<1>6. \A cs \in Seq(C) : MadeAll(cs) \in Seq(Items(C)) /\ Len(MadeAll(cs)) = Len(cs)
  BY <1>2, <1>3, Zenon
<1>7. \A cs \in Seq(C) : \A i \in 1 .. Len(cs) : MadeAll(cs)[i] = Made(cs[i])
  BY DEF MadeAll
<1>8. \A cs \in Seq(C) : \A c \in C : MadeAll(Append(cs, c)) = MadeAll(cs) \o << Made(c) >>
  BY <1>1, <1>2, <1>3, <1>4, Zenon
<1>9. ASSUME NEW cs \in Seq(C) PROVE AnswersOf(MadeAll(cs)) = << >>
  <2> DEFINE Q == { d \in Seq(C) : AnswersOf(MadeAll(d)) = << >> }
  <2>1. << >> \in Q
    BY <1>4, <1>5, AnswersLaws
  <2>2. ASSUME NEW d \in Q, NEW c \in C PROVE Append(d, c) \in Q
    <3>1. d \in Seq(C) /\ AnswersOf(MadeAll(d)) = << >> /\ Append(d, c) \in Seq(C)
      OBVIOUS
    <3> HIDE DEF Q
    <3>2. MadeAll(Append(d, c)) = MadeAll(d) \o << Made(c) >> /\ MadeAll(d) \in Seq(Items(C))
      BY <1>6, <1>8, <3>1
    <3>3. << Made(c) >> \in Seq(Items(C)) /\ Made(c) \in Items(C)
      BY <1>1
    <3>4. AnswersOf(MadeAll(d) \o << Made(c) >>) = AnswersOf(MadeAll(d)) \o AnswersOf(<< Made(c) >>)
      BY <3>2, <3>3, AnswersLaws
    <3>5. AnswersOf(<< Made(c) >>) = << >>
      <4>1. Made(c).kind = "call" /\ Made(c).call = c
        BY DEF Made
      <4> QED BY <3>3, <4>1, AnswersLaws
    <3>6. << >> \o << >> = << >>
      BY <3>1
    <3> QED BY <3>1, <3>2, <3>4, <3>5, <3>6 DEF Q
  <2>3. Q = Seq(C)
    <3>1. Q \in SUBSET Seq(C)
      OBVIOUS
    <3> HIDE DEF Q
    <3> QED BY <2>1, <2>2, <3>1, AllSequences
  <2> QED BY <2>3
<1>10. ASSUME NEW cs \in Seq(C) PROVE CallsOf(MadeAll(cs)) = cs
  <2> DEFINE Q == { d \in Seq(C) : CallsOf(MadeAll(d)) = d }
  <2>1. << >> \in Q
    BY <1>4, <1>5, CallsLaws
  <2>2. ASSUME NEW d \in Q, NEW c \in C PROVE Append(d, c) \in Q
    <3>1. d \in Seq(C) /\ CallsOf(MadeAll(d)) = d /\ Append(d, c) \in Seq(C)
      OBVIOUS
    <3> HIDE DEF Q
    <3>2. MadeAll(Append(d, c)) = MadeAll(d) \o << Made(c) >> /\ MadeAll(d) \in Seq(Items(C))
      BY <1>6, <1>8, <3>1
    <3>3. << Made(c) >> \in Seq(Items(C)) /\ Made(c) \in Items(C)
      BY <1>1
    <3>4. CallsOf(MadeAll(d) \o << Made(c) >>) = CallsOf(MadeAll(d)) \o CallsOf(<< Made(c) >>)
      BY <3>2, <3>3, CallsLaws
    <3>5. CallsOf(<< Made(c) >>) = << c >>
      <4>1. Made(c).kind = "call" /\ Made(c).call = c
        BY DEF Made
      <4> QED BY <3>3, <4>1, CallsLaws
    <3>6. d \o << c >> = Append(d, c)
      BY <3>1, AppendIsConcat
    <3> QED BY <3>1, <3>2, <3>4, <3>5, <3>6 DEF Q
  <2>3. Q = Seq(C)
    <3>1. Q \in SUBSET Seq(C)
      OBVIOUS
    <3> HIDE DEF Q
    <3> QED BY <2>1, <2>2, <3>1, AllSequences
  <2> QED BY <2>3
<1>11. ASSUME NEW cs \in Seq(C) PROVE ShapeOfItems(MadeAll(cs)) = cs
  <2> DEFINE Q == { d \in Seq(C) : ShapeOfItems(MadeAll(d)) = d }
  <2>1. << >> \in Q
    BY <1>4, <1>5, ItemShapeLaws
  <2>2. ASSUME NEW d \in Q, NEW c \in C PROVE Append(d, c) \in Q
    <3>1. d \in Seq(C) /\ ShapeOfItems(MadeAll(d)) = d /\ Append(d, c) \in Seq(C)
      OBVIOUS
    <3> HIDE DEF Q
    <3>2. MadeAll(Append(d, c)) = MadeAll(d) \o << Made(c) >> /\ MadeAll(d) \in Seq(Items(C))
      BY <1>6, <1>8, <3>1
    <3>3. << Made(c) >> \in Seq(Items(C)) /\ Made(c) \in Items(C)
      BY <1>1
    <3>4. ShapeOfItems(MadeAll(d) \o << Made(c) >>) = ShapeOfItems(MadeAll(d)) \o ShapeOfItems(<< Made(c) >>)
      BY <3>2, <3>3, ItemShapeLaws
    <3>5. ShapeOfItems(<< Made(c) >>) = << c >>
      <4>1. Made(c).kind = "call" /\ Made(c).call = c
        BY DEF Made
      <4> QED BY <3>3, <4>1, ItemShapeLaws
    <3>6. d \o << c >> = Append(d, c)
      BY <3>1, AppendIsConcat
    <3> QED BY <3>1, <3>2, <3>4, <3>5, <3>6 DEF Q
  <2>3. Q = Seq(C)
    <3>1. Q \in SUBSET Seq(C)
      OBVIOUS
    <3> HIDE DEF Q
    <3> QED BY <2>1, <2>2, <3>1, AllSequences
  <2> QED BY <2>3
<1> QED BY <1>5, <1>6, <1>7, <1>8, <1>9, <1>10, <1>11, Zenon

\* The answer of the upstream, as the client keeps it.
LEMMA ReplyLaws ==
    ASSUME NEW C, NEW cs \in Seq(C)
    PROVE  /\ Reply(cs) \in Seq(Items(C))
           /\ CallsOf(Reply(cs)) = cs /\ AnswersOf(Reply(cs)) = << >> /\ ShapeOfItems(Reply(cs)) = cs
           /\ \A c \in ToSet(cs) : \E i \in 1 .. Len(Reply(cs)) : Reply(cs)[i] = Made(c)
<1>1. CASE cs = << >>
  <2>1. Reply(cs) = << Spoken >> /\ Spoken \in Items(C)
    BY <1>1, ItemCases DEF Reply
  <2>2. << Spoken >> \in Seq(Items(C))
    BY <2>1
  <2>3. CallsOf(<< Spoken >>) = << >>
    BY <2>1, CallsLaws DEF Spoken
  <2>4. AnswersOf(<< Spoken >>) = << >>
    BY <2>1, AnswersLaws DEF Spoken
  <2>5. ShapeOfItems(<< Spoken >>) = << >>
    BY <2>1, ItemShapeLaws DEF Spoken
  <2>6. ToSet(cs) = {}
    BY <1>1, Elements
  <2> QED BY <1>1, <2>1, <2>2, <2>3, <2>4, <2>5, <2>6
<1>2. CASE cs # << >>
  <2>1. Reply(cs) = MadeAll(cs)
    BY <1>2 DEF Reply, MadeAll
  <2>2. /\ MadeAll(cs) \in Seq(Items(C)) /\ Len(MadeAll(cs)) = Len(cs)
        /\ \A i \in 1 .. Len(cs) : MadeAll(cs)[i] = Made(cs[i])
    BY MadeLaws
  <2>3. CallsOf(MadeAll(cs)) = cs /\ AnswersOf(MadeAll(cs)) = << >> /\ ShapeOfItems(MadeAll(cs)) = cs
    BY MadeLaws
  <2>4. ToSet(cs) = { cs[i] : i \in 1 .. Len(cs) }
    BY Elements
  <2>5. \A c \in ToSet(cs) : \E i \in 1 .. Len(cs) : MadeAll(cs)[i] = Made(c)
    BY <2>2, <2>4
  <2> QED BY <2>1, <2>2, <2>3, <2>5
<1> QED BY <1>1, <1>2

------------------------------------------------------------------------------
(***************************************************************************)
(* Items become messages.                                                  *)
(***************************************************************************)
\* f[i] is what has been read after i items.
Reads(f, items, n) ==
    f = [ i \in 0 .. n |-> IF i = 0 THEN Start ELSE Take(f[i - 1], items[i]) ]

\* Such an f exists.
LEMMA ReadsExist ==
    ASSUME NEW items, NEW n \in Nat
    PROVE  \E f : Reads(f, items, n)
<1> DEFINE Q == { m \in Nat : \E f : Reads(f, items, m) }
<1>1. 0 \in Q
  <2> DEFINE f == [ i \in 0 .. 0 |-> Start ]
  <2>1. Reads(f, items, 0)
    BY DEF Reads
  <2> HIDE DEF f
  <2> QED BY <2>1
<1>2. ASSUME NEW m \in Q PROVE m + 1 \in Q
  <2>1. PICK f : Reads(f, items, m)
    OBVIOUS
  <2> DEFINE g == [ i \in 0 .. m + 1 |-> IF i = 0 THEN Start ELSE Take(f[i - 1], items[i]) ]
  <2>2. ASSUME NEW i \in 0 .. m + 1, i # 0 PROVE g[i - 1] = f[i - 1]
    <3>1. i - 1 \in 0 .. m /\ i - 1 \in 0 .. m + 1
      BY <2>2
    <3>2. f[i - 1] = IF i - 1 = 0 THEN Start ELSE Take(f[(i - 1) - 1], items[i - 1])
      BY <2>1, <3>1 DEF Reads
    <3> QED BY <3>1, <3>2
  <2>3. Reads(g, items, m + 1)
    BY <2>2 DEF Reads
  <2> HIDE DEF g
  <2> QED BY <2>3
<1>3. Q = Nat
  <2>1. Q \in SUBSET Nat
    OBVIOUS
  <2> HIDE DEF Q
  <2> QED BY <1>1, <1>2, <2>1, AllNumbers
<1> QED BY <1>3

\* What was read depends on the items up to there only.
LEMMA ReadsAgree ==
    ASSUME NEW s, NEW t, NEW n \in Nat, NEW m \in Nat, NEW f, NEW g, Reads(f, s, n), Reads(g, t, m),
           NEW k \in 0 .. n, k \in 0 .. m, \A i \in 1 .. k : s[i] = t[i]
    PROVE  f[k] = g[k]
<1> DEFINE T == { i \in 0 .. k : f[i] # g[i] }
<1>1. SUFFICES ASSUME T # {} PROVE FALSE
  OBVIOUS
<1>2. PICK x \in T : \A y \in T : x <= y
  <2>1. T \in SUBSET Nat
    OBVIOUS
  <2> HIDE DEF T
  <2> QED BY <1>1, <2>1, Least
<1>3. x \in 0 .. n /\ x \in 0 .. m
  OBVIOUS
<1>4. /\ f[x] = IF x = 0 THEN Start ELSE Take(f[x - 1], s[x])
      /\ g[x] = IF x = 0 THEN Start ELSE Take(g[x - 1], t[x])
  BY <1>3 DEF Reads
<1>5. x # 0 => f[x - 1] = g[x - 1] /\ s[x] = t[x]
  BY <1>2
<1> QED BY <1>4, <1>5

\* What Reading is the last value of.
LEMMA ReadingIs ==
    ASSUME NEW items, Len(items) \in Nat
    PROVE  \E f : Reads(f, items, Len(items)) /\ Reading(items) = f[Len(items)]
<1> DEFINE f == CHOOSE g : Reads(g, items, Len(items))
<1>1. Reads(f, items, Len(items))
  BY ReadsExist
<1>2. Reading(items) = f[Len(items)]
  BY DEF Reading, Reads
<1> QED BY <1>1, <1>2

\* One item more.
LEMMA ReadingAppend ==
    ASSUME NEW S, NEW s \in Seq(S), NEW x \in S
    PROVE  Reading(<< >>) = Start /\ Reading(Append(s, x)) = Take(Reading(s), x)
<1>1. Reading(<< >>) = Start
  <2>1. Len(<< >>) = 0 /\ Len(<< >>) \in Nat
    OBVIOUS
  <2>2. PICK f : Reads(f, << >>, 0) /\ Reading(<< >>) = f[0]
    BY <2>1, ReadingIs
  <2> QED BY <2>2 DEF Reads
<1> DEFINE t == Append(s, x)
           n == Len(s)
<1>2. /\ n \in Nat /\ Len(t) = n + 1 /\ t[n + 1] = x /\ \A i \in 1 .. n : t[i] = s[i]
  BY AppendProperties
<1> HIDE DEF t
<1>3. PICK f : Reads(f, s, n) /\ Reading(s) = f[n]
  BY <1>2, ReadingIs
<1>4. PICK g : Reads(g, t, n + 1) /\ Reading(t) = g[n + 1]
  BY <1>2, ReadingIs
<1> HIDE DEF n
<1>5. n \in 0 .. n /\ n \in 0 .. n + 1 /\ n + 1 \in 0 .. n + 1 /\ n + 1 # 0 /\ (n + 1) - 1 = n /\ n + 1 \in Nat
  BY <1>2
<1>6. f[n] = g[n]
  BY <1>2, <1>3, <1>4, <1>5, ReadsAgree
<1>7. g[n + 1] = Take(g[n], t[n + 1])
  BY <1>4, <1>5 DEF Reads
<1> QED BY <1>1, <1>2, <1>3, <1>4, <1>6, <1>7 DEF t

\* x is what was read of the items, for calls in C
ReadOf(C, x, items) ==
    /\ x \in [ messages : Seq(Plain(C)), pending : Seq(C) ]
    /\ ShapeOfMessages(x.messages) \o x.pending = ShapeOfItems(items)
    /\ CallsIn(x.messages) \o x.pending = CallsOf(items)

\* A message more.
LEMMA MessageMore ==
    ASSUME NEW C, NEW ms \in Seq(Plain(C)), NEW m \in Plain(C)
    PROVE  /\ ms \in Seq(Messages(C)) /\ Append(ms, m) \in Seq(Plain(C)) /\ Append(ms, m) = ms \o << m >>
           /\ ShapeOfMessages(Append(ms, m)) = ShapeOfMessages(ms) \o ShapeOfMessages(<< m >>)
           /\ CallsIn(Append(ms, m)) = CallsIn(ms) \o CallsIn(<< m >>)
           /\ ShapeOfMessages(ms) \in Seq(C \cup { NoCall }) /\ CallsIn(ms) \in Seq(C)
<1>1. ms \in Seq(Messages(C)) /\ << m >> \in Seq(Messages(C))
  <2>1. Plain(C) \subseteq Messages(C)
    BY MessageCases
  <2>2. m \in Messages(C)
    BY <2>1
  <2>3. ms \in Seq(Messages(C))
    BY <2>1, SeqMonotonic
  <2>4. << m >> \in Seq(Messages(C))
    BY <2>2
  <2> QED BY <2>3, <2>4
<1>2. Append(ms, m) \in Seq(Plain(C)) /\ Append(ms, m) = ms \o << m >>
  BY AppendProperties, AppendIsConcat
<1>3. ShapeOfMessages(ms \o << m >>) = ShapeOfMessages(ms) \o ShapeOfMessages(<< m >>)
  BY <1>1, ShapeLaws
<1>4. CallsIn(ms \o << m >>) = CallsIn(ms) \o CallsIn(<< m >>)
  BY <1>1, InLaws
<1>5. ShapeOfMessages(ms) \in Seq(C \cup { NoCall }) /\ CallsIn(ms) \in Seq(C)
  BY <1>1, ShapeLaws, InLaws
<1> QED BY <1>1, <1>2, <1>3, <1>4, <1>5

\* What a message counts for.
LEMMA MessageParts ==
    ASSUME NEW C
    PROVE  /\ ShapeOfMessages(<< User >>) = << NoCall >> /\ CallsIn(<< User >>) = << >>
           /\ ToolCalls(<< User >>) = << >>
           /\ \A cs \in Seq(C) : /\ ShapeOfMessages(<< Assistant(cs) >>) = cs
                                 /\ CallsIn(<< Assistant(cs) >>) = cs
                                 /\ ToolCalls(<< Assistant(cs) >>) = << >>
<1>1. User \in Messages(C) /\ \A cs \in Seq(C) : Assistant(cs) \in Messages(C)
  BY MessageCases
<1>2. User.role = "user" /\ \A cs : Assistant(cs).role = "assistant" /\ Assistant(cs).calls = cs
  BY DEF User, Assistant
<1>3. ShapeOfMessages(<< User >>) = << NoCall >> /\ CallsIn(<< User >>) = << >> /\ ToolCalls(<< User >>) = << >>
  <2>1. ShapeOfMessages(<< User >>) = << NoCall >>
    BY <1>1, <1>2, ShapeLaws
  <2>2. CallsIn(<< User >>) = << >>
    BY <1>1, <1>2, InLaws
  <2>3. ToolCalls(<< User >>) = << >>
    BY <1>1, <1>2, ToolLaws
  <2> QED BY <2>1, <2>2, <2>3
<1>4. ASSUME NEW cs \in Seq(C)
      PROVE  /\ ShapeOfMessages(<< Assistant(cs) >>) = cs /\ CallsIn(<< Assistant(cs) >>) = cs
             /\ ToolCalls(<< Assistant(cs) >>) = << >>
  <2> DEFINE m == Assistant(cs)
  <2>1. m \in Messages(C) /\ m.role = "assistant" /\ m.calls = cs
    BY <1>1, <1>2
  <2> HIDE DEF m
  <2>2. ShapeOfMessages(<< m >>) = cs
    BY <2>1, ShapeLaws
  <2>3. CallsIn(<< m >>) = cs
    BY <2>1, InLaws
  <2>4. ToolCalls(<< m >>) = << >>
    BY <2>1, ToolLaws
  <2> QED BY <2>2, <2>3, <2>4 DEF m
<1> QED BY <1>3, <1>4

\* The end of a run of calls.
LEMMA Flushes ==
    ASSUME NEW C, NEW x, NEW items \in Seq(Items(C)), ReadOf(C, x, items)
    PROVE  /\ ReadOf(C, FlushPending(x), items) /\ FlushPending(x).pending = << >>
           /\ ShapeOfMessages(FlushPending(x).messages) = ShapeOfItems(items)
           /\ CallsIn(FlushPending(x).messages) = CallsOf(items)
<1> DEFINE y == FlushPending(x)
           ms == x.messages
           cs == x.pending
<1>1. ms \in Seq(Plain(C)) /\ cs \in Seq(C) /\ Assistant(cs) \in Plain(C)
  BY MessageCases DEF ReadOf
<1>2. ShapeOfMessages(ms) \o cs = ShapeOfItems(items) /\ CallsIn(ms) \o cs = CallsOf(items)
  BY DEF ReadOf
<1>3. ShapeOfItems(items) \in Seq(C \cup { NoCall }) /\ CallsOf(items) \in Seq(C)
  BY ItemShapeLaws, CallsLaws
<1>4. y \in [ messages : Seq(Plain(C)), pending : Seq(C) ] /\ y.pending = << >>
  <2>1. Append(ms, Assistant(cs)) \in Seq(Plain(C))
    BY <1>1, AppendProperties
  <2>2. x \in [ messages : Seq(Plain(C)), pending : Seq(C) ] /\ << >> \in Seq(C)
    BY DEF ReadOf
  <2>3. [ messages |-> Append(ms, Assistant(cs)), pending |-> << >> ] \in [ messages : Seq(Plain(C)), pending : Seq(C) ]
    BY <2>1, <2>2
  <2> QED BY <2>2, <2>3 DEF FlushPending
<1>5. ShapeOfMessages(y.messages) = ShapeOfItems(items) /\ CallsIn(y.messages) = CallsOf(items)
  <2>1. CASE cs = << >>
    <3>1. ShapeOfMessages(ms) \in Seq(C \cup { NoCall }) /\ CallsIn(ms) \in Seq(C) /\ User \in Plain(C)
      BY <1>1, MessageCases, MessageMore
    <3>2. ShapeOfMessages(ms) \o << >> = ShapeOfMessages(ms) /\ CallsIn(ms) \o << >> = CallsIn(ms)
      BY <3>1, ConcatEmptySeq
    <3>3. y.messages = ms
      BY <2>1 DEF FlushPending
    <3> QED BY <1>2, <2>1, <3>2, <3>3
  <2>2. CASE cs # << >>
    <3>1. y.messages = Append(ms, Assistant(cs))
      BY <2>2 DEF FlushPending
    <3> HIDE DEF y, ms, cs
    <3>2. ShapeOfMessages(<< Assistant(cs) >>) = cs /\ CallsIn(<< Assistant(cs) >>) = cs
      BY <1>1, MessageParts
    <3>3. /\ ShapeOfMessages(Append(ms, Assistant(cs))) = ShapeOfMessages(ms) \o ShapeOfMessages(<< Assistant(cs) >>)
          /\ CallsIn(Append(ms, Assistant(cs))) = CallsIn(ms) \o CallsIn(<< Assistant(cs) >>)
      BY <1>1, MessageMore
    <3> QED BY <1>2, <3>1, <3>2, <3>3
  <2> QED BY <2>1, <2>2
<1> HIDE DEF y
<1>6. ShapeOfMessages(y.messages) \o << >> = ShapeOfMessages(y.messages) /\ CallsIn(y.messages) \o << >> = CallsIn(y.messages)
  BY <1>3, <1>5, ConcatEmptySeq
<1>7. << >> \in Seq(C)
  OBVIOUS
<1> QED BY <1>4, <1>5, <1>6, <1>7 DEF ReadOf, y

\* One item more, for what was read.
LEMMA Takes ==
    ASSUME NEW C, NEW x, NEW items \in Seq(Items(C)), ReadOf(C, x, items), NEW item \in Items(C)
    PROVE  ReadOf(C, Take(x, item), Append(items, item))
<1> DEFINE y == FlushPending(x)
           A == C \cup { NoCall }
<1>1. /\ ReadOf(C, y, items) /\ y.pending = << >>
      /\ ShapeOfMessages(y.messages) = ShapeOfItems(items) /\ CallsIn(y.messages) = CallsOf(items)
  BY Flushes
<1>2. << item >> \in Seq(Items(C)) /\ Append(items, item) = items \o << item >>
  BY AppendIsConcat
<1>3. /\ ShapeOfItems(Append(items, item)) = ShapeOfItems(items) \o ShapeOfItems(<< item >>)
      /\ CallsOf(Append(items, item)) = CallsOf(items) \o CallsOf(<< item >>)
  BY <1>2, ItemShapeLaws, CallsLaws
<1>4. ShapeOfItems(items) \in Seq(A) /\ CallsOf(items) \in Seq(C)
  BY ItemShapeLaws, CallsLaws
<1>5. /\ x = [ messages |-> x.messages, pending |-> x.pending ]
      /\ y = [ messages |-> y.messages, pending |-> y.pending ]
      /\ y.messages \in Seq(Plain(C)) /\ x.messages \in Seq(Plain(C)) /\ x.pending \in Seq(C)
      /\ << >> \in Seq(C)
  <2>1. /\ x \in [ messages : Seq(Plain(C)), pending : Seq(C) ]
        /\ y \in [ messages : Seq(Plain(C)), pending : Seq(C) ]
    BY <1>1 DEF ReadOf
  <2>2. << >> \in Seq(C)
    OBVIOUS
  <2> HIDE DEF y
  <2> QED BY <2>1, <2>2
<1>6. /\ ShapeOfItems(items) \o << >> = ShapeOfItems(items) /\ CallsOf(items) \o << >> = CallsOf(items)
  BY <1>4, ConcatEmptySeq
<1>7. CASE \E c \in C : item = Made(c)
  <2>1. PICK c \in C : item = Made(c)
    BY <1>7
  <2>2. item.kind = "call" /\ item.call = c
    BY <2>1 DEF Made
  <2>3. ShapeOfItems(<< item >>) = << c >>
    BY <2>2, ItemShapeLaws
  <2>4. CallsOf(<< item >>) = << c >>
    BY <2>2, CallsLaws
  <2> DEFINE z == Take(x, item)
             p == x.pending
             u == ShapeOfMessages(x.messages)
             w == CallsIn(x.messages)
  <2>5. z = [ messages |-> x.messages, pending |-> Append(p, c) ]
    <3>1. Take(x, item) = [ x EXCEPT !.pending = Append(@, c) ]
      BY <2>2 DEF Take
    <3> QED BY <1>5, <3>1
  <2>6. u \in Seq(A) /\ w \in Seq(C) /\ p \in Seq(C) /\ p \in Seq(A) /\ << c >> \in Seq(C) /\ << c >> \in Seq(A)
    <3>1. u \in Seq(A) /\ w \in Seq(C)
      BY <1>5, MessageCases, MessageMore
    <3>2. p \in Seq(A)
      BY <1>5, SeqMonotonic
    <3> QED BY <1>5, <3>1, <3>2
  <2>7. Append(p, c) = p \o << c >> /\ Append(p, c) \in Seq(C)
    BY <1>5, AppendIsConcat, AppendProperties
  <2>8. u \o p = ShapeOfItems(items) /\ w \o p = CallsOf(items)
    BY DEF ReadOf
  <2> HIDE DEF z, p, u, w
  <2>9. (u \o p) \o << c >> = u \o (p \o << c >>)
    BY <2>6, ConcatAssociative
  <2>10. (w \o p) \o << c >> = w \o (p \o << c >>)
    BY <2>6, ConcatAssociative
  <2>11. ShapeOfItems(Append(items, item)) = u \o Append(p, c) /\ CallsOf(Append(items, item)) = w \o Append(p, c)
    BY <1>3, <2>3, <2>4, <2>7, <2>8, <2>9, <2>10
  <2>12. z \in [ messages : Seq(Plain(C)), pending : Seq(C) ] /\ z.messages = x.messages /\ z.pending = Append(p, c)
    BY <1>5, <2>5, <2>7
  <2> QED BY <2>11, <2>12 DEF ReadOf, z, u, w
<1>8. CASE \E c \in C : item = Answer(c)
  <2>1. item.kind = "output"
    BY <1>8 DEF Answer
  <2>2. ShapeOfItems(<< item >>) = << >>
    BY <2>1, ItemShapeLaws
  <2>3. CallsOf(<< item >>) = << >>
    BY <2>1, CallsLaws
  <2>4. Take(x, item) = y
    BY <2>1 DEF Take
  <2>5. ShapeOfItems(Append(items, item)) = ShapeOfItems(items) /\ CallsOf(Append(items, item)) = CallsOf(items)
    BY <1>3, <1>6, <2>2, <2>3
  <2> QED BY <1>1, <2>4, <2>5 DEF ReadOf
<1>9. ASSUME NEW m \in Plain(C), Take(x, item) = [ y EXCEPT !.messages = Append(@, m) ],
             ShapeOfItems(<< item >>) = ShapeOfMessages(<< m >>), CallsOf(<< item >>) = CallsIn(<< m >>)
      PROVE  ReadOf(C, Take(x, item), Append(items, item))
  <2> DEFINE z == Take(x, item)
             ms == y.messages
  <2>1. z = [ messages |-> Append(ms, m), pending |-> << >> ]
    BY <1>1, <1>5, <1>9
  <2>2. /\ Append(ms, m) \in Seq(Plain(C))
        /\ ShapeOfMessages(Append(ms, m)) = ShapeOfMessages(ms) \o ShapeOfMessages(<< m >>)
        /\ CallsIn(Append(ms, m)) = CallsIn(ms) \o CallsIn(<< m >>)
    BY <1>5, MessageMore
  <2> HIDE DEF z
  <2>3. /\ ShapeOfMessages(Append(ms, m)) = ShapeOfItems(Append(items, item))
        /\ CallsIn(Append(ms, m)) = CallsOf(Append(items, item))
    BY <1>1, <1>3, <1>9, <2>2
  <2>4. ShapeOfItems(Append(items, item)) \in Seq(A) /\ CallsOf(Append(items, item)) \in Seq(C)
    <3>1. Append(items, item) \in Seq(Items(C))
      OBVIOUS
    <3> QED BY <3>1, ItemShapeLaws, CallsLaws
  <2>5. /\ ShapeOfItems(Append(items, item)) \o << >> = ShapeOfItems(Append(items, item))
        /\ CallsOf(Append(items, item)) \o << >> = CallsOf(Append(items, item))
    BY <2>4, ConcatEmptySeq
  <2>6. z \in [ messages : Seq(Plain(C)), pending : Seq(C) ] /\ z.messages = Append(ms, m) /\ z.pending = << >>
    BY <1>5, <2>1, <2>2
  <2> QED BY <2>3, <2>5, <2>6 DEF ReadOf, z
<1>10. CASE item = Said
  <2>1. item.kind = "message" /\ item.call = NoCall
    BY <1>10 DEF Said
  <2>2. ShapeOfItems(<< item >>) = << NoCall >>
    BY <2>1, ItemShapeLaws
  <2>3. CallsOf(<< item >>) = << >>
    BY <2>1, CallsLaws
  <2>4. Take(x, item) = [ y EXCEPT !.messages = Append(@, User) ]
    BY <2>1 DEF Take, y
  <2>5. User \in Plain(C) /\ ShapeOfMessages(<< User >>) = << NoCall >> /\ CallsIn(<< User >>) = << >>
    BY MessageCases, MessageParts
  <2> QED BY <1>9, <2>2, <2>3, <2>4, <2>5
<1>11. CASE item = Spoken
  <2>1. item.kind = "reply"
    BY <1>11 DEF Spoken
  <2>2. ShapeOfItems(<< item >>) = << >>
    BY <2>1, ItemShapeLaws
  <2>3. CallsOf(<< item >>) = << >>
    BY <2>1, CallsLaws
  <2> DEFINE m == Assistant(<< >>)
  <2>4. Take(x, item) = [ y EXCEPT !.messages = Append(@, m) ]
    BY <2>1 DEF Take, y
  <2>5. m \in Plain(C) /\ ShapeOfMessages(<< m >>) = << >> /\ CallsIn(<< m >>) = << >>
    BY <1>5, MessageCases, MessageParts
  <2> HIDE DEF m
  <2> QED BY <1>9, <2>2, <2>3, <2>4, <2>5
<1> QED BY <1>7, <1>8, <1>10, <1>11, ItemCases

(***************************************************************************)
(* Extract keeps the shape, makes the same calls and no output.            *)
(***************************************************************************)
LEMMA ExtractLaws ==
    ASSUME NEW C, NEW items \in Seq(Items(C))
    PROVE  /\ Extract(items) \in Seq(Plain(C))
           /\ ShapeOfMessages(Extract(items)) = ShapeOfItems(items)
           /\ CallsIn(Extract(items)) = CallsOf(items)
<1> DEFINE Q == { s \in Seq(Items(C)) : ReadOf(C, Reading(s), s) }
<1>1. << >> \in Q
  <2>1. << >> \in Seq(Items(C)) /\ << >> \in Seq(Plain(C)) /\ << >> \in Seq(C) /\ << >> \o << >> = << >>
    OBVIOUS
  <2>2. Reading(<< >>) = Start
    <3>1. Said \in Items(C)
      BY ItemCases
    <3> QED BY <2>1, <3>1, ReadingAppend
  <2>3. Start \in [ messages : Seq(Plain(C)), pending : Seq(C) ] /\ Start.messages = << >> /\ Start.pending = << >>
    BY <2>1 DEF Start
  <2>4. ShapeOfMessages(<< >>) = << >> /\ ShapeOfItems(<< >>) = << >> /\ CallsIn(<< >>) = << >> /\ CallsOf(<< >>) = << >>
    BY ShapeLaws, ItemShapeLaws, InLaws, CallsLaws
  <2> QED BY <2>1, <2>2, <2>3, <2>4 DEF ReadOf
<1>2. ASSUME NEW s \in Q, NEW x \in Items(C) PROVE Append(s, x) \in Q
  <2>1. s \in Seq(Items(C)) /\ ReadOf(C, Reading(s), s) /\ Append(s, x) \in Seq(Items(C))
    OBVIOUS
  <2>2. Reading(Append(s, x)) = Take(Reading(s), x)
    BY <2>1, ReadingAppend
  <2>3. ReadOf(C, Take(Reading(s), x), Append(s, x))
    BY <2>1, Takes
  <2> QED BY <2>1, <2>2, <2>3
<1>3. Q = Seq(Items(C))
  <2>1. Q \in SUBSET Seq(Items(C))
    OBVIOUS
  <2> HIDE DEF Q
  <2> QED BY <1>1, <1>2, <2>1, AllSequences
<1>4. ReadOf(C, Reading(items), items)
  BY <1>3
<1>5. ReadOf(C, FlushPending(Reading(items)), items)
  BY <1>4, Flushes
<1>6. FlushPending(Reading(items)).messages \in Seq(Plain(C))
  BY <1>5 DEF ReadOf
<1> QED BY <1>4, <1>6, Flushes DEF Extract

------------------------------------------------------------------------------
(***************************************************************************)
(* Outputs among the messages.                                             *)
(***************************************************************************)
\* each output stands behind the message that made its call
Placed(ms) ==
    \A j \in DOMAIN ms : ms[j].role = "tool" =>
        \E i \in 1 .. (j - 1) :
            /\ ms[i].role = "assistant"
            /\ ms[j].calls[1] \in ToSet(ms[i].calls)
            /\ \A k \in (i + 1) .. (j - 1) : ms[k].role = "tool"

\* the last message that is no output makes these calls
Ends(ms, cs) ==
    \E i \in DOMAIN ms :
        /\ ms[i] = Assistant(cs)
        /\ \A k \in (i + 1) .. Len(ms) : ms[k].role = "tool"

\* no output is there twice
AnsweredOnce(ms) ==
    \A i, j \in DOMAIN ms :
        ms[i].role = "tool" /\ ms[j].role = "tool" /\ ms[i].calls[1].id = ms[j].calls[1].id => i = j

\* Calls that have their ids from the upstream are the same if the ids are.
LEMMA SameId ==
    ASSUME NEW c \in RealCall, NEW d \in RealCall, c.id = d.id
    PROVE  c = d
<1>1. c = [ id |-> c.id, from |-> c.from ] /\ d = [ id |-> d.id, from |-> d.from ]
  BY DEF RealCall, Call
<1>2. c.from = c.id[1] /\ d.from = d.id[1]
  BY DEF RealCall
<1> QED BY <1>1, <1>2

\* Where no output is, nothing can be wrong with one.
LEMMA PlainLaws ==
    ASSUME NEW C, NEW ms \in Seq(Plain(C))
    PROVE  ms \in Seq(Messages(C)) /\ ToolCalls(ms) = << >> /\ Placed(ms)
<1>1. Plain(C) \subseteq Messages(C)
  BY MessageCases
<1>2. \A s \in Seq(Plain(C)) : s \in Seq(Messages(C))
  BY <1>1, SeqMonotonic
<1> DEFINE Q == { s \in Seq(Plain(C)) : ToolCalls(s) = << >> }
<1>3. << >> \in Q
  BY ToolLaws
<1>4. ASSUME NEW s \in Q, NEW m \in Plain(C) PROVE Append(s, m) \in Q
  <2>1. s \in Seq(Plain(C)) /\ ToolCalls(s) = << >> /\ Append(s, m) \in Seq(Plain(C)) /\ Append(s, m) = s \o << m >>
    BY AppendIsConcat
  <2>2. m \in Messages(C) /\ m.role # "tool" /\ << m >> \in Seq(Messages(C))
    BY <1>1 DEF Plain
  <2>3. ToolCalls(<< m >>) = << >>
    BY <2>2, ToolLaws
  <2>4. ToolCalls(s \o << m >>) = ToolCalls(s) \o ToolCalls(<< m >>)
    BY <1>2, <2>1, <2>2, ToolLaws
  <2>5. << >> \o << >> = << >>
    OBVIOUS
  <2> QED BY <2>1, <2>3, <2>4, <2>5
<1>5. Q = Seq(Plain(C))
  <2>1. Q \in SUBSET Seq(Plain(C))
    OBVIOUS
  <2> HIDE DEF Q
  <2> QED BY <1>3, <1>4, <2>1, AllSequences
<1>6. Placed(ms)
  <2>1. \A j \in DOMAIN ms : ms[j].role # "tool"
    <3>1. \A j \in DOMAIN ms : ms[j] \in Plain(C)
      BY ElementOfSeq
    <3> QED BY <3>1 DEF Plain
  <2> QED BY <2>1 DEF Placed
<1> QED BY <1>2, <1>5, <1>6

\* Two chats in which the outputs are in their places, one after the other.
LEMMA PlacedConcat ==
    ASSUME NEW S, NEW s \in Seq(S), NEW t \in Seq(S), Placed(s), Placed(t)
    PROVE  Placed(s \o t)
<1> DEFINE u == s \o t
           m == Len(s)
           n == Len(t)
<1>1. /\ m \in Nat /\ n \in Nat /\ DOMAIN s = 1 .. m /\ DOMAIN t = 1 .. n /\ DOMAIN u = 1 .. m + n
      /\ \A i \in 1 .. m : u[i] = s[i]
      /\ \A i \in 1 .. n : u[m + i] = t[i]
  BY ConcatProperties
<1> HIDE DEF u, m, n
<1>2. SUFFICES ASSUME NEW j \in 1 .. m + n, u[j].role = "tool"
               PROVE  \E i \in 1 .. (j - 1) :
                        /\ u[i].role = "assistant"
                        /\ u[j].calls[1] \in ToSet(u[i].calls)
                        /\ \A k \in (i + 1) .. (j - 1) : u[k].role = "tool"
  BY <1>1 DEF Placed, u
<1>3. CASE j \in 1 .. m
  <2>1. s[j].role = "tool" /\ u[j] = s[j]
    BY <1>1, <1>2, <1>3
  <2>2. PICK i \in 1 .. (j - 1) : /\ s[i].role = "assistant"
                                  /\ s[j].calls[1] \in ToSet(s[i].calls)
                                  /\ \A k \in (i + 1) .. (j - 1) : s[k].role = "tool"
    BY <1>1, <1>3, <2>1 DEF Placed
  <2>3. i \in 1 .. m /\ \A k \in (i + 1) .. (j - 1) : k \in 1 .. m
    BY <1>1, <1>3
  <2>4. u[i] = s[i] /\ \A k \in (i + 1) .. (j - 1) : u[k] = s[k]
    BY <1>1, <2>3
  <2> QED BY <2>1, <2>2, <2>4
<1>4. CASE j \notin 1 .. m
  <2> DEFINE l == j - m
  <2>1. l \in 1 .. n /\ j = m + l
    BY <1>1, <1>4
  <2> HIDE DEF l
  <2>2. t[l].role = "tool" /\ u[j] = t[l]
    BY <1>1, <1>2, <2>1
  <2>3. PICK i \in 1 .. (l - 1) : /\ t[i].role = "assistant"
                                  /\ t[l].calls[1] \in ToSet(t[i].calls)
                                  /\ \A k \in (i + 1) .. (l - 1) : t[k].role = "tool"
    BY <1>1, <2>1, <2>2 DEF Placed
  <2>4. i \in 1 .. n /\ m + i \in 1 .. (j - 1)
    BY <1>1, <2>1
  <2>5. u[m + i] = t[i]
    BY <1>1, <2>4
  <2>6. ASSUME NEW k \in (m + i + 1) .. (j - 1) PROVE u[k].role = "tool"
    <3>1. k - m \in (i + 1) .. (l - 1) /\ k - m \in 1 .. n /\ k = m + (k - m)
      BY <1>1, <2>1, <2>4
    <3>2. u[m + (k - m)] = t[k - m]
      BY <1>1, <3>1
    <3> QED BY <2>3, <3>1, <3>2
  <2> QED BY <2>2, <2>3, <2>4, <2>5, <2>6
<1> QED BY <1>3, <1>4

\* Outputs stand well behind the message that made their calls.
LEMMA PlacedBehind ==
    ASSUME NEW C, NEW ms \in Seq(Messages(C)), Placed(ms), NEW cs, Ends(ms, cs),
           NEW d \in Seq(C), ToSet(d) \subseteq ToSet(cs)
    PROVE  Placed(ms \o Tools(d))
<1> DEFINE t == Tools(d)
           u == ms \o t
           m == Len(ms)
           n == Len(d)
<1>1. t \in Seq(Messages(C)) /\ Len(t) = n /\ \A i \in 1 .. n : t[i] = Tool(d[i])
  BY ToolsLaws
<1> HIDE DEF t
<1>2. \A i \in 1 .. n : t[i].role = "tool" /\ t[i].calls[1] = d[i]
  <2>1. \A c : Tool(c).role = "tool" /\ Tool(c).calls[1] = c
    BY DEF Tool
  <2> HIDE DEF n
  <2> QED BY <1>1, <2>1
<1>3. /\ m \in Nat /\ n \in Nat /\ DOMAIN ms = 1 .. m /\ DOMAIN u = 1 .. m + n
      /\ \A i \in 1 .. m : u[i] = ms[i]
      /\ \A i \in 1 .. n : u[m + i] = t[i]
  <2>1. m \in Nat /\ n \in Nat /\ DOMAIN ms = 1 .. m
    OBVIOUS
  <2>2. /\ u \in Seq(Messages(C)) /\ Len(u) = m + n
        /\ \A i \in 1 .. m + n : u[i] = IF i <= m THEN ms[i] ELSE t[i - m]
    <3>1. /\ ms \o t \in Seq(Messages(C)) /\ Len(ms \o t) = Len(ms) + Len(t)
          /\ \A i \in 1 .. Len(ms) + Len(t) : (ms \o t)[i] = IF i <= Len(ms) THEN ms[i] ELSE t[i - Len(ms)]
      <4>1. t \in Seq(Messages(C))
        BY <1>1
      <4> HIDE DEF u, m, n
      <4> QED BY <4>1, ConcatProperties
    <3>2. Len(t) = n
      BY <1>1
    <3> QED BY <3>1, <3>2 DEF u, m
  <2>3. DOMAIN u = 1 .. m + n
    BY <2>2
  <2> HIDE DEF u, m, n
  <2>4. \A i \in 1 .. m : u[i] = ms[i]
    BY <2>1, <2>2
  <2>5. ASSUME NEW i \in 1 .. n PROVE u[m + i] = t[i]
    <3>1. m + i \in 1 .. m + n /\ ~(m + i <= m) /\ (m + i) - m = i
      BY <2>1
    <3> QED BY <2>2, <3>1
  <2> QED BY <2>1, <2>3, <2>4, <2>5
<1>4. \A i \in 1 .. n : d[i] \in ToSet(cs)
  <2>1. ToSet(d) = { d[i] : i \in 1 .. n }
    BY Elements
  <2> QED BY <2>1
<1> HIDE DEF u, m, n
<1>5. PICK e \in 1 .. m : ms[e] = Assistant(cs) /\ \A k \in (e + 1) .. m : ms[k].role = "tool"
  BY <1>3 DEF Ends, m
<1>6. u[e].role = "assistant" /\ u[e].calls = cs
  BY <1>3, <1>5 DEF Assistant
<1>7. SUFFICES ASSUME NEW j \in 1 .. m + n, u[j].role = "tool"
               PROVE  \E i \in 1 .. (j - 1) :
                        /\ u[i].role = "assistant"
                        /\ u[j].calls[1] \in ToSet(u[i].calls)
                        /\ \A k \in (i + 1) .. (j - 1) : u[k].role = "tool"
  BY <1>3 DEF Placed, u, t
<1>8. CASE j \in 1 .. m
  <2>1. ms[j].role = "tool" /\ u[j] = ms[j]
    BY <1>3, <1>7, <1>8
  <2>2. PICK i \in 1 .. (j - 1) : /\ ms[i].role = "assistant"
                                  /\ ms[j].calls[1] \in ToSet(ms[i].calls)
                                  /\ \A k \in (i + 1) .. (j - 1) : ms[k].role = "tool"
    BY <1>3, <1>8, <2>1 DEF Placed
  <2>3. i \in 1 .. m /\ \A k \in (i + 1) .. (j - 1) : k \in 1 .. m
    BY <1>3, <1>8
  <2>4. u[i] = ms[i] /\ \A k \in (i + 1) .. (j - 1) : u[k] = ms[k]
    BY <1>3, <2>3
  <2> QED BY <2>1, <2>2, <2>4
<1>9. CASE j \notin 1 .. m
  <2>1. j - m \in 1 .. n /\ j = m + (j - m) /\ e \in 1 .. (j - 1)
    BY <1>3, <1>9
  <2>2. u[m + (j - m)].calls[1] = d[j - m]
    BY <1>2, <1>3, <2>1
  <2>3. u[j].calls[1] \in ToSet(u[e].calls)
    BY <1>4, <1>6, <2>1, <2>2
  <2>4. ASSUME NEW k \in (e + 1) .. (j - 1) PROVE u[k].role = "tool"
    <3>1. CASE k \in 1 .. m
      <4>1. k \in (e + 1) .. m
        BY <3>1
      <4> QED BY <1>3, <1>5, <3>1, <4>1
    <3>2. CASE k \notin 1 .. m
      <4>1. k - m \in 1 .. n /\ k = m + (k - m)
        BY <1>3, <3>2, <2>1
      <4>2. u[m + (k - m)].role = "tool"
        BY <1>2, <1>3, <4>1
      <4> QED BY <4>1, <4>2
    <3> QED BY <3>1, <3>2
  <2> QED BY <1>6, <2>1, <2>3, <2>4
<1> QED BY <1>8, <1>9

\* A message that makes calls is the last that is no output when it is added.
LEMMA EndsAppend ==
    ASSUME NEW C, NEW ms \in Seq(Messages(C)), NEW cs \in Seq(C)
    PROVE  Ends(Append(ms, Assistant(cs)), cs)
<1> DEFINE u == Append(ms, Assistant(cs))
           n == Len(ms) + 1
<1>1. Assistant(cs) \in Messages(C)
  BY MessageCases
<1>2. Len(u) = n /\ u[n] = Assistant(cs) /\ n \in Nat /\ DOMAIN u = 1 .. n /\ n \in 1 .. n
  BY <1>1, AppendProperties
<1> HIDE DEF u, n
<1>3. \A k \in (n + 1) .. Len(u) : FALSE
  BY <1>2
<1> QED BY <1>2, <1>3 DEF Ends, u

\* If no call is answered twice, no id is.
LEMMA OnceAnswered ==
    ASSUME NEW ms \in Seq(Messages(RealCall)), IsInjective(ToolCalls(ms))
    PROVE  AnsweredOnce(ms)
<1> DEFINE M == Messages(RealCall)
           Found(s) == \A j \in DOMAIN s : s[j].role = "tool" => s[j].calls[1] \in ToSet(ToolCalls(s))
           Q == { s \in Seq(M) : Found(s) /\ (IsInjective(ToolCalls(s)) => AnsweredOnce(s)) }
<1>1. << >> \in Q
  <2>1. << >> \in Seq(M) /\ DOMAIN << >> = {}
    OBVIOUS
  <2> QED BY <2>1 DEF AnsweredOnce
<1>2. ASSUME NEW s \in Q, NEW m \in M PROVE Append(s, m) \in Q
  <2> DEFINE t == Append(s, m)
             n == Len(s)
             h == ToolCalls(s)
             g == ToolCalls(<< m >>)
  <2>1. /\ s \in Seq(M) /\ t \in Seq(M) /\ t = s \o << m >> /\ << m >> \in Seq(M)
        /\ n \in Nat /\ DOMAIN s = 1 .. n /\ DOMAIN t = 1 .. n + 1
        /\ \A i \in 1 .. n : t[i] = s[i]
        /\ t[n + 1] = m
    BY AppendProperties, AppendIsConcat
  <2>2. Found(s) /\ (IsInjective(h) => AnsweredOnce(s))
    OBVIOUS
  <2>3. ToolCalls(s \o << m >>) = h \o g /\ h \in Seq(RealCall) /\ g \in Seq(RealCall)
    BY <2>1, ToolLaws
  <2>4. g = IF m.role = "tool" THEN m.calls ELSE << >>
    BY <2>1, ToolLaws
  <2>5. ToolCalls(t) = h \o g
    BY <2>1, <2>3
  <2> HIDE DEF Q, t, n, h, g
  <2>6. ToSet(h \o g) = ToSet(h) \cup ToSet(g)
    BY <2>3, ElementsOfConcat
  <2>7. m.role = "tool" => m.calls = << m.calls[1] >> /\ m.calls[1] \in RealCall
    BY DEF Messages
  <2>8. m.role = "tool" => ToSet(g) = { m.calls[1] }
    BY <2>4, <2>7, ElementsOfOne
  <2>9. ASSUME NEW j \in 1 .. n + 1, t[j].role = "tool" PROVE t[j].calls[1] \in ToSet(h \o g)
    <3>1. CASE j \in 1 .. n
      <4>1. t[j] = s[j]
        BY <2>1, <3>1
      <4>2. s[j].calls[1] \in ToSet(h)
        BY <2>1, <2>2, <2>9, <3>1, <4>1 DEF h
      <4> QED BY <2>6, <4>1, <4>2
    <3>2. CASE j = n + 1
      BY <2>1, <2>6, <2>8, <2>9, <3>2
    <3> QED BY <2>1, <3>1, <3>2
  <2>10. ASSUME IsInjective(h \o g) PROVE AnsweredOnce(t)
    <3>1. IsInjective(h) /\ ToSet(h) \cap ToSet(g) = {}
      BY <2>3, <2>10, InjectiveConcat
    <3>2. AnsweredOnce(s)
      BY <2>2, <3>1
    <3>3. ASSUME NEW i \in 1 .. n, s[i].role = "tool", m.role = "tool", s[i].calls[1].id = m.calls[1].id PROVE FALSE
      <4>1. s[i].calls[1] \in ToSet(h)
        BY <2>1, <2>2, <3>3 DEF h
      <4>2. ToSet(h) \subseteq RealCall
        BY <2>3, Elements
      <4>3. s[i].calls[1] = m.calls[1]
        BY <2>7, <3>3, <4>1, <4>2, SameId
      <4> QED BY <2>8, <3>1, <3>3, <4>1, <4>3
    <3>4. ASSUME NEW i \in 1 .. n + 1, NEW j \in 1 .. n + 1,
                 t[i].role = "tool", t[j].role = "tool", t[i].calls[1].id = t[j].calls[1].id
          PROVE  i = j
      <4>1. CASE i \in 1 .. n /\ j \in 1 .. n
        BY <2>1, <3>2, <3>4, <4>1 DEF AnsweredOnce
      <4>2. CASE i \in 1 .. n /\ j = n + 1
        BY <2>1, <3>3, <3>4, <4>2
      <4>3. CASE i = n + 1 /\ j \in 1 .. n
        BY <2>1, <3>3, <3>4, <4>3
      <4>4. i \in 1 .. n \/ i = n + 1
        BY <2>1
      <4>5. j \in 1 .. n \/ j = n + 1
        BY <2>1
      <4> QED BY <4>1, <4>2, <4>3, <4>4, <4>5
    <3> QED BY <2>1, <3>4 DEF AnsweredOnce
  <2>11. Found(t)
    BY <2>1, <2>5, <2>9
  <2> QED BY <2>1, <2>5, <2>10, <2>11 DEF Q, t
<1>3. Q = Seq(M)
  <2>1. Q \in SUBSET Seq(M)
    OBVIOUS
  <2> HIDE DEF Q
  <2> QED BY <1>1, <1>2, <2>1, AllSequences
<1> QED BY <1>3

\* Such a history is what validate_chat_tool_history asks for.
LEMMA PlacedIsValid ==
    ASSUME NEW ms \in Seq(Messages(RealCall)), Placed(ms), IsInjective(ToolCalls(ms))
    PROVE  ValidHistory(ms)
<1>1. AnsweredOnce(ms)
  BY OnceAnswered
<1>2. SUFFICES ASSUME NEW j \in DOMAIN ms, ms[j].role = "tool"
               PROVE  /\ \E i \in 1..(j - 1) : /\ ms[i].role = "assistant"
                                               /\ \E c \in ToSet(ms[i].calls) : c.id = ms[j].calls[1].id
                      /\ \A i \in 1..(j - 1) : ms[i].role = "tool" => ms[i].calls[1].id # ms[j].calls[1].id
  BY DEF ValidHistory
<1>3. PICK i \in 1 .. (j - 1) : ms[i].role = "assistant" /\ ms[j].calls[1] \in ToSet(ms[i].calls)
  BY <1>2 DEF Placed
<1>4. \A k \in 1 .. (j - 1) : k \in DOMAIN ms /\ k # j
  BY LenProperties
<1>5. \A k \in 1 .. (j - 1) : ms[k].role = "tool" => ms[k].calls[1].id # ms[j].calls[1].id
  BY <1>1, <1>2, <1>4 DEF AnsweredOnce
<1> QED BY <1>3, <1>5

(***************************************************************************)
(* The outputs of calls that are answered, behind the messages.            *)
(***************************************************************************)
\* those of the calls that are in A
Kept(C, A, calls) == Parts([ c \in C |-> IF c \in A THEN << c >> ELSE << >> ], calls)

KeptLaws(C, A) ==
    /\ Kept(C, A, << >>) = << >>
    /\ \A s \in Seq(C) : Kept(C, A, s) \in Seq(C)
    /\ \A x \in C : Kept(C, A, << x >>) = IF x \in A THEN << x >> ELSE << >>
    /\ \A s, t \in Seq(C) : Kept(C, A, s \o t) = Kept(C, A, s) \o Kept(C, A, t)

\* They are put together as the calls are.
LEMMA KeptParts ==
    ASSUME NEW C, NEW A
    PROVE  KeptLaws(C, A)
<1> DEFINE f == [ c \in C |-> IF c \in A THEN << c >> ELSE << >> ]
<1>1. f \in [ C -> Seq(C) ] /\ \A x \in C : f[x] = IF x \in A THEN << x >> ELSE << >>
  OBVIOUS
<1>2. \A s : Kept(C, A, s) = Parts(f, s)
  BY DEF Kept
<1> HIDE DEF f
<1>3. /\ Parts(f, << >>) = << >>
      /\ \A s \in Seq(C) : Parts(f, s) \in Seq(C)
      /\ \A x \in C : Parts(f, << x >>) = f[x]
      /\ \A s, t \in Seq(C) : Parts(f, s \o t) = Parts(f, s) \o Parts(f, t)
  <2> DEFINE S == C
             T == C
  <2>1. f \in [ S -> Seq(T) ]
    BY <1>1
  <2> HIDE DEF S, T
  <2>2. /\ Parts(f, << >>) = << >>
        /\ \A s \in Seq(S) : Parts(f, s) \in Seq(T)
        /\ \A x \in S : Parts(f, << x >>) = f[x]
        /\ \A s, t \in Seq(S) : Parts(f, s \o t) = Parts(f, s) \o Parts(f, t)
    BY <2>1, PartsLaws
  <2> QED BY <2>2 DEF S, T
<1> QED BY <1>1, <1>2, <1>3 DEF KeptLaws

\* They are those of the calls that are in A, and none is there twice.
LEMMA KeptElements ==
    ASSUME NEW C, NEW A, NEW cs \in Seq(C), IsInjective(cs)
    PROVE  ToSet(Kept(C, A, cs)) = ToSet(cs) \cap A /\ IsInjective(Kept(C, A, cs))
<1> DEFINE K(s) == Kept(C, A, s)
           Q == { s \in Seq(C) : ToSet(K(s)) = ToSet(s) \cap A /\ (IsInjective(s) => IsInjective(K(s))) }
<1>1. /\ K(<< >>) = << >>
      /\ \A s \in Seq(C) : K(s) \in Seq(C)
      /\ \A x \in C : K(<< x >>) = IF x \in A THEN << x >> ELSE << >>
      /\ \A s, t \in Seq(C) : K(s \o t) = K(s) \o K(t)
  <2>1. KeptLaws(C, A)
    BY KeptParts
  <2> QED BY <2>1 DEF KeptLaws
<1> HIDE DEF K
<1>2. << >> \in Q
  <2>1. << >> \in Seq(C) /\ ToSet(<< >>) = {} /\ IsInjective(<< >>)
    BY Elements DEF IsInjective
  <2> QED BY <1>1, <2>1
<1>3. ASSUME NEW s \in Q, NEW x \in C PROVE Append(s, x) \in Q
  <2>1. /\ s \in Seq(C) /\ ToSet(K(s)) = ToSet(s) \cap A /\ (IsInjective(s) => IsInjective(K(s)))
        /\ Append(s, x) \in Seq(C) /\ << x >> \in Seq(C) /\ Append(s, x) = s \o << x >>
    BY AppendIsConcat
  <2>2. K(s \o << x >>) = K(s) \o K(<< x >>) /\ K(<< x >>) = IF x \in A THEN << x >> ELSE << >>
    BY <1>1, <2>1
  <2>3. K(s) \in Seq(C) /\ K(<< x >>) \in Seq(C)
    BY <1>1, <2>1
  <2> HIDE DEF Q
  <2>4. ToSet(<< x >>) = { x } /\ IsInjective(<< x >>)
    BY ElementsOfOne
  <2>5. ToSet(K(<< x >>)) = { x } \cap A /\ IsInjective(K(<< x >>))
    <3>1. ToSet(<< >>) = {} /\ IsInjective(<< >>)
      BY <2>1, Elements DEF IsInjective
    <3> QED BY <2>2, <2>4, <3>1
  <2>6. ToSet(s \o << x >>) = ToSet(s) \cup { x } /\ ToSet(K(s) \o K(<< x >>)) = ToSet(K(s)) \cup ToSet(K(<< x >>))
    <3>1. ToSet(s \o << x >>) = ToSet(s) \cup ToSet(<< x >>)
      BY <2>1, ElementsOfConcat, ZenonT(60)
    <3> DEFINE p == K(s)
               q == K(<< x >>)
    <3>2. p \in Seq(C) /\ q \in Seq(C)
      BY <2>3
    <3> HIDE DEF p, q
    <3>3. ToSet(p \o q) = ToSet(p) \cup ToSet(q)
      BY <3>2, ElementsOfConcat
    <3> QED BY <2>4, <3>1, <3>3 DEF p, q
  <2>7. ASSUME IsInjective(s \o << x >>) PROVE IsInjective(K(s) \o K(<< x >>))
    <3>1. IsInjective(s) /\ ToSet(s) \cap { x } = {}
      BY <2>1, <2>4, <2>7, InjectiveConcat
    <3>2. IsInjective(K(s)) /\ ToSet(K(s)) \cap ToSet(K(<< x >>)) = {}
      BY <2>1, <2>5, <3>1
    <3> QED BY <2>3, <2>5, <3>2, InjectiveConcat
  <2>8. ToSet(K(s \o << x >>)) = ToSet(s \o << x >>) \cap A
    BY <2>1, <2>2, <2>5, <2>6
  <2> QED BY <2>1, <2>2, <2>7, <2>8 DEF Q
<1>4. Q = Seq(C)
  <2>1. Q \in SUBSET Seq(C)
    OBVIOUS
  <2> HIDE DEF Q
  <2> QED BY <1>2, <1>3, <2>1, AllSequences
<1> QED BY <1>4 DEF K

\* They are some of the calls, whatever calls these are.
LEMMA KeptSubset ==
    ASSUME NEW C, NEW A, NEW cs \in Seq(C)
    PROVE  ToSet(Kept(C, A, cs)) \subseteq ToSet(cs)
<1> DEFINE K(s) == Kept(C, A, s)
           Q == { s \in Seq(C) : ToSet(K(s)) \subseteq ToSet(s) }
<1>1. /\ K(<< >>) = << >>
      /\ \A s \in Seq(C) : K(s) \in Seq(C)
      /\ \A x \in C : K(<< x >>) = IF x \in A THEN << x >> ELSE << >>
      /\ \A s, t \in Seq(C) : K(s \o t) = K(s) \o K(t)
  <2>1. KeptLaws(C, A)
    BY KeptParts
  <2> QED BY <2>1 DEF KeptLaws
<1> HIDE DEF K
<1>2. << >> \in Q
  BY <1>1
<1>3. ASSUME NEW s \in Q, NEW x \in C PROVE Append(s, x) \in Q
  <2>1. /\ s \in Seq(C) /\ ToSet(K(s)) \subseteq ToSet(s)
        /\ Append(s, x) \in Seq(C) /\ << x >> \in Seq(C) /\ Append(s, x) = s \o << x >>
    BY AppendIsConcat
  <2> DEFINE p == K(s)
             q == K(<< x >>)
  <2>2. p \in Seq(C) /\ q \in Seq(C) /\ K(s \o << x >>) = p \o q /\ q = IF x \in A THEN << x >> ELSE << >>
    BY <1>1, <2>1
  <2> HIDE DEF p, q, Q
  <2>3. ToSet(q) \subseteq ToSet(<< x >>)
    <3>1. ToSet(<< >>) = {}
      BY <2>1, Elements
    <3> QED BY <2>2, <3>1
  <2>4. ToSet(p \o q) = ToSet(p) \cup ToSet(q)
    BY <2>2, ElementsOfConcat, ZenonT(60)
  <2>5. ToSet(s \o << x >>) = ToSet(s) \cup ToSet(<< x >>)
    BY <2>1, ElementsOfConcat, ZenonT(60)
  <2> QED BY <2>1, <2>2, <2>3, <2>4, <2>5 DEF Q, p
<1>4. Q = Seq(C)
  <2>1. Q \in SUBSET Seq(C)
    OBVIOUS
  <2> HIDE DEF Q
  <2> QED BY <1>2, <1>3, <2>1, AllSequences
<1> QED BY <1>4 DEF K

\* The outputs for a call.
AnsweringPart(C, call) == [ x \in Messages(C) |-> IF x.calls[1].id = call.id THEN << x >> ELSE << >> ]

AnsweringLaws(C, call) ==
    /\ Answering(<< >>, call) = << >>
    /\ \A s \in Seq(Messages(C)) : Answering(s, call) \in Seq(Messages(C))
    /\ \A x \in Messages(C) : Answering(<< x >>, call) = IF x.calls[1].id = call.id THEN << x >> ELSE << >>
    /\ \A s, t \in Seq(Messages(C)) : Answering(s \o t, call) = Answering(s, call) \o Answering(t, call)

\* They are put together as the others are.
LEMMA AnsweringParts ==
    ASSUME NEW C, NEW call
    PROVE  AnsweringLaws(C, call)
<1> DEFINE f == AnsweringPart(C, call)
           B(x) == IF x.calls[1].id = call.id THEN << x >> ELSE << >>
<1>1. f \in [ Messages(C) -> Seq(Messages(C)) ] /\ \A x \in Messages(C) : f[x] = B(x)
  BY DEF AnsweringPart
<1> HIDE DEF f, B
<1>2. /\ Parts(f, << >>) = << >>
      /\ \A s \in Seq(Messages(C)) : Parts(f, s) \in Seq(Messages(C))
      /\ \A x \in Messages(C) : Parts(f, << x >>) = f[x]
      /\ \A s, t \in Seq(Messages(C)) : Parts(f, s \o t) = Parts(f, s) \o Parts(f, t)
  <2> DEFINE S == Messages(C)
             T == Messages(C)
  <2>1. f \in [ S -> Seq(T) ]
    BY <1>1
  <2> HIDE DEF S, T
  <2>2. /\ Parts(f, << >>) = << >>
        /\ \A s \in Seq(S) : Parts(f, s) \in Seq(T)
        /\ \A x \in S : Parts(f, << x >>) = f[x]
        /\ \A s, t \in Seq(S) : Parts(f, s \o t) = Parts(f, s) \o Parts(f, t)
    BY <2>1, PartsLaws
  <2> QED BY <2>2 DEF S, T
<1>3. ASSUME NEW s \in Seq(Messages(C)) PROVE Answering(s, call) = Parts(f, s)
  <2>1. \A n \in DOMAIN s : f[s[n]] = B(s[n])
    BY <1>1, ElementOfSeq
  <2>2. Each(f, s) = [ n \in DOMAIN s |-> B(s[n]) ]
    BY <2>1, Zenon DEF Each
  <2> QED BY <2>2, Zenon DEF Answering, Parts, B
<1>4. /\ << >> \in Seq(Messages(C)) /\ \A x \in Messages(C) : << x >> \in Seq(Messages(C))
      /\ \A s, t \in Seq(Messages(C)) : s \o t \in Seq(Messages(C))
  OBVIOUS
<1>5. Answering(<< >>, call) = << >>
  BY <1>2, <1>3, <1>4
<1>6. \A s \in Seq(Messages(C)) : Answering(s, call) \in Seq(Messages(C))
  BY <1>2, <1>3, Zenon
<1>7. \A x \in Messages(C) : Answering(<< x >>, call) = B(x)
  BY <1>1, <1>2, <1>3, <1>4, Zenon
<1>8. \A s, t \in Seq(Messages(C)) : Answering(s \o t, call) = Answering(s, call) \o Answering(t, call)
  BY <1>2, <1>3, <1>4, Zenon
<1> QED BY <1>5, <1>6, <1>7, <1>8, Zenon DEF B, AnsweringLaws

\* The outputs for some calls.
BehindPart(C, outs) == [ x \in C |-> Answering(outs, x) ]

BehindLaws(C, outs) ==
    /\ Behind(outs, << >>) = << >>
    /\ \A s \in Seq(C) : Behind(outs, s) \in Seq(Messages(C))
    /\ \A x \in C : Behind(outs, << x >>) = Answering(outs, x)
    /\ \A s, t \in Seq(C) : Behind(outs, s \o t) = Behind(outs, s) \o Behind(outs, t)

\* They are put together as the others are.
LEMMA BehindParts ==
    ASSUME NEW C, NEW outs \in Seq(Messages(C))
    PROVE  BehindLaws(C, outs)
<1> DEFINE f == BehindPart(C, outs)
           B(x) == Answering(outs, x)
<1>1. f \in [ C -> Seq(Messages(C)) ] /\ \A x \in C : f[x] = B(x)
  <2>1. \A x \in C : Answering(outs, x) \in Seq(Messages(C))
    <3>1. \A x \in C : AnsweringLaws(C, x)
      BY AnsweringParts
    <3> QED BY <3>1 DEF AnsweringLaws
  <2> QED BY <2>1 DEF BehindPart
<1> HIDE DEF f, B
<1>2. /\ Parts(f, << >>) = << >>
      /\ \A s \in Seq(C) : Parts(f, s) \in Seq(Messages(C))
      /\ \A x \in C : Parts(f, << x >>) = f[x]
      /\ \A s, t \in Seq(C) : Parts(f, s \o t) = Parts(f, s) \o Parts(f, t)
  <2> DEFINE S == C
             T == Messages(C)
  <2>1. f \in [ S -> Seq(T) ]
    BY <1>1
  <2> HIDE DEF S, T
  <2>2. /\ Parts(f, << >>) = << >>
        /\ \A s \in Seq(S) : Parts(f, s) \in Seq(T)
        /\ \A x \in S : Parts(f, << x >>) = f[x]
        /\ \A s, t \in Seq(S) : Parts(f, s \o t) = Parts(f, s) \o Parts(f, t)
    BY <2>1, PartsLaws
  <2> QED BY <2>2 DEF S, T
<1>3. ASSUME NEW s \in Seq(C) PROVE Behind(outs, s) = Parts(f, s)
  <2>1. \A n \in DOMAIN s : f[s[n]] = B(s[n])
    BY <1>1, ElementOfSeq
  <2>2. Each(f, s) = [ n \in DOMAIN s |-> B(s[n]) ]
    BY <2>1, Zenon DEF Each
  <2> QED BY <2>2, Zenon DEF Behind, Parts, B
<1>4. /\ << >> \in Seq(C) /\ \A x \in C : << x >> \in Seq(C)
      /\ \A s, t \in Seq(C) : s \o t \in Seq(C)
  OBVIOUS
<1>5. Behind(outs, << >>) = << >>
  BY <1>2, <1>3, <1>4
<1>6. \A s \in Seq(C) : Behind(outs, s) \in Seq(Messages(C))
  BY <1>2, <1>3, Zenon
<1>7. \A x \in C : Behind(outs, << x >>) = B(x)
  BY <1>1, <1>2, <1>3, <1>4, Zenon
<1>8. \A s, t \in Seq(C) : Behind(outs, s \o t) = Behind(outs, s) \o Behind(outs, t)
  BY <1>2, <1>3, <1>4, Zenon
<1> QED BY <1>5, <1>6, <1>7, <1>8, Zenon DEF B, BehindLaws

\* The messages with the outputs.
ReplayPart(C, outs) == [ x \in Messages(C) |-> IF x.role = "assistant" THEN << x >> \o Behind(outs, x.calls) ELSE << x >> ]

ReplayLaws(C, outs) ==
    /\ Replay(<< >>, outs) = << >>
    /\ \A s \in Seq(Messages(C)) : Replay(s, outs) \in Seq(Messages(C))
    /\ \A x \in Messages(C) : Replay(<< x >>, outs) = IF x.role = "assistant" THEN << x >> \o Behind(outs, x.calls) ELSE << x >>
    /\ \A s, t \in Seq(Messages(C)) : Replay(s \o t, outs) = Replay(s, outs) \o Replay(t, outs)

\* They are put together as the others are.
LEMMA ReplayParts ==
    ASSUME NEW C, NEW outs \in Seq(Messages(C))
    PROVE  ReplayLaws(C, outs)
<1> DEFINE f == ReplayPart(C, outs)
           B(x) == IF x.role = "assistant" THEN << x >> \o Behind(outs, x.calls) ELSE << x >>
<1>1. f \in [ Messages(C) -> Seq(Messages(C)) ] /\ \A x \in Messages(C) : f[x] = B(x)
  <2>1. ASSUME NEW x \in Messages(C) PROVE B(x) \in Seq(Messages(C))
    <3>1. Behind(outs, x.calls) \in Seq(Messages(C))
      <4>1. x.calls \in Seq(C)
        BY DEF Messages
      <4>2. BehindLaws(C, outs)
        BY BehindParts
      <4> QED BY <4>1, <4>2 DEF BehindLaws
    <3>2. << x >> \in Seq(Messages(C))
      OBVIOUS
    <3> QED BY <3>1, <3>2, ConcatProperties
  <2>2. \A x \in Messages(C) : f[x] = B(x)
    BY DEF ReplayPart
  <2>3. f = [ x \in Messages(C) |-> f[x] ]
    BY DEF ReplayPart
  <2> HIDE DEF f, B
  <2> QED BY <2>1, <2>2, <2>3
<1> HIDE DEF f, B
<1>2. /\ Parts(f, << >>) = << >>
      /\ \A s \in Seq(Messages(C)) : Parts(f, s) \in Seq(Messages(C))
      /\ \A x \in Messages(C) : Parts(f, << x >>) = f[x]
      /\ \A s, t \in Seq(Messages(C)) : Parts(f, s \o t) = Parts(f, s) \o Parts(f, t)
  <2> DEFINE S == Messages(C)
             T == Messages(C)
  <2>1. f \in [ S -> Seq(T) ]
    BY <1>1
  <2> HIDE DEF S, T
  <2>2. /\ Parts(f, << >>) = << >>
        /\ \A s \in Seq(S) : Parts(f, s) \in Seq(T)
        /\ \A x \in S : Parts(f, << x >>) = f[x]
        /\ \A s, t \in Seq(S) : Parts(f, s \o t) = Parts(f, s) \o Parts(f, t)
    BY <2>1, PartsLaws
  <2> QED BY <2>2 DEF S, T
<1>3. ASSUME NEW s \in Seq(Messages(C)) PROVE Replay(s, outs) = Parts(f, s)
  <2>1. \A n \in DOMAIN s : f[s[n]] = B(s[n])
    BY <1>1, ElementOfSeq
  <2>2. Each(f, s) = [ n \in DOMAIN s |-> B(s[n]) ]
    BY <2>1, Zenon DEF Each
  <2> QED BY <2>2, Zenon DEF Replay, Parts, B
<1>4. /\ << >> \in Seq(Messages(C)) /\ \A x \in Messages(C) : << x >> \in Seq(Messages(C))
      /\ \A s, t \in Seq(Messages(C)) : s \o t \in Seq(Messages(C))
  OBVIOUS
<1>5. Replay(<< >>, outs) = << >>
  BY <1>2, <1>3, <1>4
<1>6. \A s \in Seq(Messages(C)) : Replay(s, outs) \in Seq(Messages(C))
  BY <1>2, <1>3, Zenon
<1>7. \A x \in Messages(C) : Replay(<< x >>, outs) = B(x)
  BY <1>1, <1>2, <1>3, <1>4, Zenon
<1>8. \A s, t \in Seq(Messages(C)) : Replay(s \o t, outs) = Replay(s, outs) \o Replay(t, outs)
  BY <1>2, <1>3, <1>4, ZenonT(90)
<1> QED BY <1>5, <1>6, <1>7, <1>8, Zenon DEF B, ReplayLaws

\* If no call is answered twice, one output at most is for a call.
LEMMA AnsweringOnce ==
    ASSUME NEW a \in Seq(RealCall), IsInjective(a), NEW c \in RealCall
    PROVE  Answering(Tools(a), c) = IF c \in ToSet(a) THEN << Tool(c) >> ELSE << >>
<1> DEFINE X(s) == Answering(Tools(s), c)
           Q == { s \in Seq(RealCall) : IsInjective(s) => X(s) = IF c \in ToSet(s) THEN << Tool(c) >> ELSE << >> }
<1> DEFINE M == Messages(RealCall)
<1>0. /\ Tools(<< >>) = << >>
      /\ \A s \in Seq(RealCall) : Tools(s) \in Seq(M)
      /\ \A s \in Seq(RealCall) : \A d \in RealCall : Tools(Append(s, d)) = Tools(s) \o << Tool(d) >>
  BY ToolsLaws
<1>a. \A d \in RealCall : Tool(d) \in M
  BY MessageCases
<1>b. /\ Answering(<< >>, c) = << >>
      /\ \A s, t \in Seq(M) : Answering(s \o t, c) = Answering(s, c) \o Answering(t, c)
      /\ \A m \in M : Answering(<< m >>, c) = IF m.calls[1].id = c.id THEN << m >> ELSE << >>
  <2>1. AnsweringLaws(RealCall, c)
    BY AnsweringParts
  <2> QED BY <2>1 DEF AnsweringLaws
<1> HIDE DEF M
<1>1. << >> \in Q
  <2>1. << >> \in Seq(RealCall) /\ ToSet(<< >>) = {}
    BY Elements
  <2> QED BY <1>0, <1>b, <2>1
<1>2. ASSUME NEW s \in Q, NEW d \in RealCall PROVE Append(s, d) \in Q
  <2>1. /\ s \in Seq(RealCall) /\ (IsInjective(s) => X(s) = IF c \in ToSet(s) THEN << Tool(c) >> ELSE << >>)
        /\ Append(s, d) \in Seq(RealCall) /\ << d >> \in Seq(RealCall) /\ Append(s, d) = s \o << d >>
    BY AppendIsConcat
  <2>2. /\ Tools(Append(s, d)) = Tools(s) \o << Tool(d) >> /\ Tools(s) \in Seq(M)
        /\ Tool(d) \in M /\ << Tool(d) >> \in Seq(M)
    <3>1. Tools(Append(s, d)) = Tools(s) \o << Tool(d) >> /\ Tools(s) \in Seq(M)
      BY <1>0, <2>1
    <3>2. Tool(d) \in M
      BY <1>a
    <3>3. << Tool(d) >> \in Seq(M)
      BY <3>2
    <3> QED BY <3>1, <3>2, <3>3
  <2> HIDE DEF Q
  <2>3. Answering(Tools(s) \o << Tool(d) >>, c) = Answering(Tools(s), c) \o Answering(<< Tool(d) >>, c)
    BY <1>b, <2>2
  <2>4. Answering(<< Tool(d) >>, c) = IF d.id = c.id THEN << Tool(d) >> ELSE << >>
    <3>1. Tool(d).calls[1] = d
      BY DEF Tool
    <3> QED BY <1>b, <2>2, <3>1
  <2>5. d.id = c.id <=> d = c
    BY SameId
  <2>6. ToSet(s \o << d >>) = ToSet(s) \cup { d } /\ ToSet(<< d >>) = { d }
    <3>1. ToSet(s \o << d >>) = ToSet(s) \cup ToSet(<< d >>)
      BY <2>1, ElementsOfConcat, ZenonT(60)
    <3> QED BY <3>1, ElementsOfOne
  <2>7. ASSUME IsInjective(s \o << d >>)
        PROVE  X(Append(s, d)) = IF c \in ToSet(s \o << d >>) THEN << Tool(c) >> ELSE << >>
    <3>1. IsInjective(s) /\ ToSet(s) \cap { d } = {}
      BY <2>1, <2>6, <2>7, InjectiveConcat
    <3>2. << Tool(c) >> \o << >> = << Tool(c) >> /\ << >> \o << Tool(c) >> = << Tool(c) >> /\ << >> \o << >> = << >>
      OBVIOUS
    <3>3. X(Append(s, d)) = X(s) \o (IF d = c THEN << Tool(c) >> ELSE << >>)
      BY <2>2, <2>3, <2>4, <2>5
    <3>4. X(s) = IF c \in ToSet(s) THEN << Tool(c) >> ELSE << >>
      BY <2>1, <3>1
    <3> HIDE DEF X
    <3>5. CASE d = c
      <4>1. c \notin ToSet(s) /\ c \in ToSet(s \o << d >>)
        BY <2>6, <3>1, <3>5
      <4> QED BY <3>2, <3>3, <3>4, <3>5, <4>1
    <3>6. CASE d # c
      <4>1. c \in ToSet(s) <=> c \in ToSet(s \o << d >>)
        BY <2>6, <3>6
      <4> QED BY <3>2, <3>3, <3>4, <3>6, <4>1
    <3> QED BY <3>5, <3>6
  <2> QED BY <2>1, <2>7 DEF Q
<1>3. Q = Seq(RealCall)
  <2>1. Q \in SUBSET Seq(RealCall)
    OBVIOUS
  <2> HIDE DEF Q
  <2> QED BY <1>1, <1>2, <2>1, AllSequences
<1> QED BY <1>3

\* Behind a message stand the outputs of its calls that are answered.
LEMMA BehindOnce ==
    ASSUME NEW a \in Seq(RealCall), IsInjective(a), NEW cs \in Seq(RealCall)
    PROVE  Behind(Tools(a), cs) = Tools(Kept(RealCall, ToSet(a), cs))
<1> DEFINE K(s) == Kept(RealCall, ToSet(a), s)
           Q == { s \in Seq(RealCall) : Behind(Tools(a), s) = Tools(K(s)) }
<1>1. Tools(a) \in Seq(Messages(RealCall)) /\ Tools(<< >>) = << >>
  BY ToolsLaws
<1>6. /\ Behind(Tools(a), << >>) = << >>
      /\ \A x \in RealCall : Behind(Tools(a), << x >>) = Answering(Tools(a), x)
      /\ \A s, t \in Seq(RealCall) : Behind(Tools(a), s \o t) = Behind(Tools(a), s) \o Behind(Tools(a), t)
  <2>1. BehindLaws(RealCall, Tools(a))
    BY <1>1, BehindParts
  <2> QED BY <2>1 DEF BehindLaws
<1>5. /\ K(<< >>) = << >>
      /\ \A s \in Seq(RealCall) : K(s) \in Seq(RealCall)
      /\ \A x \in RealCall : K(<< x >>) = IF x \in ToSet(a) THEN << x >> ELSE << >>
      /\ \A s, t \in Seq(RealCall) : K(s \o t) = K(s) \o K(t)
  <2>1. KeptLaws(RealCall, ToSet(a))
    BY KeptParts
  <2> QED BY <2>1 DEF KeptLaws
<1> HIDE DEF K
<1>2. << >> \in Q
  <2>1. Behind(Tools(a), << >>) = << >>
    BY <1>6
  <2>2. << >> \in Seq(RealCall)
    OBVIOUS
  <2> QED BY <1>1, <1>5, <2>1, <2>2
<1>3. ASSUME NEW s \in Q, NEW c \in RealCall PROVE Append(s, c) \in Q
  <2>1. /\ s \in Seq(RealCall) /\ Behind(Tools(a), s) = Tools(K(s))
        /\ Append(s, c) \in Seq(RealCall) /\ << c >> \in Seq(RealCall) /\ Append(s, c) = s \o << c >>
    BY AppendIsConcat
  <2> HIDE DEF Q
  <2>2. /\ Behind(Tools(a), s \o << c >>) = Behind(Tools(a), s) \o Behind(Tools(a), << c >>)
        /\ Behind(Tools(a), << c >>) = Answering(Tools(a), c)
    BY <1>6, <2>1
  <2>3. Answering(Tools(a), c) = IF c \in ToSet(a) THEN << Tool(c) >> ELSE << >>
    BY AnsweringOnce
  <2>4. K(s \o << c >>) = K(s) \o K(<< c >>) /\ K(<< c >>) = IF c \in ToSet(a) THEN << c >> ELSE << >>
    BY <1>5, <2>1
  <2>5. K(s) \in Seq(RealCall)
    BY <1>5, <2>1
  <2>6. /\ Tools(Append(K(s), c)) = Tools(K(s)) \o << Tool(c) >> /\ Append(K(s), c) = K(s) \o << c >>
        /\ Tools(K(s)) \o << >> = Tools(K(s)) /\ K(s) \o << >> = K(s)
    <3>1. Tools(Append(K(s), c)) = Tools(K(s)) \o << Tool(c) >> /\ Tools(K(s)) \in Seq(Messages(RealCall))
      BY <2>5, ToolsLaws
    <3>2. Append(K(s), c) = K(s) \o << c >>
      BY <2>5, AppendIsConcat
    <3> QED BY <2>5, <3>1, <3>2, ConcatEmptySeq
  <2>7. Behind(Tools(a), s \o << c >>) = Tools(K(s \o << c >>))
    <3>1. CASE c \in ToSet(a)
      BY <2>1, <2>2, <2>3, <2>4, <2>6, <3>1
    <3>2. CASE c \notin ToSet(a)
      BY <2>1, <2>2, <2>3, <2>4, <2>6, <3>2
    <3> QED BY <3>1, <3>2
  <2> QED BY <2>1, <2>7 DEF Q
<1>4. Q = Seq(RealCall)
  <2>1. Q \in SUBSET Seq(RealCall)
    OBVIOUS
  <2> HIDE DEF Q
  <2> QED BY <1>2, <1>3, <2>1, AllSequences
<1> QED BY <1>4 DEF K

\* r is ms with the outputs of the calls in A
Replayed(A, ms, r) ==
    /\ r \in Seq(Messages(RealCall)) /\ Placed(r)
    /\ ShapeOfMessages(r) = ShapeOfMessages(ms)
    /\ ToolCalls(r) = Kept(RealCall, A, CallsIn(ms))

\* One message, replayed.
LEMMA ReplayOne ==
    ASSUME NEW a \in Seq(RealCall), IsInjective(a), NEW m \in Plain(RealCall)
    PROVE  Replayed(ToSet(a), << m >>, Replay(<< m >>, Tools(a)))
<1> DEFINE A == ToSet(a)
           outs == Tools(a)
           M == Messages(RealCall)
<1>1. outs \in Seq(M) /\ m \in M /\ << m >> \in Seq(M) /\ << m >> \in Seq(Plain(RealCall)) /\ << >> \in Seq(RealCall)
  <2>1. outs \in Seq(M)
    BY ToolsLaws
  <2>2. m \in M
    BY MessageCases
  <2> QED BY <2>1, <2>2
<1>2. Replay(<< m >>, outs) = IF m.role = "assistant" THEN << m >> \o Behind(outs, m.calls) ELSE << m >>
  <2>1. ReplayLaws(RealCall, outs)
    BY <1>1, ReplayParts
  <2> QED BY <1>1, <2>1 DEF ReplayLaws
<1>3. Placed(<< m >>) /\ ToolCalls(<< m >>) = << >>
  BY <1>1, PlainLaws
<1>4. CASE m = User
  <2>1. Replay(<< m >>, outs) = << m >>
    BY <1>2, <1>4 DEF User
  <2>2. CallsIn(<< m >>) = << >>
    BY <1>4, MessageParts
  <2>3. Kept(RealCall, A, << >>) = << >>
    <3>1. KeptLaws(RealCall, A)
      BY KeptParts
    <3> QED BY <3>1 DEF KeptLaws
  <2> QED BY <1>1, <1>3, <2>1, <2>2, <2>3 DEF Replayed
<1>5. CASE \E cs \in Seq(RealCall) : m = Assistant(cs)
  <2>1. PICK cs \in Seq(RealCall) : m = Assistant(cs)
    BY <1>5
  <2> DEFINE d == Kept(RealCall, A, cs)
             t == Tools(d)
  <2>2. m.role = "assistant" /\ m.calls = cs
    BY <2>1 DEF Assistant
  <2>3. d \in Seq(RealCall) /\ ToSet(d) \subseteq ToSet(cs)
    <3>1. KeptLaws(RealCall, A)
      BY KeptParts
    <3>2. ToSet(d) \subseteq ToSet(cs)
      BY KeptSubset
    <3> QED BY <3>1, <3>2 DEF KeptLaws
  <2>4. Behind(outs, cs) = t
    BY BehindOnce
  <2> HIDE DEF d
  <2>5. t \in Seq(M) /\ ToolCalls(t) = d /\ ShapeOfMessages(t) = << >>
    BY <2>3, ToolsLaws
  <2>6. Ends(<< m >>, cs)
    <3>1. Append(<< >>, Assistant(cs)) = << m >> /\ << >> \in Seq(M)
      BY <2>1
    <3>2. Ends(Append(<< >>, Assistant(cs)), cs)
      BY <3>1, EndsAppend
    <3> QED BY <3>1, <3>2
  <2>7. Placed(<< m >> \o t)
    BY <1>1, <1>3, <2>3, <2>6, PlacedBehind
  <2> HIDE DEF t, outs, A
  <2>8. Replay(<< m >>, outs) = << m >> \o t
    BY <1>2, <2>2, <2>4
  <2>9. << m >> \o t \in Seq(M)
    BY <1>1, <2>5, ConcatProperties
  <2>10. ShapeOfMessages(<< m >> \o t) = ShapeOfMessages(<< m >>)
    <3>1. ShapeOfMessages(<< m >> \o t) = ShapeOfMessages(<< m >>) \o ShapeOfMessages(t)
      BY <1>1, <2>5, ShapeLaws
    <3>2. ShapeOfMessages(<< m >>) \in Seq(RealCall \cup { NoCall })
      BY <1>1, ShapeLaws
    <3> QED BY <2>5, <3>1, <3>2, ConcatEmptySeq
  <2>11. ToolCalls(<< m >> \o t) = d
    <3>1. ToolCalls(<< m >> \o t) = ToolCalls(<< m >>) \o ToolCalls(t)
      BY <1>1, <2>5, ToolLaws
    <3>2. << >> \o d = d
      BY <2>3, ConcatEmptySeq
    <3> QED BY <1>3, <2>5, <3>1, <3>2
  <2>12. CallsIn(<< m >>) = cs
    BY <2>1, MessageParts
  <2> QED BY <2>7, <2>8, <2>9, <2>10, <2>11, <2>12 DEF Replayed, d, A, outs
<1> QED BY <1>4, <1>5, MessageCases

(***************************************************************************)
(* A chat without outputs, replayed with the outputs of a: each stands     *)
(* behind the message that makes its call.                                 *)
(***************************************************************************)
LEMMA ReplayTells ==
    ASSUME NEW a \in Seq(RealCall), IsInjective(a), NEW ms \in Seq(Plain(RealCall))
    PROVE  Replayed(ToSet(a), ms, Replay(ms, Tools(a)))
<1> DEFINE A == ToSet(a)
           outs == Tools(a)
           M == Messages(RealCall)
           P == Plain(RealCall)
           R(x) == Replay(x, outs)
           K(x) == Kept(RealCall, A, x)
           Q == { x \in Seq(P) : Replayed(A, x, R(x)) }
<1>1. outs \in Seq(M)
  BY ToolsLaws
<1>2. R(<< >>) = << >> /\ \A x, y \in Seq(M) : R(x \o y) = R(x) \o R(y)
  <2>1. ReplayLaws(RealCall, outs)
    BY <1>1, ReplayParts
  <2> QED BY <2>1 DEF ReplayLaws
<1>3. K(<< >>) = << >> /\ \A x, y \in Seq(RealCall) : K(x \o y) = K(x) \o K(y)
  <2>1. KeptLaws(RealCall, A)
    BY KeptParts
  <2> QED BY <2>1 DEF KeptLaws
<1>4. \A x \in Seq(P) : x \in Seq(M)
  BY PlainLaws
<1>5. \A m \in P : Replayed(A, << m >>, R(<< m >>))
  BY ReplayOne
<1> HIDE DEF R, K, A, outs, M
<1>6. << >> \in Q
  <2>1. << >> \in Seq(P) /\ << >> \in Seq(M)
    OBVIOUS
  <2>2. ToolCalls(<< >>) = << >> /\ CallsIn(<< >>) = << >>
    BY ToolLaws, InLaws
  <2>3. Placed(<< >>)
    BY <2>1, PlainLaws
  <2> QED BY <1>2, <1>3, <2>1, <2>2, <2>3 DEF Replayed, K, M
<1>7. ASSUME NEW x \in Q, NEW m \in P PROVE Append(x, m) \in Q
  <2> DEFINE r == R(x)
             q == R(<< m >>)
  <2>1. x \in Seq(P) /\ Replayed(A, x, r) /\ Append(x, m) \in Seq(P) /\ << m >> \in Seq(P) /\ Append(x, m) = x \o << m >>
    BY AppendIsConcat
  <2>2. Replayed(A, << m >>, q)
    BY <1>5
  <2>3. x \in Seq(M) /\ << m >> \in Seq(M)
    BY <1>4, <2>1
  <2>4. R(x \o << m >>) = r \o q
    BY <1>2, <2>3
  <2> HIDE DEF r, q, Q
  <2>5. /\ r \in Seq(M) /\ Placed(r) /\ ShapeOfMessages(r) = ShapeOfMessages(x) /\ ToolCalls(r) = K(CallsIn(x))
        /\ q \in Seq(M) /\ Placed(q) /\ ShapeOfMessages(q) = ShapeOfMessages(<< m >>)
        /\ ToolCalls(q) = K(CallsIn(<< m >>))
    BY <2>1, <2>2 DEF Replayed, K, M
  <2>6. r \o q \in Seq(M)
    BY <2>5, ConcatProperties
  <2>7. Placed(r \o q)
    BY <2>5, PlacedConcat
  <2>8. ShapeOfMessages(r \o q) = ShapeOfMessages(x \o << m >>)
    <3>1. /\ ShapeOfMessages(r \o q) = ShapeOfMessages(r) \o ShapeOfMessages(q)
          /\ ShapeOfMessages(x \o << m >>) = ShapeOfMessages(x) \o ShapeOfMessages(<< m >>)
      BY <2>3, <2>5, ShapeLaws DEF M
    <3> QED BY <2>5, <3>1
  <2>9. ToolCalls(r \o q) = K(CallsIn(x \o << m >>))
    <3>1. ToolCalls(r \o q) = ToolCalls(r) \o ToolCalls(q)
      BY <2>5, ToolLaws DEF M
    <3>2. CallsIn(x \o << m >>) = CallsIn(x) \o CallsIn(<< m >>)
      BY <2>3, InLaws DEF M
    <3>3. CallsIn(x) \in Seq(RealCall) /\ CallsIn(<< m >>) \in Seq(RealCall)
      BY <2>3, InLaws DEF M
    <3> QED BY <1>3, <2>5, <3>1, <3>2, <3>3
  <2> QED BY <2>1, <2>4, <2>6, <2>7, <2>8, <2>9 DEF Replayed, Q, K, M
<1>8. Q = Seq(P)
  <2>1. Q \in SUBSET Seq(P)
    OBVIOUS
  <2> HIDE DEF Q, P
  <2> QED BY <1>6, <1>7, <2>1, AllSequences
<1> QED BY <1>8 DEF R, A, outs

------------------------------------------------------------------------------
(***************************************************************************)
(* The outputs in the input.                                               *)
(***************************************************************************)
\* No call is answered exactly if there is no output.
LEMMA NoAnswers ==
    ASSUME NEW C, NEW items \in Seq(Items(C))
    PROVE  AnswersOf(items) = << >> <=> \A n \in DOMAIN items : items[n].kind # "output"
<1> DEFINE None(s) == \A n \in DOMAIN s : s[n].kind # "output"
           Q == { s \in Seq(Items(C)) : AnswersOf(s) = << >> <=> None(s) }
<1>1. << >> \in Q
  BY AnswersLaws
<1>2. ASSUME NEW s \in Q, NEW x \in Items(C) PROVE Append(s, x) \in Q
  <2> DEFINE t == Append(s, x)
             n == Len(s)
  <2>1. /\ s \in Seq(Items(C)) /\ (AnswersOf(s) = << >> <=> None(s))
        /\ t \in Seq(Items(C)) /\ t = s \o << x >> /\ << x >> \in Seq(Items(C))
        /\ n \in Nat /\ DOMAIN s = 1 .. n /\ DOMAIN t = 1 .. n + 1
        /\ \A i \in 1 .. n : t[i] = s[i]
        /\ t[n + 1] = x
    BY AppendProperties, AppendIsConcat
  <2>2. AnswersOf(s \o << x >>) = AnswersOf(s) \o AnswersOf(<< x >>)
    BY <2>1, AnswersLaws
  <2>3. AnswersOf(<< x >>) = IF x.kind = "output" THEN << x.call >> ELSE << >>
    BY AnswersLaws
  <2>4. AnswersOf(s) \in Seq(C) /\ AnswersOf(<< x >>) \in Seq(C)
    BY <2>1, AnswersLaws
  <2>5. AnswersOf(s) \o AnswersOf(<< x >>) = << >> <=> AnswersOf(s) = << >> /\ AnswersOf(<< x >>) = << >>
    BY <2>4, ConcatEqualIffEmpty
  <2>6. AnswersOf(<< x >>) = << >> <=> x.kind # "output"
    <3>1. \A c : << c >> # << >>
      OBVIOUS
    <3> QED BY <2>3, <3>1
  <2> HIDE DEF t, n, Q
  <2>7. None(t) <=> None(s) /\ x.kind # "output"
    <3>1. \A i \in 1 .. n + 1 : i \in 1 .. n \/ i = n + 1
      BY <2>1
    <3>2. \A i \in 1 .. n : i \in 1 .. n + 1
      BY <2>1
    <3>3. n + 1 \in 1 .. n + 1
      BY <2>1
    <3> QED BY <2>1, <3>1, <3>2, <3>3
  <2> QED BY <2>1, <2>2, <2>5, <2>6, <2>7 DEF Q, t
<1>3. Q = Seq(Items(C))
  <2>1. Q \in SUBSET Seq(Items(C))
    OBVIOUS
  <2> HIDE DEF Q
  <2> QED BY <1>1, <1>2, <2>1, AllSequences
<1> QED BY <1>3

\* The ids of the outputs.
LEMMA OutputIdsLaws ==
    ASSUME NEW items \in Seq(Items(RealCall))
    PROVE  /\ ToSet(OutputIds(items)) = { c.id : c \in ToSet(AnswersOf(items)) }
           /\ OutputIds(items) = << >> <=> AnswersOf(items) = << >>
           /\ IsInjective(AnswersOf(items)) => IsInjective(OutputIds(items))
<1> DEFINE a == AnswersOf(items)
           o == OutputIds(items)
<1>1. a \in Seq(RealCall) /\ ToSet(a) \subseteq RealCall
  BY AnswersLaws, Elements
<1>2. o = [ n \in DOMAIN a |-> a[n].id ]
  BY DEF OutputIds
<1> HIDE DEF a, o
<1>3. DOMAIN o = DOMAIN a /\ \A n \in DOMAIN a : o[n] = a[n].id
  BY <1>2
<1>4. ToSet(o) = { c.id : c \in ToSet(a) }
  BY <1>3 DEF ToSet
<1>5. o = << >> <=> a = << >>
  <2>1. DOMAIN a = 1 .. Len(a) /\ Len(a) \in Nat
    BY <1>1
  <2>2. a = << >> => o = << >>
    BY <1>2
  <2>3. ASSUME a # << >> PROVE o # << >>
    <3>1. 1 \in DOMAIN a
      BY <1>1, <2>1, <2>3, EmptySeq
    <3>2. DOMAIN << >> = {}
      OBVIOUS
    <3> QED BY <1>3, <3>1, <3>2
  <2> QED BY <2>2, <2>3
<1>6. ASSUME IsInjective(a) PROVE IsInjective(o)
  <2>1. \A n \in DOMAIN a : a[n] \in RealCall
    BY <1>1 DEF ToSet
  <2>2. ASSUME NEW n \in DOMAIN a, NEW m \in DOMAIN a, a[n].id = a[m].id PROVE n = m
    <3>1. a[n] = a[m]
      BY <2>1, <2>2, SameId
    <3> QED BY <1>6, <3>1 DEF IsInjective
  <2> QED BY <1>3, <2>2 DEF IsInjective
<1> QED BY <1>4, <1>5, <1>6 DEF a, o

\* LastAnswer is the position of the last output.
LEMMA LastAnswerLaws ==
    ASSUME NEW S, NEW items \in Seq(S)
    PROVE  /\ LastAnswer(items) \in 0 .. Len(items)
           /\ \A i \in (LastAnswer(items) + 1) .. Len(items) : items[i].kind # "output"
           /\ LastAnswer(items) # 0 => items[LastAnswer(items)].kind = "output"
<1> DEFINE A == { 0 } \cup { n \in DOMAIN items : items[n].kind = "output" }
           T == { n \in Nat : \A k \in A : k <= n }
<1>1. DOMAIN items = 1 .. Len(items) /\ Len(items) \in Nat
  OBVIOUS
<1>2. Len(items) \in T
  BY <1>1
<1>3. PICK x \in T : \A y \in T : x <= y
  <2>1. T \in SUBSET Nat /\ T # {}
    BY <1>2
  <2> HIDE DEF T
  <2> QED BY <2>1, Least
<1>4. A \subseteq 0 .. Len(items)
  BY <1>1
<1>5. x \in A
  <2>1. SUFFICES ASSUME x \notin A PROVE FALSE
    OBVIOUS
  <2>2. x # 0 /\ x \in Nat /\ \A k \in A : k <= x
    BY <2>1
  <2>3. \A k \in A : k <= x - 1
    BY <1>4, <2>1, <2>2
  <2>4. x - 1 \in Nat
    BY <2>2
  <2>5. x - 1 \in T
    BY <2>3, <2>4
  <2> QED BY <1>3, <2>2, <2>5
<1>6. \A y \in A : x >= y
  BY <1>4
<1> HIDE DEF T
<1>7. LastAnswer(items) = CHOOSE m \in A : \A y \in A : m >= y
  BY DEF LastAnswer, Max
<1> DEFINE l == CHOOSE m \in A : \A y \in A : m >= y
<1>8. l \in A /\ \A y \in A : l >= y
  <2> HIDE DEF A
  <2> QED BY <1>5, <1>6
<1> HIDE DEF l
<1>9. l \in 0 .. Len(items)
  BY <1>4, <1>8
<1>10. ASSUME NEW i \in (l + 1) .. Len(items) PROVE items[i].kind # "output"
  <2>1. i \in 1 .. Len(items) /\ ~(l >= i)
    BY <1>1, <1>9
  <2> QED BY <1>1, <1>8, <2>1
<1>11. l # 0 => items[l].kind = "output"
  BY <1>8, SMTT(30)
<1> QED BY <1>7, <1>9, <1>10, <1>11 DEF l

\* A sequence, from some element on.
LEMMA After ==
    ASSUME NEW S, NEW s \in Seq(S), NEW l \in 0 .. Len(s)
    PROVE  /\ SubSeq(s, l + 1, Len(s)) \in Seq(S)
           /\ Len(SubSeq(s, l + 1, Len(s))) = Len(s) - l
           /\ \A i \in 1 .. Len(s) - l : SubSeq(s, l + 1, Len(s))[i] = s[l + i]
<1>1. Len(s) \in Nat /\ l + 1 \in Int /\ Len(s) \in Int
  OBVIOUS
<1>2. \A i \in (l + 1) .. Len(s) : s[i] \in S
  <2>1. \A i \in (l + 1) .. Len(s) : i \in 1 .. Len(s)
    BY <1>1
  <2> QED BY <2>1, ElementOfSeq
<1> DEFINE n == Len(s)
           m == l + 1
<1>3. n \in Int /\ m \in Int /\ \A i \in m .. n : s[i] \in S
  BY <1>1, <1>2
<1> HIDE DEF n, m
<1>4. /\ SubSeq(s, m, n) \in Seq(S)
      /\ Len(SubSeq(s, m, n)) = IF m <= n THEN n - m + 1 ELSE 0
      /\ \A i \in 1 .. n - m + 1 : SubSeq(s, m, n)[i] = s[m + i - 1]
  BY <1>3, SubSeqProperties
<1>5. (IF m <= n THEN n - m + 1 ELSE 0) = n - l /\ n - m + 1 = n - l
  BY <1>1 DEF n, m
<1>6. \A i \in 1 .. n - l : m + i - 1 = l + i
  BY <1>1 DEF n, m
<1> QED BY <1>4, <1>5, <1>6 DEF n, m

\* What follows the last output, if s ends with one.
LEMMA AfterAnswers ==
    ASSUME NEW C, NEW s \in Seq(Items(C)), s # << >>, s[Len(s)].kind = "output",
           NEW t \in Seq(Items(C)), AnswersOf(t) = << >>
    PROVE  SubSeq(s \o t, LastAnswer(s \o t) + 1, Len(s \o t)) = t
<1> DEFINE u == s \o t
           m == Len(s)
           n == Len(t)
           l == LastAnswer(u)
           S == Items(C)
<1>1. \A i \in DOMAIN t : t[i].kind # "output"
  BY NoAnswers
<1> HIDE DEF S
<1>2. m \in Nat /\ m # 0 /\ n \in Nat /\ DOMAIN t = 1 .. n
  BY EmptySeq
<1>3. /\ u \in Seq(S) /\ Len(u) = m + n
      /\ \A i \in 1 .. m + n : u[i] = IF i <= m THEN s[i] ELSE t[i - m]
  <2>1. s \in Seq(S) /\ t \in Seq(S)
    BY DEF S
  <2> QED BY <2>1, ConcatProperties
<1>4. /\ l \in 0 .. Len(u)
      /\ \A i \in (l + 1) .. Len(u) : u[i].kind # "output"
      /\ l # 0 => u[l].kind = "output"
  BY <1>3, LastAnswerLaws
<1> HIDE DEF u, m, n, l
<1>5. \A i \in 1 .. n : u[m + i] = t[i]
  <2>1. ASSUME NEW i \in 1 .. n PROVE m + i \in 1 .. m + n /\ ~(m + i <= m) /\ (m + i) - m = i
    BY <1>2
  <2> QED BY <1>3, <2>1
<1>6. u[m].kind = "output"
  <2>1. m \in 1 .. m + n /\ m <= m
    BY <1>2
  <2> QED BY <1>3, <2>1 DEF m
<1>7. l = m
  <2>1. ~(l < m)
    <3>1. SUFFICES ASSUME l < m PROVE FALSE
      OBVIOUS
    <3>2. m \in (l + 1) .. Len(u)
      BY <1>2, <1>3, <1>4, <3>1
    <3> QED BY <1>4, <1>6, <3>2
  <2>2. ~(l > m)
    <3>1. SUFFICES ASSUME l > m PROVE FALSE
      OBVIOUS
    <3>2. l # 0 /\ l - m \in 1 .. n /\ l = m + (l - m)
      BY <1>2, <1>3, <1>4, <3>1
    <3>3. u[m + (l - m)] = t[l - m]
      BY <1>5, <3>2
    <3> QED BY <1>1, <1>2, <1>4, <3>2, <3>3
  <2> QED BY <1>2, <1>4, <2>1, <2>2
<1> DEFINE v == SubSeq(u, l + 1, Len(u))
<1>8. /\ v \in Seq(S) /\ Len(v) = Len(u) - l
      /\ \A i \in 1 .. Len(u) - l : v[i] = u[l + i]
  BY <1>3, <1>4, After
<1>9. Len(u) - l = n
  BY <1>2, <1>3, <1>7
<1> HIDE DEF v
<1>10. \A i \in 1 .. n : v[i] = t[i]
  BY <1>5, <1>7, <1>8, <1>9
<1>11. t \in Seq(S) /\ Len(t) = n
  BY DEF S, n
<1>12. v = t
  BY <1>8, <1>9, <1>10, <1>11, SeqEqual
<1> QED BY <1>12 DEF v, u, l

\* What a request adds to a stored history.
LEMMA AdditionsPlain ==
    ASSUME NEW C, NEW items \in Seq(Items(C))
    PROVE  Additions(items) \in Seq(Plain(C))
<1> DEFINE t == SubSeq(items, LastAnswer(items) + 1, Len(items))
<1>1. t \in Seq(Items(C))
  <2> DEFINE S == Items(C)
             l == LastAnswer(items)
  <2>1. items \in Seq(S)
    OBVIOUS
  <2> HIDE DEF S
  <2>2. l \in 0 .. Len(items)
    BY <2>1, LastAnswerLaws
  <2> HIDE DEF l
  <2>3. SubSeq(items, l + 1, Len(items)) \in Seq(S)
    BY <2>1, <2>2, After
  <2> QED BY <2>3 DEF S, l
<1> HIDE DEF t
<1>2. Extract(t) \in Seq(Plain(C)) /\ Extract(items) \in Seq(Plain(C))
  BY <1>1, ExtractLaws
<1> QED BY <1>2 DEF Additions, t

\* The messages of a request are messages.
LEMMA PayloadType ==
    ASSUME NEW C, NEW found \in BOOLEAN, NEW base \in Seq(Messages(C)), NEW items \in Seq(Items(C))
    PROVE  Payload(found, base, items) \in Seq(Messages(C))
<1> DEFINE outs == Outputs(items)
           M == Messages(C)
<1>1. outs \in Seq(M)
  <2>1. AnswersOf(items) \in Seq(C)
    BY AnswersLaws
  <2> QED BY <2>1, ToolsLaws DEF Outputs
<1>2. Extract(items) \in Seq(M) /\ Additions(items) \in Seq(M)
  <2>1. Extract(items) \in Seq(Plain(C)) /\ Additions(items) \in Seq(Plain(C))
    BY ExtractLaws, AdditionsPlain
  <2> QED BY <2>1, PlainLaws
<1>3. Replay(Extract(items), outs) \in Seq(M)
  <2>1. ReplayLaws(C, outs)
    BY <1>1, ReplayParts
  <2> QED BY <1>2, <2>1 DEF ReplayLaws
<1>4. User \in M
  BY MessageCases
<1> HIDE DEF outs, M
<1>5. base \in Seq(M)
  BY DEF M
<1>6. base \o outs \o Additions(items) \in Seq(M) /\ base \o Extract(items) \in Seq(M)
  BY <1>1, <1>2, <1>5, ConcatProperties
<1>7. Joined(found, base, items) \in Seq(M)
  BY <1>2, <1>3, <1>6 DEF Joined, outs
<1>8. << User >> \in Seq(M)
  BY <1>4
<1> QED BY <1>7, <1>8 DEF Payload, M

(***************************************************************************)
(* What a client sends.                                                    *)
(***************************************************************************)
\* The part of a conversation that is repeated is made of its items.
LEMMA RecentType ==
    ASSUME NEW S, NEW items \in Seq(S)
    PROVE  /\ Recent(items) \in Seq(S)
           /\ Len(Recent(items)) = Len(items) - LastAnswer(items)
           /\ \A i \in 1 .. Len(items) - LastAnswer(items) : Recent(items)[i] = items[LastAnswer(items) + i]
<1> DEFINE l == LastAnswer(items)
<1>1. l \in 0 .. Len(items)
  BY LastAnswerLaws
<1> HIDE DEF l
<1>2. /\ SubSeq(items, l + 1, Len(items)) \in Seq(S)
      /\ Len(SubSeq(items, l + 1, Len(items))) = Len(items) - l
      /\ \A i \in 1 .. Len(items) - l : SubSeq(items, l + 1, Len(items))[i] = items[l + i]
  BY <1>1, After
<1> QED BY <1>2 DEF l, Recent

\* new is the outputs of the calls in a, and perhaps a message, the tail.
Brings(C, new, a, tail) ==
    /\ a \in Seq(C) /\ IsInjective(a)
    /\ tail \in Seq(Items(C)) /\ AnswersOf(tail) = << >>
    /\ a = << >> => ShapeOfItems(tail) # << >>
    /\ new = Results(a) \o tail /\ new \in Seq(Items(C))
    /\ AnswersOf(new) = a /\ CallsOf(new) = << >> /\ ShapeOfItems(new) = ShapeOfItems(tail)

\* The tail is nothing or a message.
LEMMA TailLaws ==
    ASSUME NEW C, NEW tail \in { << >>, << Said >> }
    PROVE  /\ tail \in Seq(Items(C)) /\ AnswersOf(tail) = << >> /\ CallsOf(tail) = << >>
           /\ tail # << >> => ShapeOfItems(tail) # << >>
<1>1. CASE tail = << >>
  <2>1. << >> \in Seq(Items(C))
    OBVIOUS
  <2> QED BY <1>1, <2>1, AnswersLaws, CallsLaws
<1>2. CASE tail = << Said >>
  <2>1. Said \in Items(C) /\ << Said >> \in Seq(Items(C)) /\ Said.kind = "message"
    BY ItemCases DEF Said
  <2>2. AnswersOf(<< Said >>) = << >>
    BY <2>1, AnswersLaws
  <2>3. CallsOf(<< Said >>) = << >>
    BY <2>1, CallsLaws
  <2>4. ShapeOfItems(<< Said >>) = << Said.call >>
    BY <2>1, ItemShapeLaws
  <2>5. << Said.call >> # << >>
    OBVIOUS
  <2> QED BY <1>2, <2>1, <2>2, <2>3, <2>4, <2>5
<1> QED BY <1>1, <1>2

\* What is new brings the outputs of some calls of the response.
LEMMA NewsLaws ==
    ASSUME NEW C, NEW r, known[r].calls \in Seq(C), NEW new \in News(r)
    PROVE  \E a \in Seq(C), tail \in Seq(Items(C)) :
              Brings(C, new, a, tail) /\ ToSet(a) \subseteq ToSet(known[r].calls)
<1> DEFINE S == ToSet(known[r].calls)
<1>1. S \subseteq C /\ IsFiniteSet(S)
  <2>1. S \subseteq C
    BY Elements
  <2>2. IsFiniteSet(S)
    BY FiniteElements
  <2> QED BY <2>1, <2>2
<1> HIDE DEF S
<1>2. PICK a \in SetToAllKPermutations(S), tail \in { << >>, << Said >> } :
        new = Results(a) \o tail /\ new # << >>
  BY DEF News, S
<1>3. PICK T \in SUBSET S : a \in SetToSeqs(T)
  BY <1>2 DEF SetToAllKPermutations
<1>4. Cardinality(T) \in Nat
  <2>1. IsFiniteSet(T)
    BY <1>1, <1>3, FS_Subset
  <2> QED BY <2>1, FS_CardinalityType
<1>5. a \in [ 1 .. Cardinality(T) -> T ] /\ IsInjective(a)
  BY <1>3, Zenon DEF SetToSeqs, IsInjective
<1>6. a \in Seq(T)
  <2> DEFINE k == Cardinality(T)
  <2>1. k \in Nat /\ a \in [ 1 .. k -> T ]
    BY <1>4, <1>5
  <2> HIDE DEF k
  <2> QED BY <2>1, FirstNumbers
<1>7. a \in Seq(C) /\ ToSet(a) \subseteq S
  <2>1. T \subseteq C
    BY <1>1, <1>3
  <2>2. ToSet(a) \subseteq T
    BY <1>6, Elements
  <2> QED BY <1>3, <1>6, <2>1, <2>2, SeqMonotonic
<1>8. /\ tail \in Seq(Items(C)) /\ AnswersOf(tail) = << >> /\ CallsOf(tail) = << >>
      /\ tail # << >> => ShapeOfItems(tail) # << >>
  BY <1>2, TailLaws
<1> DEFINE p == Results(a)
<1>9. /\ p \in Seq(Items(C)) /\ AnswersOf(p) = a /\ CallsOf(p) = << >> /\ ShapeOfItems(p) = << >>
      /\ a = << >> => p = << >>
  BY <1>7, ResultsLaws
<1> HIDE DEF p
<1>10. p \o tail \in Seq(Items(C))
  BY <1>8, <1>9, ConcatProperties
<1>11. AnswersOf(p \o tail) = a
  <2>1. AnswersOf(p \o tail) = AnswersOf(p) \o AnswersOf(tail)
    BY <1>8, <1>9, AnswersLaws
  <2>2. a \o << >> = a
    BY <1>7, ConcatEmptySeq
  <2> QED BY <1>8, <1>9, <2>1, <2>2
<1>12. CallsOf(p \o tail) = << >>
  <2>1. CallsOf(p \o tail) = CallsOf(p) \o CallsOf(tail)
    BY <1>8, <1>9, CallsLaws
  <2>2. << >> \o << >> = << >>
    OBVIOUS
  <2> QED BY <1>8, <1>9, <2>1, <2>2
<1>13. ShapeOfItems(p \o tail) = ShapeOfItems(tail)
  <2>1. ShapeOfItems(p \o tail) = ShapeOfItems(p) \o ShapeOfItems(tail)
    BY <1>8, <1>9, ItemShapeLaws
  <2>2. ShapeOfItems(tail) \in Seq(C \cup { NoCall })
    BY <1>8, ItemShapeLaws
  <2> QED BY <1>9, <2>1, <2>2, ConcatEmptySeq
<1>14. a = << >> => tail # << >>
  <2>1. << >> \o << >> = << >>
    OBVIOUS
  <2> QED BY <1>2, <1>9, <2>1 DEF p
<1>15. Brings(C, new, a, tail)
  BY <1>2, <1>5, <1>7, <1>8, <1>10, <1>11, <1>12, <1>13, <1>14 DEF Brings, p
<1> QED BY <1>7, <1>8, <1>15 DEF S

\* Items that end with the answer of the upstream.
EndsWith(items, calls) ==
    LET n == Len(items) - Len(Reply(calls))
    IN  n >= 0 /\ items = SubSeq(items, 1, n) \o Reply(calls)

\* They do when the answer is put behind them.
LEMMA EndsWithReply ==
    ASSUME NEW C, NEW talk \in Seq(Items(C)), NEW cs \in Seq(C)
    PROVE  EndsWith(talk \o Reply(cs), cs)
<1> DEFINE S == Items(C)
           t == Reply(cs)
           m == Len(talk)
           u == talk \o t
<1>1. talk \in Seq(S) /\ t \in Seq(S)
  BY ReplyLaws
<1> HIDE DEF S, t
<1>2. u \in Seq(S) /\ Len(u) = m + Len(t) /\ m \in Nat /\ Len(t) \in Nat /\ \A i \in 1 .. m : u[i] = talk[i]
  <2>1. /\ u \in Seq(S) /\ Len(u) = m + Len(t) /\ m \in Nat /\ Len(t) \in Nat
        /\ \A i \in 1 .. m + Len(t) : u[i] = IF i <= m THEN talk[i] ELSE t[i - m]
    BY <1>1, ConcatProperties
  <2>2. \A i \in 1 .. m : i \in 1 .. m + Len(t) /\ i <= m
    BY <2>1
  <2> QED BY <2>1, <2>2
<1> HIDE DEF u, m
<1>3. 1 \in Int /\ m \in Int /\ \A i \in 1 .. m : u[i] \in S
  <2>1. \A i \in 1 .. m : talk[i] \in S
    BY <1>1, ElementOfSeq DEF m
  <2> QED BY <1>2, <2>1
<1> DEFINE v == SubSeq(u, 1, m)
<1>4. v \in Seq(S) /\ Len(v) = m /\ \A i \in 1 .. m : v[i] = u[i]
  <2>1. /\ v \in Seq(S) /\ Len(v) = IF 1 <= m THEN m - 1 + 1 ELSE 0
        /\ \A i \in 1 .. m - 1 + 1 : v[i] = u[1 + i - 1]
    BY <1>3, SubSeqProperties
  <2>2. m - 1 + 1 = m /\ (m = 0 \/ 1 <= m) /\ \A i \in 1 .. m : 1 + i - 1 = i
    BY <1>2
  <2> QED BY <2>1, <2>2
<1> HIDE DEF v
<1>5. v = talk
  <2>1. Len(v) = Len(talk) /\ \A i \in 1 .. Len(v) : v[i] = talk[i]
    BY <1>2, <1>4 DEF m
  <2> QED BY <1>1, <1>4, <2>1, SeqEqual
<1>6. Len(u) - Len(t) = m /\ m >= 0
  BY <1>2
<1> QED BY <1>5, <1>6 DEF EndsWith, v, u, t

\* What such items are made of.
LEMMA EndsWithFront ==
    ASSUME NEW C, NEW items \in Seq(Items(C)), NEW cs \in Seq(C), EndsWith(items, cs)
    PROVE  \E front \in Seq(Items(C)) : items = front \o Reply(cs)
<1> DEFINE S == Items(C)
           n == Len(items) - Len(Reply(cs))
           v == SubSeq(items, 1, n)
<1>1. Len(items) \in Nat /\ Len(Reply(cs)) \in Nat
  BY ReplyLaws
<1>2. n >= 0 /\ n \in Int /\ n <= Len(items) /\ items = v \o Reply(cs)
  BY <1>1 DEF EndsWith
<1>3. \A i \in 1 .. n : items[i] \in S
  <2>1. \A i \in 1 .. n : i \in 1 .. Len(items)
    BY <1>1, <1>2
  <2> QED BY <2>1, ElementOfSeq
<1> HIDE DEF S, n
<1>4. v \in Seq(S)
  <2>1. 1 \in Int
    OBVIOUS
  <2> QED BY <1>2, <1>3, <2>1, SubSeqProperties
<1> QED BY <1>2, <1>4 DEF S, v, n

\* What is repeated has no output, and all calls of the response.
LEMMA RecentLaws ==
    ASSUME NEW C, NEW items \in Seq(Items(C)), NEW cs \in Seq(C), EndsWith(items, cs)
    PROVE  /\ Recent(items) \in Seq(Items(C)) /\ AnswersOf(Recent(items)) = << >>
           /\ \A c \in ToSet(cs) : \E i \in DOMAIN Recent(items) : Recent(items)[i] = Made(c)
<1> DEFINE l == LastAnswer(items)
           q == Recent(items)
           t == Reply(cs)
           S == Items(C)
<1>1. PICK front \in Seq(Items(C)) : items = front \o t
  BY EndsWithFront
<1> DEFINE m == Len(front)
           n == Len(t)
<1>2. /\ t \in Seq(Items(C)) /\ \A i \in DOMAIN t : t[i].kind # "output"
      /\ \A c \in ToSet(cs) : \E i \in 1 .. n : t[i] = Made(c)
  <2>1. t \in Seq(Items(C)) /\ AnswersOf(t) = << >> /\ \A c \in ToSet(cs) : \E i \in 1 .. n : t[i] = Made(c)
    BY ReplyLaws
  <2> HIDE DEF t
  <2> QED BY <2>1, NoAnswers
<1> HIDE DEF t
<1>3. /\ m \in Nat /\ n \in Nat /\ DOMAIN t = 1 .. n /\ Len(items) = m + n
      /\ \A i \in 1 .. m + n : items[i] = IF i <= m THEN front[i] ELSE t[i - m]
  <2>1. front \in Seq(S) /\ t \in Seq(S)
    BY <1>2
  <2> HIDE DEF S
  <2> QED BY <1>1, <2>1, ConcatProperties
<1>4. /\ l \in 0 .. Len(items)
      /\ \A i \in (l + 1) .. Len(items) : items[i].kind # "output"
      /\ l # 0 => items[l].kind = "output"
  BY LastAnswerLaws
<1>5. q \in Seq(S) /\ Len(q) = Len(items) - l /\ \A i \in 1 .. Len(items) - l : q[i] = items[l + i]
  BY RecentType
<1> HIDE DEF l, q, m, n
<1>6. l <= m
  <2>1. SUFFICES ASSUME ~(l <= m) PROVE FALSE
    OBVIOUS
  <2>2. l # 0 /\ l \in 1 .. m + n /\ l - m \in 1 .. n
    BY <1>3, <1>4, <2>1
  <2>3. items[l] = t[l - m]
    BY <1>3, <2>1, <2>2
  <2> QED BY <1>2, <1>3, <1>4, <2>2, <2>3
<1>7. DOMAIN q = 1 .. Len(items) - l
  BY <1>5
<1>8. AnswersOf(q) = << >>
  <2>1. ASSUME NEW i \in DOMAIN q PROVE q[i].kind # "output"
    <3>1. i \in 1 .. Len(items) - l /\ l + i \in (l + 1) .. Len(items)
      BY <1>3, <1>4, <1>7
    <3> QED BY <1>4, <1>5, <3>1
  <2>2. q \in Seq(Items(C))
    BY <1>5
  <2> QED BY <2>1, <2>2, NoAnswers
<1>9. ASSUME NEW c \in ToSet(cs) PROVE \E i \in DOMAIN q : q[i] = Made(c)
  <2>1. PICK i \in 1 .. n : t[i] = Made(c)
    BY <1>2
  <2> DEFINE k == (m - l) + i
  <2>2. k \in 1 .. Len(items) - l /\ l + k = m + i /\ m + i \in 1 .. m + n /\ ~(m + i <= m) /\ (m + i) - m = i
    BY <1>3, <1>4, <1>6
  <2> HIDE DEF k
  <2>3. q[k] = items[m + i]
    BY <1>5, <2>2
  <2>4. items[m + i] = t[i]
    BY <1>3, <2>2
  <2> QED BY <1>7, <2>1, <2>2, <2>3, <2>4
<1> QED BY <1>5, <1>8, <1>9 DEF q

\* What a request adds to the stored history has the shape of what is new.
LEMMA AdditionsTell ==
    ASSUME NEW C, NEW pre \in Seq(Items(C)), AnswersOf(pre) = << >>,
           NEW new, NEW a, NEW tail, Brings(C, new, a, tail), a # << >>,
           pre = << >> \/ \A c \in ToSet(a) : \E i \in DOMAIN pre : pre[i] = Made(c)
    PROVE  /\ pre \o new \in Seq(Items(C)) /\ AnswersOf(pre \o new) = a
           /\ ShapeOfMessages(Additions(pre \o new)) = ShapeOfItems(new)
<1> DEFINE S == Items(C)
           items == pre \o new
           p == Results(a)
           q == pre \o p
           l == LastAnswer(items)
<1>1. /\ new \in Seq(S) /\ tail \in Seq(S) /\ pre \in Seq(S) /\ a \in Seq(C) /\ new = p \o tail
      /\ AnswersOf(tail) = << >> /\ AnswersOf(new) = a /\ ShapeOfItems(new) = ShapeOfItems(tail)
  BY DEF Brings
<1>2. p \in Seq(S) /\ Len(p) = Len(a) /\ \A i \in 1 .. Len(a) : p[i] = Answer(a[i])
  BY <1>1, ResultsLaws
<1>3. AnswersOf(items) = a
  <2>1. AnswersOf(items) = AnswersOf(pre) \o AnswersOf(new)
    BY <1>1, AnswersLaws
  <2> QED BY <1>1, <2>1, ConcatEmptySeq
<1>4. ASSUME RepeatsCalls(items) PROVE ShapeOfMessages(Additions(items)) = ShapeOfItems(new)
  <2>1. q \in Seq(S) /\ Len(q) = Len(pre) + Len(a) /\ Len(a) \in Nat /\ Len(a) # 0 /\ Len(pre) \in Nat
    <3>1. q \in Seq(S) /\ Len(q) = Len(pre) + Len(p)
      <4> HIDE DEF S, p
      <4> QED BY <1>1, <1>2, ConcatProperties
    <3>2. Len(a) \in Nat /\ Len(a) # 0 /\ Len(pre) \in Nat
      BY <1>1, EmptySeq
    <3> QED BY <1>2, <3>1, <3>2
  <2>2. q[Len(q)] = Answer(a[Len(a)])
    <3>1. q[Len(pre) + Len(a)] = p[Len(a)]
      <4> HIDE DEF S, p
      <4>1. \A i \in 1 .. Len(pre) + Len(p) : q[i] = IF i <= Len(pre) THEN pre[i] ELSE p[i - Len(pre)]
        BY <1>1, <1>2, ConcatProperties
      <4>2. /\ Len(pre) + Len(a) \in 1 .. Len(pre) + Len(p) /\ ~(Len(pre) + Len(a) <= Len(pre))
            /\ (Len(pre) + Len(a)) - Len(pre) = Len(a)
        BY <1>2, <2>1
      <4> QED BY <4>1, <4>2
    <3>2. Len(a) \in 1 .. Len(a)
      BY <2>1
    <3> QED BY <1>2, <2>1, <3>1, <3>2
  <2>3. q[Len(q)].kind = "output" /\ q # << >>
    <3>1. \A c : Answer(c).kind = "output"
      BY DEF Answer
    <3> QED BY <2>1, <2>2, <3>1
  <2>4. q \o tail = items
    <3> HIDE DEF S, p
    <3>1. (pre \o p) \o tail = pre \o (p \o tail)
      BY <1>1, <1>2, ConcatAssociative, SMTT(30)
    <3> QED BY <1>1, <3>1
  <2>5. SubSeq(items, l + 1, Len(items)) = tail
    <3>1. q \in Seq(Items(C)) /\ tail \in Seq(Items(C))
      BY <1>1, <2>1
    <3> HIDE DEF q, items
    <3>2. SubSeq(q \o tail, LastAnswer(q \o tail) + 1, Len(q \o tail)) = tail
      BY <1>1, <2>3, <3>1, AfterAnswers
    <3> QED BY <2>4, <3>2
  <2>6. Additions(items) = Extract(tail)
    BY <1>4, <2>5 DEF Additions
  <2>7. ShapeOfMessages(Extract(tail)) = ShapeOfItems(tail)
    BY <1>1, ExtractLaws
  <2> QED BY <1>1, <2>6, <2>7
<1>5. ASSUME ~RepeatsCalls(items) PROVE ShapeOfMessages(Additions(items)) = ShapeOfItems(new)
  <2>1. Additions(items) = Extract(items)
    BY <1>5 DEF Additions
  <2>2. CASE pre = << >>
    <3>1. items = new
      BY <1>1, <2>2, ConcatEmptySeq
    <3> QED BY <1>1, <2>1, <3>1, ExtractLaws
  <2>3. CASE \A c \in ToSet(a) : \E i \in DOMAIN pre : pre[i] = Made(c)
    <3> DEFINE m == Len(pre)
               k == Len(a)
               h == Len(tail)
    <3>1. /\ m \in Nat /\ k \in Nat /\ h \in Nat /\ DOMAIN items = 1 .. m + (k + h)
          /\ \A i \in 1 .. m + (k + h) : items[i] = IF i <= m THEN pre[i] ELSE new[i - m]
          /\ \A i \in 1 .. k + h : new[i] = IF i <= k THEN p[i] ELSE tail[i - k]
      <4> HIDE DEF S, p
      <4>1. /\ Len(new) = k + h /\ k \in Nat /\ h \in Nat
            /\ \A i \in 1 .. k + h : new[i] = IF i <= k THEN p[i] ELSE tail[i - k]
        <5>1. /\ Len(p \o tail) = Len(p) + Len(tail) /\ Len(p) \in Nat /\ Len(tail) \in Nat
              /\ \A i \in 1 .. Len(p) + Len(tail) : (p \o tail)[i] = IF i <= Len(p) THEN p[i] ELSE tail[i - Len(p)]
          <6>1. p \in Seq(S) /\ tail \in Seq(S)
            BY <1>1, <1>2
          <6> QED BY <6>1, ConcatProperties
        <5> QED BY <1>1, <1>2, <5>1
      <4>2. /\ Len(items) = m + Len(new) /\ m \in Nat /\ items \in Seq(S)
            /\ \A i \in 1 .. m + Len(new) : items[i] = IF i <= m THEN pre[i] ELSE new[i - m]
        BY <1>1, ConcatProperties
      <4>3. DOMAIN items = 1 .. Len(items)
        BY <4>2
      <4> QED BY <4>1, <4>2, <4>3
    <3>2. /\ DOMAIN pre = 1 .. m /\ DOMAIN a = 1 .. k /\ DOMAIN tail = 1 .. h
          /\ \A i \in 1 .. m : pre[i].kind # "output"
          /\ \A i \in 1 .. h : tail[i].kind # "output"
          /\ \A i \in 1 .. k : a[i] \in ToSet(a)
      <4>1. DOMAIN pre = 1 .. m /\ DOMAIN a = 1 .. k /\ DOMAIN tail = 1 .. h
        BY <1>1
      <4>2. \A i \in DOMAIN pre : pre[i].kind # "output"
        BY NoAnswers
      <4>3. \A i \in DOMAIN tail : tail[i].kind # "output"
        BY <1>1, NoAnswers
      <4>4. \A i \in DOMAIN a : a[i] \in ToSet(a)
        BY DEF ToSet
      <4> QED BY <4>1, <4>2, <4>3, <4>4
    <3> HIDE DEF m, k, h, items, p
    <3>3. ASSUME NEW j \in DOMAIN items, items[j].kind = "output"
          PROVE  \E i \in 1 .. (j - 1) : items[i].kind = "call" /\ items[i].call.id = items[j].call.id
      <4>1. j \in 1 .. m + (k + h)
        BY <3>1
      <4>2. ~(j <= m)
        <5>1. SUFFICES ASSUME j <= m PROVE FALSE
          OBVIOUS
        <5>2. j \in 1 .. m /\ items[j] = pre[j]
          BY <3>1, <4>1, <5>1
        <5> QED BY <3>2, <3>3, <5>2
      <4>3. j - m \in 1 .. k + h /\ items[j] = new[j - m]
        BY <3>1, <4>1, <4>2
      <4>4. j - m <= k
        <5>1. SUFFICES ASSUME ~(j - m <= k) PROVE FALSE
          OBVIOUS
        <5>2. (j - m) - k \in 1 .. h /\ items[j] = tail[(j - m) - k]
          BY <3>1, <4>3, <5>1
        <5> QED BY <3>2, <3>3, <5>2
      <4>5. j - m \in 1 .. k /\ items[j] = p[j - m]
        BY <3>1, <4>3, <4>4
      <4>6. items[j] = Answer(a[j - m]) /\ a[j - m] \in ToSet(a)
        BY <1>2, <3>2, <4>5 DEF k
      <4>7. PICK i \in 1 .. m : pre[i] = Made(a[j - m])
        BY <2>3, <3>2, <4>6
      <4>8. i \in 1 .. (j - 1) /\ items[i] = pre[i]
        BY <3>1, <4>1, <4>2
      <4>9. items[i].kind = "call" /\ items[i].call = a[j - m] /\ items[j].call = a[j - m]
        BY <4>6, <4>7, <4>8 DEF Made, Answer
      <4> QED BY <4>8, <4>9
    <3>4. RepeatsCalls(items)
      BY <3>3 DEF RepeatsCalls
    <3> QED BY <1>5, <3>4
  <2> QED BY <2>2, <2>3
<1>6. items \in Seq(S)
  <2> HIDE DEF S
  <2> QED BY <1>1, ConcatProperties
<1> QED BY <1>3, <1>4, <1>5, <1>6

(***************************************************************************)
(* Conversations, and the messages that tell them.                         *)
(***************************************************************************)
\* a conversation of responses before n
Fluent(talk, n) ==
    /\ IsInjective(CallsOf(talk)) /\ IsInjective(AnswersOf(talk))
    /\ ToSet(AnswersOf(talk)) \subseteq ToSet(CallsOf(talk))
    /\ \A c \in ToSet(CallsOf(talk)) : c.from < n
    /\ ShapeOfItems(talk) # << >>

\* its messages
Tells(ms, talk, whole, n) ==
    /\ Placed(ms)
    /\ IsInjective(ToolCalls(ms))
    /\ \A c \in ToSet(ToolCalls(ms)) : c.from < n
    /\ whole => /\ ShapeOfMessages(ms) = ShapeOfItems(talk)
                /\ ToSet(ToolCalls(ms)) = ToSet(AnswersOf(talk))

\* A conversation goes on with the outputs of calls of its last response.
LEMMA FluentGrows ==
    ASSUME NEW old \in Seq(Items(RealCall)), NEW r \in Nat, NEW n \in Nat, r < n,
           Fluent(old, r + 1), \A c \in ToSet(AnswersOf(old)) : c.from < r,
           NEW new, NEW a, NEW tail, Brings(RealCall, new, a, tail),
           ToSet(a) \subseteq ToSet(CallsOf(old)), \A c \in ToSet(a) : c.from = r
    PROVE  Fluent(old \o new, n)
<1> DEFINE C == RealCall
           S == Items(C)
           b == AnswersOf(old)
           d == CallsOf(old)
<1>1. new \in Seq(S) /\ AnswersOf(new) = a /\ CallsOf(new) = << >> /\ a \in Seq(C) /\ IsInjective(a)
  BY DEF Brings
<1>2. b \in Seq(C) /\ d \in Seq(C)
  BY AnswersLaws, CallsLaws
<1>3. AnswersOf(old \o new) = b \o a
  BY <1>1, AnswersLaws
<1>4. CallsOf(old \o new) = d
  <2>1. CallsOf(old \o new) = CallsOf(old) \o CallsOf(new)
    BY <1>1, CallsLaws
  <2> QED BY <1>1, <1>2, <2>1, ConcatEmptySeq
<1>5. ShapeOfItems(old \o new) # << >>
  <2>1. ShapeOfItems(old \o new) = ShapeOfItems(old) \o ShapeOfItems(new)
    BY <1>1, ItemShapeLaws
  <2>2. ShapeOfItems(old) \in Seq(C \cup { NoCall }) /\ ShapeOfItems(new) \in Seq(C \cup { NoCall })
    BY <1>1, ItemShapeLaws
  <2>3. ShapeOfItems(old) # << >>
    BY DEF Fluent
  <2> QED BY <2>1, <2>2, <2>3, ConcatEqualIffEmpty
<1>6. IsInjective(b \o a)
  <2>1. IsInjective(b)
    BY DEF Fluent
  <2>2. ToSet(b) \cap ToSet(a) = {}
    <3>1. ASSUME NEW c \in ToSet(b), c \in ToSet(a) PROVE FALSE
      <4>1. c.from < r /\ c.from = r
        BY <3>1
      <4> QED BY <4>1
    <3> QED BY <3>1
  <2> HIDE DEF b, C
  <2> QED BY <1>1, <1>2, <2>1, <2>2, InjectiveConcat
<1>7. ToSet(b \o a) = ToSet(b) \cup ToSet(a)
  <2> HIDE DEF b, C
  <2> QED BY <1>1, <1>2, ElementsOfConcat
<1>8. \A c \in ToSet(d) : c.from < n
  <2>1. ToSet(d) \subseteq C
    BY <1>2, Elements
  <2>2. \A c \in ToSet(d) : c.from < r + 1
    BY DEF Fluent
  <2>3. \A c \in C : c.from \in Nat
    BY DEF RealCall, Call
  <2>4. \A x \in Nat : x < r + 1 => x < n
    OBVIOUS
  <2> QED BY <2>1, <2>2, <2>3, <2>4
<1>9. IsInjective(d) /\ ToSet(b) \subseteq ToSet(d)
  BY DEF Fluent
<1> QED BY <1>3, <1>4, <1>5, <1>6, <1>7, <1>8, <1>9 DEF Fluent

\* A conversation starts with a message.
LEMMA FluentStarts ==
    ASSUME NEW n \in Nat, NEW new, NEW tail, Brings(RealCall, new, << >>, tail)
    PROVE  Fluent(new, n)
<1>1. /\ AnswersOf(new) = << >> /\ CallsOf(new) = << >> /\ ShapeOfItems(new) # << >>
      /\ IsInjective(<< >>)
  BY DEF Brings
<1>2. ToSet(<< >>) = {}
  BY DEF ToSet
<1> QED BY <1>1, <1>2 DEF Fluent

\* A conversation goes on with the answer of the upstream.
LEMMA FluentAnswered ==
    ASSUME NEW talk \in Seq(Items(RealCall)), NEW n \in Nat, Fluent(talk, n),
           NEW cs \in Seq(RealCall), IsInjective(cs), \A c \in ToSet(cs) : c.from = n
    PROVE  /\ talk \o Reply(cs) \in Seq(Items(RealCall))
           /\ Fluent(talk \o Reply(cs), n + 1)
           /\ \A c \in ToSet(AnswersOf(talk \o Reply(cs))) : c.from < n
           /\ ToSet(AnswersOf(talk \o Reply(cs))) = ToSet(AnswersOf(talk))
           /\ ShapeOfItems(talk \o Reply(cs)) = ShapeOfItems(talk) \o cs
<1> DEFINE C == RealCall
           S == Items(C)
           t == Reply(cs)
           b == AnswersOf(talk)
           d == CallsOf(talk)
<1>1. t \in Seq(S) /\ CallsOf(t) = cs /\ AnswersOf(t) = << >> /\ ShapeOfItems(t) = cs
  BY ReplyLaws
<1> HIDE DEF t
<1>2. b \in Seq(C) /\ d \in Seq(C)
  BY AnswersLaws, CallsLaws
<1>3. AnswersOf(talk \o t) = b
  <2>1. AnswersOf(talk \o t) = AnswersOf(talk) \o AnswersOf(t)
    BY <1>1, AnswersLaws
  <2> QED BY <1>1, <1>2, <2>1, ConcatEmptySeq
<1>4. CallsOf(talk \o t) = d \o cs
  BY <1>1, CallsLaws
<1>5. ShapeOfItems(talk \o t) = ShapeOfItems(talk) \o cs
  BY <1>1, ItemShapeLaws
<1>6. ShapeOfItems(talk) \o cs # << >>
  <2>1. ShapeOfItems(talk) \in Seq(C \cup { NoCall }) /\ ShapeOfItems(t) \in Seq(C \cup { NoCall })
    BY <1>1, ItemShapeLaws
  <2>2. ShapeOfItems(talk) # << >>
    BY DEF Fluent
  <2> QED BY <1>1, <2>1, <2>2, ConcatEqualIffEmpty
<1>7. /\ IsInjective(d) /\ IsInjective(b) /\ ToSet(b) \subseteq ToSet(d)
      /\ \A c \in ToSet(d) : c.from < n
  BY DEF Fluent
<1>8. IsInjective(d \o cs)
  <2>1. ToSet(d) \cap ToSet(cs) = {}
    <3>1. ASSUME NEW c \in ToSet(d), c \in ToSet(cs) PROVE FALSE
      <4>1. c.from < n /\ c.from = n
        BY <1>7, <3>1
      <4> QED BY <4>1
    <3> QED BY <3>1
  <2> HIDE DEF d, C
  <2> QED BY <1>2, <1>7, <2>1, InjectiveConcat DEF C
<1>9. ToSet(d \o cs) = ToSet(d) \cup ToSet(cs)
  <2> HIDE DEF d
  <2> QED BY <1>2, ElementsOfConcat DEF C
<1>10. ASSUME NEW c \in ToSet(d \o cs) PROVE c.from < n + 1
  <2>1. ToSet(d) \subseteq C
    BY <1>2, Elements
  <2>2. \A x \in C : x.from \in Nat
    BY DEF RealCall, Call
  <2>3. CASE c \in ToSet(d)
    <3>1. c.from < n /\ c.from \in Nat
      BY <1>7, <2>1, <2>2, <2>3
    <3> QED BY <3>1
  <2>4. CASE c \in ToSet(cs)
    <3>1. c.from = n
      BY <2>4
    <3> QED BY <3>1
  <2> QED BY <1>9, <2>3, <2>4
<1>11. talk \o t \in Seq(S)
  <2> HIDE DEF S
  <2> QED BY <1>1, ConcatProperties DEF S
<1>12. Fluent(talk \o t, n + 1)
  BY <1>3, <1>4, <1>5, <1>6, <1>7, <1>8, <1>9, <1>10 DEF Fluent
<1>13. \A c \in ToSet(b) : c.from < n
  BY <1>7
<1> QED BY <1>3, <1>5, <1>11, <1>12, <1>13 DEF t

(***************************************************************************)
(* A request that brings the whole conversation is sent upstream with the  *)
(* messages of that conversation, and looks for no stored response.        *)
(***************************************************************************)
LEMMA StatelessTells ==
    ASSUME NEW talk \in Seq(Items(RealCall)), NEW n \in Nat, Fluent(talk, n)
    PROVE  /\ LookupIds(FALSE, talk) = << >>
           /\ Acceptable(FALSE, << >>, talk)
           /\ Payload(FALSE, << >>, talk) \in Seq(Messages(RealCall))
           /\ Tells(Payload(FALSE, << >>, talk), talk, TRUE, n)
<1> DEFINE C == RealCall
           a == AnswersOf(talk)
           d == CallsOf(talk)
           x == Extract(talk)
           r == Replay(x, Tools(a))
           j == Joined(FALSE, << >>, talk)
<1>1. a \in Seq(C) /\ d \in Seq(C)
  BY AnswersLaws, CallsLaws
<1>2. /\ IsInjective(d) /\ IsInjective(a) /\ ToSet(a) \subseteq ToSet(d)
      /\ \A c \in ToSet(d) : c.from < n
      /\ ShapeOfItems(talk) # << >>
  BY DEF Fluent
<1>3. ToSet(OutputIds(talk)) \subseteq CallIds(talk)
  <2>1. ToSet(OutputIds(talk)) = { c.id : c \in ToSet(a) }
    BY OutputIdsLaws
  <2> QED BY <1>2, <2>1 DEF CallIds
<1>4. LookupIds(FALSE, talk) = << >>
  BY <1>3 DEF LookupIds
<1>5. x \in Seq(Plain(C)) /\ ShapeOfMessages(x) = ShapeOfItems(talk) /\ CallsIn(x) = d
  BY ExtractLaws
<1>6. Outputs(talk) = Tools(a) /\ (Tools(a) = << >> <=> a = << >>)
  <2>1. Tools(a) \in Seq(Messages(C)) /\ Len(Tools(a)) = Len(a)
    BY <1>1, ToolsLaws
  <2>2. Outputs(talk) = Tools(a)
    BY DEF Outputs
  <2> HIDE DEF a
  <2>3. Tools(a) = << >> <=> a = << >>
    <3>1. Tools(a) = << >> <=> Len(Tools(a)) = 0
      BY <2>1, EmptySeq
    <3>2. a = << >> <=> Len(a) = 0
      BY <1>1, EmptySeq
    <3> QED BY <2>1, <3>1, <3>2
  <2> QED BY <2>2, <2>3
<1>7. j = IF a = << >> THEN x ELSE r
  BY <1>6 DEF Joined
<1> HIDE DEF x, r, a, d, j
<1>8. /\ j \in Seq(Messages(C)) /\ Placed(j) /\ ShapeOfMessages(j) = ShapeOfItems(talk)
      /\ ToSet(ToolCalls(j)) = ToSet(a) /\ IsInjective(ToolCalls(j))
  <2>1. CASE a = << >>
    <3>1. x \in Seq(Messages(C)) /\ ToolCalls(x) = << >> /\ Placed(x)
      BY <1>5, PlainLaws
    <3> QED BY <1>2, <1>5, <1>7, <2>1, <3>1
  <2>2. CASE a # << >>
    <3>1. Replayed(ToSet(a), x, r)
      BY <1>1, <1>2, <1>5, ReplayTells DEF r
    <3>2. /\ r \in Seq(Messages(C)) /\ Placed(r) /\ ShapeOfMessages(r) = ShapeOfItems(talk)
          /\ ToolCalls(r) = Kept(C, ToSet(a), d)
      BY <1>5, <3>1 DEF Replayed
    <3>3. ToSet(Kept(C, ToSet(a), d)) = ToSet(d) \cap ToSet(a) /\ IsInjective(Kept(C, ToSet(a), d))
      <4> HIDE DEF C
      <4> QED BY <1>1, <1>2, KeptElements
    <3>4. ToSet(d) \cap ToSet(a) = ToSet(a)
      BY <1>2
    <3> QED BY <1>7, <2>2, <3>2, <3>3, <3>4
  <2> QED BY <2>1, <2>2
<1>9. j # << >>
  BY <1>2, <1>8, ShapeLaws
<1>10. Payload(FALSE, << >>, talk) = j
  BY <1>9 DEF Payload, j
<1>11. ValidHistory(j)
  BY <1>8, PlacedIsValid
<1>12. IsInjective(OutputIds(talk))
  BY <1>2, OutputIdsLaws DEF a
<1>13. Acceptable(FALSE, << >>, talk)
  BY <1>3, <1>10, <1>11, <1>12 DEF Acceptable
<1>14. \A c \in ToSet(ToolCalls(j)) : c.from < n
  BY <1>2, <1>8
<1>15. Tells(j, talk, TRUE, n)
  BY <1>8, <1>14 DEF Tells, a
<1> QED BY <1>4, <1>8, <1>10, <1>13, <1>15

\* items continue response r, which made the calls cs: base is the history
\* stored with it, old the conversation up to it, and new what is new.
Continues(items, base, old, whole, r, n, cs, new, a, tail) ==
    /\ base \in Seq(Messages(RealCall)) /\ old \in Seq(Items(RealCall)) /\ r \in Nat /\ n \in Nat /\ r < n
    /\ Tells(base, old, whole, r)
    /\ cs \in Seq(RealCall) /\ Ends(base, cs) /\ \A c \in ToSet(cs) : c.from = r
    /\ Brings(RealCall, new, a, tail) /\ ToSet(a) \subseteq ToSet(cs)
    /\ items \in Seq(Items(RealCall)) /\ AnswersOf(items) = a
    /\ a # << >> => ShapeOfMessages(Additions(items)) = ShapeOfItems(new)
    /\ a = << >> => items = new

(***************************************************************************)
(* A request that continues a stored response is sent upstream with the    *)
(* messages stored, the outputs, and what else is new.                     *)
(***************************************************************************)
LEMMA ContinuedTells ==
    ASSUME NEW items, NEW base, NEW old, NEW whole, NEW r, NEW n, NEW cs, NEW new, NEW a, NEW tail,
           Continues(items, base, old, whole, r, n, cs, new, a, tail)
    PROVE  /\ Acceptable(TRUE, base, items)
           /\ Payload(TRUE, base, items) \in Seq(Messages(RealCall))
           /\ Tells(Payload(TRUE, base, items), old \o new, whole, n)
<1>0. /\ base \in Seq(Messages(RealCall)) /\ old \in Seq(Items(RealCall)) /\ r \in Nat /\ n \in Nat /\ r < n
      /\ Tells(base, old, whole, r)
      /\ cs \in Seq(RealCall) /\ Ends(base, cs) /\ \A c \in ToSet(cs) : c.from = r
      /\ Brings(RealCall, new, a, tail) /\ ToSet(a) \subseteq ToSet(cs)
      /\ items \in Seq(Items(RealCall)) /\ AnswersOf(items) = a
      /\ a # << >> => ShapeOfMessages(Additions(items)) = ShapeOfItems(new)
      /\ a = << >> => items = new
  BY DEF Continues
<1> USE <1>0
<1> DEFINE C == RealCall
           M == Messages(C)
           t == Tools(a)
           x == IF a = << >> THEN Extract(items) ELSE Additions(items)
           b == base \o t
           j == b \o x
           h == ToolCalls(base)
<1>1. /\ a \in Seq(C) /\ IsInjective(a) /\ new \in Seq(Items(C)) /\ AnswersOf(new) = a
  BY DEF Brings
<1>2. /\ t \in Seq(M) /\ ToolCalls(t) = a /\ ShapeOfMessages(t) = << >> /\ Len(t) = Len(a)
      /\ Outputs(items) = t
  BY <1>1, ToolsLaws DEF Outputs
<1>3. t = << >> <=> a = << >>
  <2> HIDE DEF t
  <2>1. t = << >> <=> Len(t) = 0
    BY <1>2, EmptySeq
  <2>2. a = << >> <=> Len(a) = 0
    BY <1>1, EmptySeq
  <2> QED BY <1>2, <2>1, <2>2
<1>4. x \in Seq(Plain(C)) /\ ShapeOfMessages(x) = ShapeOfItems(new)
  <2>1. Extract(items) \in Seq(Plain(C)) /\ Additions(items) \in Seq(Plain(C))
    BY ExtractLaws, AdditionsPlain
  <2>2. ShapeOfMessages(Extract(items)) = ShapeOfItems(items)
    BY ExtractLaws
  <2> QED BY <2>1, <2>2
<1>5. x \in Seq(M) /\ ToolCalls(x) = << >> /\ Placed(x)
  BY <1>4, PlainLaws
<1>6. Joined(TRUE, base, items) = j
  <2>1. CASE a = << >>
    <3>1. base \o << >> = base
      BY ConcatEmptySeq
    <3> QED BY <1>2, <1>3, <2>1, <3>1 DEF Joined
  <2>2. CASE a # << >>
    BY <1>2, <1>3, <2>2 DEF Joined
  <2> QED BY <2>1, <2>2
<1> HIDE DEF x
<1>7. Placed(base) /\ IsInjective(h) /\ \A c \in ToSet(h) : c.from < r
  BY DEF Tells
<1>8. h \in Seq(C)
  BY ToolLaws
<1>9. b \in Seq(M) /\ Placed(b)
  <2>1. Placed(b)
    BY <1>1, <1>7, PlacedBehind
  <2> HIDE DEF t, M
  <2> QED BY <1>2, <2>1, ConcatProperties DEF M
<1>10. ToolCalls(b) = h \o a
  <2> HIDE DEF t
  <2> QED BY <1>2, ToolLaws
<1>11. IsInjective(h \o a) /\ h \o a \in Seq(C) /\ ToSet(h \o a) = ToSet(h) \cup ToSet(a)
  <2>1. ToSet(h) \cap ToSet(a) = {}
    <3>1. ASSUME NEW c \in ToSet(h), c \in ToSet(a) PROVE FALSE
      <4>1. c.from < r /\ c.from = r
        BY <1>7, <3>1
      <4> QED BY <4>1
    <3> QED BY <3>1
  <2> HIDE DEF h, C
  <2>2. IsInjective(h \o a)
    BY <1>1, <1>7, <1>8, <2>1, InjectiveConcat
  <2>3. h \o a \in Seq(C)
    BY <1>1, <1>8, ConcatProperties
  <2>4. ToSet(h \o a) = ToSet(h) \cup ToSet(a)
    BY <1>1, <1>8, ElementsOfConcat
  <2> QED BY <2>2, <2>3, <2>4
<1>12. ValidHistory(base \o Outputs(items))
  BY <1>2, <1>9, <1>10, <1>11, PlacedIsValid
<1> HIDE DEF b
<1>13. j \in Seq(M) /\ Placed(j)
  <2>1. Placed(j)
    <3> HIDE DEF M
    <3> QED BY <1>5, <1>9, PlacedConcat
  <2> HIDE DEF M
  <2> QED BY <1>5, <1>9, <2>1, ConcatProperties
<1>14. ToolCalls(j) = h \o a
  <2>1. ToolCalls(j) = ToolCalls(b) \o ToolCalls(x)
    BY <1>5, <1>9, ToolLaws
  <2>2. (h \o a) \o << >> = h \o a
    <3> HIDE DEF C, h
    <3> QED BY <1>11, ConcatEmptySeq
  <2> QED BY <1>5, <1>10, <2>1, <2>2
<1>15. ASSUME whole PROVE ShapeOfMessages(j) = ShapeOfItems(old \o new)
  <2>1. ShapeOfMessages(j) = ShapeOfMessages(b) \o ShapeOfMessages(x)
    BY <1>5, <1>9, ShapeLaws
  <2>2. ShapeOfMessages(b) = ShapeOfMessages(base)
    <3>1. ShapeOfMessages(b) = ShapeOfMessages(base) \o ShapeOfMessages(t)
      <4> HIDE DEF t
      <4> QED BY <1>2, ShapeLaws DEF b
    <3>2. ShapeOfMessages(base) \in Seq(C \cup { NoCall })
      BY ShapeLaws
    <3> QED BY <1>2, <3>1, <3>2, ConcatEmptySeq
  <2>3. ShapeOfMessages(base) = ShapeOfItems(old)
    BY <1>15 DEF Tells
  <2>4. ShapeOfItems(old \o new) = ShapeOfItems(old) \o ShapeOfItems(new)
    BY <1>1, ItemShapeLaws
  <2> QED BY <1>4, <2>1, <2>2, <2>3, <2>4
<1>16. ASSUME whole PROVE ToSet(h \o a) = ToSet(AnswersOf(old \o new))
  <2>1. AnswersOf(old \o new) = AnswersOf(old) \o a
    BY <1>1, AnswersLaws
  <2>2. ToSet(h) = ToSet(AnswersOf(old))
    BY <1>16 DEF Tells
  <2>3. AnswersOf(old) \in Seq(C)
    BY AnswersLaws
  <2>4. ToSet(AnswersOf(old) \o a) = ToSet(AnswersOf(old)) \cup ToSet(a)
    <3> HIDE DEF C
    <3> QED BY <1>1, <2>3, ElementsOfConcat
  <2> QED BY <1>11, <2>1, <2>2, <2>4
<1>17. \A c \in ToSet(h \o a) : c.from < n
  <2>1. ToSet(h) \subseteq C
    BY <1>8, Elements
  <2>2. \A c \in C : c.from \in Nat
    BY DEF RealCall, Call
  <2>3. ASSUME NEW c \in ToSet(h) PROVE c.from < n
    <3>1. c.from < r /\ c.from \in Nat
      BY <1>7, <2>1, <2>2
    <3> QED BY <3>1
  <2>4. ASSUME NEW c \in ToSet(a) PROVE c.from < n
    OBVIOUS
  <2> QED BY <1>11, <2>3, <2>4
<1>18. j # << >>
  <2>1. PICK i \in DOMAIN base : TRUE
    BY DEF Ends
  <2>2. base # << >>
    BY <2>1
  <2>3. b # << >>
    <3> HIDE DEF t, M
    <3> QED BY <1>2, <2>2, ConcatEqualIffEmpty DEF M, b
  <2> HIDE DEF M
  <2> QED BY <1>5, <1>9, <2>3, ConcatEqualIffEmpty
<1>19. Payload(TRUE, base, items) = j
  BY <1>6, <1>18 DEF Payload
<1>20. ValidHistory(j)
  BY <1>11, <1>13, <1>14, PlacedIsValid
<1>21. IsInjective(OutputIds(items))
  BY <1>1, OutputIdsLaws
<1>22. Acceptable(TRUE, base, items)
  BY <1>12, <1>19, <1>20, <1>21 DEF Acceptable
<1>23. Tells(j, old \o new, whole, n)
  BY <1>11, <1>13, <1>14, <1>15, <1>16, <1>17 DEF Tells
<1> QED BY <1>13, <1>19, <1>22, <1>23

(***************************************************************************)
(* The history that is stored, with the answer of the upstream, tells the  *)
(* conversation the client has then.                                       *)
(***************************************************************************)
LEMMA RecordTells ==
    ASSUME NEW ms \in Seq(Messages(RealCall)), NEW talk \in Seq(Items(RealCall)), NEW whole,
           NEW n \in Nat, Tells(ms, talk, whole, n), Fluent(talk, n),
           NEW cs \in Seq(RealCall), IsInjective(cs), \A c \in ToSet(cs) : c.from = n
    PROVE  /\ Append(ms, Assistant(cs)) \in Seq(Messages(RealCall))
           /\ Tells(Append(ms, Assistant(cs)), talk \o Reply(cs), whole, n)
           /\ Ends(Append(ms, Assistant(cs)), cs)
<1> DEFINE C == RealCall
           M == Messages(C)
           x == Assistant(cs)
           u == Append(ms, x)
<1>1. x \in Plain(C) /\ x \in M /\ << x >> \in Seq(M) /\ << x >> \in Seq(Plain(C))
  <2>1. x \in Plain(C) /\ x \in M
    BY MessageCases
  <2> HIDE DEF x, M
  <2> QED BY <2>1
<1>2. ShapeOfMessages(<< x >>) = cs /\ ToolCalls(<< x >>) = << >>
  BY MessageParts
<1>3. Ends(u, cs)
  BY EndsAppend
<1> HIDE DEF x
<1>4. u = ms \o << x >> /\ u \in Seq(M)
  BY <1>1, AppendIsConcat, AppendProperties
<1> HIDE DEF u
<1>5. Placed(u)
  <2>1. Placed(<< x >>)
    BY <1>1, PlainLaws
  <2>2. Placed(ms)
    BY DEF Tells
  <2> HIDE DEF M
  <2> QED BY <1>1, <1>4, <2>1, <2>2, PlacedConcat DEF M
<1>6. ToolCalls(u) = ToolCalls(ms)
  <2>1. ToolCalls(u) = ToolCalls(ms) \o ToolCalls(<< x >>)
    BY <1>1, <1>4, ToolLaws
  <2>2. ToolCalls(ms) \in Seq(C)
    BY ToolLaws
  <2> QED BY <1>2, <2>1, <2>2, ConcatEmptySeq
<1>7. ShapeOfMessages(u) = ShapeOfMessages(ms) \o cs
  BY <1>1, <1>2, <1>4, ShapeLaws
<1>8. /\ ToSet(AnswersOf(talk \o Reply(cs))) = ToSet(AnswersOf(talk))
      /\ ShapeOfItems(talk \o Reply(cs)) = ShapeOfItems(talk) \o cs
  BY FluentAnswered
<1>9. Tells(u, talk \o Reply(cs), whole, n)
  BY <1>5, <1>6, <1>7, <1>8 DEF Tells
<1> QED BY <1>3, <1>4, <1>9 DEF u, x

------------------------------------------------------------------------------
(***************************************************************************)
(* The steps.                                                              *)
(***************************************************************************)
\* A map with one place changed or added.
LEMMA WithLaws ==
    ASSUME NEW f, NEW x, NEW y
    PROVE  /\ DOMAIN With(f, x, y) = DOMAIN f \cup { x }
           /\ With(f, x, y)[x] = y
           /\ \A z \in DOMAIN f : z # x => With(f, x, y)[z] = f[z]
  BY DEF With

\* The calls of a response, each with an id of its own if the upstream gives them.
LEMMA NewCallsLaws ==
    ASSUME NEW n \in Nat, NEW count \in Nat
    PROVE  /\ NewCalls(n, count) \in Seq(Call)
           /\ IdsGiven => /\ NewCalls(n, count) \in Seq(RealCall)
                          /\ IsInjective(NewCalls(n, count))
                          /\ \A c \in ToSet(NewCalls(n, count)) : c.from = n
<1> DEFINE f == NewCalls(n, count)
<1>1. f = [ i \in 1 .. count |-> [ id |-> IdOf(n, i), from |-> n ] ]
  BY DEF NewCalls
<1>2. \A i \in 1 .. count : IdOf(n, i) \in Nat \X Nat
  BY DEF IdOf
<1>3. f \in [ 1 .. count -> Call ]
  BY <1>1, <1>2 DEF Call
<1>4. f \in Seq(Call)
  <2> HIDE DEF f
  <2> QED BY <1>3, FirstNumbers
<1>5. ASSUME IdsGiven
      PROVE  f \in Seq(RealCall) /\ IsInjective(f) /\ \A c \in ToSet(f) : c.from = n
  <2>1. \A i \in 1 .. count : IdOf(n, i) = << n, i >> /\ IdOf(n, i)[1] = n /\ IdOf(n, i)[2] = i
    BY <1>5 DEF IdOf
  <2>2. \A i \in 1 .. count : f[i].from = n /\ f[i].id = IdOf(n, i) /\ f[i] \in Call
    BY <1>1, <1>3
  <2> HIDE DEF f
  <2>3. f \in [ 1 .. count -> RealCall ]
    <3>1. \A i \in 1 .. count : f[i] \in RealCall
      BY <2>1, <2>2 DEF RealCall
    <3> QED BY <1>3, <3>1
  <2>4. DOMAIN f = 1 .. count
    BY <1>1
  <2>5. IsInjective(f)
    <3>1. ASSUME NEW i \in 1 .. count, NEW j \in 1 .. count, f[i] = f[j] PROVE i = j
      BY <2>1, <2>2, <3>1
    <3> QED BY <2>4, <3>1 DEF IsInjective
  <2>6. \A c \in ToSet(f) : c.from = n
    BY <2>2, <2>4 DEF ToSet
  <2> QED BY <2>3, <2>5, <2>6, FirstNumbers
<1> QED BY <1>4, <1>5

\* The parts of a request.
IdsFor(body)  == LookupIds(body.prev # NoResponse, body.items)
FoundFor(body) ==
    IF Resolves(body.prev, IdsFor(body)) THEN Previous(body.prev, IdsFor(body)) ELSE NoResponse
BaseFor(body) == IF FoundFor(body) = NoResponse THEN << >> ELSE store[FoundFor(body)].messages
Passes(body) ==
    /\ Resolves(body.prev, IdsFor(body))
    /\ Acceptable(FoundFor(body) # NoResponse, BaseFor(body), body.items)
Upstream(body) == Payload(FoundFor(body) # NoResponse, BaseFor(body), body.items)
WholeFor(r, body) == body.way = "stateless" \/ (known[r].whole /\ FoundFor(body) # NoResponse)

\* What a request does.
LEMMA AskIs ==
    ASSUME NEW r, NEW new, NEW body, Ask(r, new, body)
    PROVE  /\ sent < MaxRequests /\ sent' = sent + 1
           /\ last' = [ accepted |-> Passes(body), from |-> r, found |-> FoundFor(body), new |-> new,
                        way |-> body.way, prev |-> body.prev,
                        messages |-> IF Passes(body) THEN Upstream(body) ELSE << >>,
                        whole |-> WholeFor(r, body) ]
           /\ flights' = IF Passes(body)
                         THEN With(flights, sent + 1,
                                   [ messages |-> Upstream(body), started |-> now,
                                     talk |-> known[r].items \o new, whole |-> WholeFor(r, body) ])
                         ELSE flights
           /\ UNCHANGED << store, now, known >>
  BY Zenon DEF Ask, IdsFor, FoundFor, BaseFor, Passes, Upstream, WholeFor

\* The ways in which a client continues a response.
LEMMA Ways ==
    ASSUME NEW r, NEW new, NEW body \in Continuations(r, new)
    PROVE  \/ body.way = "stateless" /\ body.prev = NoResponse /\ body.items = known[r].items \o new
           \/ r # NoResponse /\ body.way = "chained" /\ body.prev = r /\ body.items = new
           \/ /\ r # NoResponse /\ AnswersOf(new) # << >>
              /\ \/ body.way = "repeated" /\ body.prev = r /\ body.items = Recent(known[r].items) \o new
                 \/ body.way = "bare" /\ body.prev = NoResponse /\ body.items = new
                 \/ body.way = "rewritten" /\ body.prev = Unknown /\ body.items = new
  BY DEF Continuations

\* A response that is found is stored.
LEMMA FoundIsStored ==
    ASSUME NEW body
    PROVE  FoundFor(body) \in DOMAIN store \cup { NoResponse }
<1>1. \A ids : Find(ids) \in DOMAIN store \cup { NoResponse }
  BY DEF Find
<1>2. \A ids : Previous(body.prev, ids) \in DOMAIN store \cup { NoResponse }
  BY <1>1 DEF Previous, Live
<1> QED BY <1>2 DEF FoundFor

(***************************************************************************)
(* The messages are messages, for a set C of calls.                        *)
(***************************************************************************)
Typed(C) ==
    /\ now \in Nat /\ sent \in Nat
    /\ \A r \in DOMAIN store : store[r].messages \in Seq(Messages(C))
    /\ \A n \in DOMAIN flights :
         /\ flights[n].messages \in Seq(Messages(C))
         /\ flights[n].talk \in Seq(Items(C))
    /\ \A r \in DOMAIN known :
         /\ known[r].items \in Seq(Items(C))
         /\ known[r].calls \in Seq(C)

\* What a request sends is of the right type.
LEMMA AskTyped ==
    ASSUME NEW C, Typed(C), NEW r \in DOMAIN known, NEW new \in News(r), NEW body \in Continuations(r, new)
    PROVE  /\ known[r].items \o new \in Seq(Items(C)) /\ body.items \in Seq(Items(C))
           /\ Upstream(body) \in Seq(Messages(C))
<1>1. known[r].items \in Seq(Items(C)) /\ known[r].calls \in Seq(C)
  BY DEF Typed
<1>2. new \in Seq(Items(C))
  <2>1. \E a \in Seq(C), tail \in Seq(Items(C)) : Brings(C, new, a, tail)
    BY <1>1, NewsLaws
  <2> QED BY <2>1 DEF Brings
<1>3. Recent(known[r].items) \in Seq(Items(C))
  <2> DEFINE S == Items(C)
  <2> HIDE DEF S
  <2>1. known[r].items \in Seq(S)
    BY <1>1 DEF S
  <2>2. Recent(known[r].items) \in Seq(S)
    BY <2>1, RecentType
  <2> QED BY <2>2 DEF S
<1>4. known[r].items \o new \in Seq(Items(C)) /\ Recent(known[r].items) \o new \in Seq(Items(C))
  BY <1>1, <1>2, <1>3, ConcatProperties
<1>5. body.items \in Seq(Items(C))
  <2>1. body.items \in { known[r].items \o new, new, Recent(known[r].items) \o new }
    BY Ways
  <2> QED BY <1>2, <1>4, <2>1
<1>6. BaseFor(body) \in Seq(Messages(C))
  <2>1. << >> \in Seq(Messages(C))
    OBVIOUS
  <2>2. FoundFor(body) \in DOMAIN store => store[FoundFor(body)].messages \in Seq(Messages(C))
    BY DEF Typed
  <2> QED BY <2>1, <2>2, FoundIsStored DEF BaseFor
<1>7. Upstream(body) \in Seq(Messages(C))
  <2>1. (FoundFor(body) # NoResponse) \in BOOLEAN
    OBVIOUS
  <2> QED BY <1>5, <1>6, <2>1, PayloadType DEF Upstream
<1> QED BY <1>4, <1>5, <1>7

\* Messages have one of three roles.
LEMMA Roles ==
    ASSUME NEW C, NEW ms \in Seq(Messages(C))
    PROVE  \A m \in ToSet(ms) : m.role \in { "user", "assistant", "tool" }
<1>1. ToSet(ms) \subseteq Messages(C)
  BY Elements
<1> QED BY <1>1 DEF Messages

\* Every step keeps the types.
LEMMA TypedStep ==
    ASSUME NEW C, \A n, count \in Nat : NewCalls(n, count) \in Seq(C), TypeOK, Typed(C), [Next]_vars
    PROVE  TypeOK' /\ Typed(C)'
<1>1. /\ now \in 0 .. MaxTime /\ sent \in 0 .. MaxRequests /\ now \in Nat /\ sent \in Nat
      /\ DOMAIN store \subseteq 1 .. sent /\ DOMAIN flights \subseteq (1 .. sent) \ DOMAIN store
      /\ DOMAIN known \subseteq DOMAIN store \cup { NoResponse }
      /\ \A r \in DOMAIN store : store[r].created \in 0 .. now
      /\ \A n \in DOMAIN flights : flights[n].started \in 0 .. now
  BY BoundsAssumption DEF TypeOK
<1>2. /\ \A r \in DOMAIN store : store[r].messages \in Seq(Messages(C))
      /\ \A n \in DOMAIN flights :
           flights[n].messages \in Seq(Messages(C)) /\ flights[n].talk \in Seq(Items(C))
      /\ \A r \in DOMAIN known : known[r].items \in Seq(Items(C)) /\ known[r].calls \in Seq(C)
  BY DEF Typed
<1>3. MaxTime \in Nat /\ MaxRequests \in Nat /\ MaxCalls \in Nat
  BY BoundsAssumption
<1>4. ASSUME UNCHANGED store, UNCHANGED known, now' \in 0 .. MaxTime, now' >= now,
             sent' \in 0 .. MaxRequests, sent' >= sent,
             DOMAIN flights' \subseteq (1 .. sent') \ DOMAIN store,
             \A n \in DOMAIN flights' : /\ flights'[n].started \in 0 .. now'
                                        /\ flights'[n].messages \in Seq(Messages(C))
                                        /\ flights'[n].talk \in Seq(Items(C))
      PROVE  TypeOK' /\ Typed(C)'
  <2>1. \A x \in 0 .. now : x \in 0 .. now'
    BY <1>1, <1>3, <1>4
  <2>2. \A x \in 1 .. sent : x \in 1 .. sent'
    BY <1>1, <1>3, <1>4
  <2>3. now' \in Nat /\ sent' \in Nat
    BY <1>3, <1>4
  <2>4. \A r \in DOMAIN store : \A m \in ToSet(store[r].messages) : m.role \in { "user", "assistant", "tool" }
    BY <1>2, Roles
  <2>5. Typed(C)'
    BY <1>2, <1>4, <2>3 DEF Typed
  <2>6. TypeOK'
    BY <1>1, <1>4, <2>1, <2>2, <2>4 DEF TypeOK
  <2> QED BY <2>5, <2>6
<1>5. CASE Request
  <2>a. PICK r \in DOMAIN known : \E new \in News(r) : \E body \in Continuations(r, new) : Ask(r, new, body)
    BY <1>5 DEF Request
  <2>b. PICK new \in News(r) : \E body \in Continuations(r, new) : Ask(r, new, body)
    BY <2>a
  <2>1. PICK body \in Continuations(r, new) : Ask(r, new, body)
    BY <2>b
  <2> DEFINE w == [ messages |-> Upstream(body), started |-> now,
                    talk |-> known[r].items \o new, whole |-> WholeFor(r, body) ]
  <2>2. /\ sent < MaxRequests /\ sent' = sent + 1 /\ UNCHANGED store /\ UNCHANGED now /\ UNCHANGED known
        /\ flights' = IF Passes(body) THEN With(flights, sent + 1, w) ELSE flights
    BY <2>1, AskIs
  <2>3. known[r].items \o new \in Seq(Items(C)) /\ Upstream(body) \in Seq(Messages(C))
    BY <2>1, AskTyped
  <2>4. w.messages \in Seq(Messages(C)) /\ w.started = now /\ w.talk \in Seq(Items(C))
    BY <2>3
  <2> HIDE DEF w
  <2>5. DOMAIN flights' \subseteq DOMAIN flights \cup { sent + 1 }
    BY <2>2, WithLaws
  <2>6. sent' \in 0 .. MaxRequests /\ sent' >= sent /\ now' \in 0 .. MaxTime /\ now' >= now
    BY <1>1, <1>3, <2>2
  <2>7. \A n \in DOMAIN flights' : (n \in DOMAIN flights /\ flights'[n] = flights[n]) \/ (n = sent + 1 /\ flights'[n] = w)
    <3>1. CASE flights' = flights
      BY <3>1
    <3>2. CASE flights' = With(flights, sent + 1, w)
      BY <3>2 DEF With
    <3> QED BY <2>2, <3>1, <3>2
  <2>8. DOMAIN flights' \subseteq (1 .. sent') \ DOMAIN store
    <3>1. \A n \in DOMAIN flights : n \in 1 .. sent + 1
      BY <1>1
    <3>2. sent + 1 \in 1 .. sent + 1 /\ sent + 1 \notin 1 .. sent
      <4>1. sent \in Nat
        BY <1>1
      <4> QED BY <4>1
    <3> QED BY <1>1, <2>2, <2>5, <3>1, <3>2
  <2>9. ASSUME NEW n \in DOMAIN flights'
        PROVE  /\ flights'[n].started \in 0 .. now' /\ flights'[n].messages \in Seq(Messages(C))
               /\ flights'[n].talk \in Seq(Items(C))
    <3>1. CASE n \in DOMAIN flights /\ flights'[n] = flights[n]
      BY <1>1, <1>2, <2>2, <3>1
    <3>2. CASE flights'[n] = w
      <4>1. now \in 0 .. now /\ now' = now
        BY <1>1, <2>2
      <4> QED BY <2>4, <3>2, <4>1
    <3> QED BY <2>7, <3>1, <3>2
  <2> QED BY <1>4, <2>2, <2>6, <2>8, <2>9
<1>6. CASE Respond
  <2>1. PICK n \in DOMAIN flights, count \in 0 .. MaxCalls : Answered(n, NewCalls(n, count))
    BY <1>6 DEF Respond
  <2> DEFINE cs == NewCalls(n, count)
  <2>2. PICK created \in Created(n) : store' = With(store, n, Record(n, cs, created))
    BY <2>1 DEF Answered
  <2>3. n \in 1 .. sent /\ n \notin DOMAIN store /\ cs \in Seq(C)
    <3>1. n \in 1 .. sent /\ n \notin DOMAIN store
      BY <1>1
    <3>2. n \in Nat /\ count \in Nat
      BY <1>3, <3>1
    <3> QED BY <3>1, <3>2
  <2>4. /\ now' = now /\ sent' = sent
        /\ flights' = [ k \in DOMAIN flights \ { n } |-> flights[k] ]
        /\ \/ known' = With(known, n, [ items |-> flights[n].talk \o Reply(cs), calls |-> cs,
                                        whole |-> flights[n].whole ])
           \/ known' = known
    BY <2>1 DEF Answered, Drop
  <2> HIDE DEF cs
  <2> DEFINE x == Record(n, cs, created)
             k == [ items |-> flights[n].talk \o Reply(cs), calls |-> cs, whole |-> flights[n].whole ]
  <2>5. x.created \in 0 .. now /\ x.messages \in Seq(Messages(C))
    <3>1. created \in 0 .. now
      <4>1. created \in { flights[n].started, now }
        BY <2>2 DEF Created
      <4>2. flights[n].started \in 0 .. now /\ now \in 0 .. now
        BY <1>1
      <4> QED BY <4>1, <4>2
    <3>2. Append(flights[n].messages, Assistant(cs)) \in Seq(Messages(C))
      <4>1. Assistant(cs) \in Messages(C) /\ flights[n].messages \in Seq(Messages(C))
        BY <1>2, <2>3, MessageCases
      <4> QED BY <4>1, AppendProperties
    <3> QED BY <3>1, <3>2 DEF Record
  <2>6. k.items \in Seq(Items(C)) /\ k.calls \in Seq(C)
    <3>1. Reply(cs) \in Seq(Items(C)) /\ flights[n].talk \in Seq(Items(C))
      BY <1>2, <2>3, ReplyLaws
    <3>2. flights[n].talk \o Reply(cs) \in Seq(Items(C))
      BY <3>1, ConcatProperties
    <3> QED BY <2>3, <3>2
  <2>7. known' = With(known, n, k) \/ known' = known
    BY <2>4
  <2>8. store' = With(store, n, x)
    BY <2>2
  <2> HIDE DEF x, k
  <2>9. /\ DOMAIN store' = DOMAIN store \cup { n }
        /\ \A z \in DOMAIN store' : (z \in DOMAIN store /\ store'[z] = store[z]) \/ (z = n /\ store'[z] = x)
    <3>1. DOMAIN store' = DOMAIN store \cup { n }
      BY <2>8, WithLaws
    <3>2. \A z \in DOMAIN store' : (z \in DOMAIN store /\ store'[z] = store[z]) \/ (z = n /\ store'[z] = x)
      BY <2>8 DEF With
    <3> QED BY <3>1, <3>2
  <2>10. /\ DOMAIN known' \subseteq DOMAIN known \cup { n }
         /\ \A z \in DOMAIN known' : (z \in DOMAIN known /\ known'[z] = known[z]) \/ (z = n /\ known'[z] = k)
    <3>1. CASE known' = known
      BY <3>1
    <3>2. CASE known' = With(known, n, k)
      BY <3>2 DEF With
    <3> QED BY <2>7, <3>1, <3>2
  <2>11. DOMAIN flights' = DOMAIN flights \ { n } /\ \A z \in DOMAIN flights' : flights'[z] = flights[z]
    BY <2>4
  <2>12. \A z \in DOMAIN store' : store'[z].created \in 0 .. now /\ store'[z].messages \in Seq(Messages(C))
    BY <1>1, <1>2, <2>5, <2>9
  <2>13. \A z \in DOMAIN known' : known'[z].items \in Seq(Items(C)) /\ known'[z].calls \in Seq(C)
    BY <1>2, <2>6, <2>10
  <2>14. \A z \in DOMAIN flights' :
           /\ flights'[z].started \in 0 .. now /\ flights'[z].messages \in Seq(Messages(C))
           /\ flights'[z].talk \in Seq(Items(C))
    BY <1>1, <1>2, <2>11
  <2>15. Typed(C)'
    BY <1>1, <2>4, <2>12, <2>13, <2>14 DEF Typed
  <2>16. \A z \in DOMAIN store' : \A y \in ToSet(store'[z].messages) : y.role \in { "user", "assistant", "tool" }
    BY <2>12, Roles
  <2>17. /\ DOMAIN store' \subseteq 1 .. sent /\ DOMAIN flights' \subseteq (1 .. sent) \ DOMAIN store'
         /\ DOMAIN known' \subseteq DOMAIN store' \cup { NoResponse }
    BY <1>1, <2>3, <2>9, <2>10, <2>11
  <2>18. TypeOK'
    BY <1>1, <2>4, <2>12, <2>14, <2>16, <2>17 DEF TypeOK
  <2> QED BY <2>15, <2>18
<1>7. CASE Fail
  <2>1. PICK n \in DOMAIN flights : flights' = [ k \in DOMAIN flights \ { n } |-> flights[k] ]
    BY <1>7 DEF Fail, Drop
  <2>2. now' = now /\ sent' = sent /\ UNCHANGED store /\ UNCHANGED known
    BY <1>7 DEF Fail
  <2>3. DOMAIN flights' \subseteq DOMAIN flights /\ \A z \in DOMAIN flights' : flights'[z] = flights[z]
    BY <2>1
  <2>4. now' \in 0 .. MaxTime /\ now' >= now /\ sent' \in 0 .. MaxRequests /\ sent' >= sent
    BY <1>1, <2>2
  <2> QED BY <1>1, <1>2, <1>4, <2>2, <2>3, <2>4
<1>8. CASE Restart
  <2>1. flights' = << >> /\ now' = now /\ sent' = sent /\ UNCHANGED store /\ UNCHANGED known
    BY <1>8 DEF Restart
  <2>2. DOMAIN flights' = {}
    BY <2>1
  <2>3. now' \in 0 .. MaxTime /\ now' >= now /\ sent' \in 0 .. MaxRequests /\ sent' >= sent
    BY <1>1, <2>1
  <2> QED BY <1>4, <2>1, <2>2, <2>3
<1>9. CASE Tick
  <2>1. now < MaxTime /\ now' = now + 1 /\ sent' = sent /\ UNCHANGED store /\ UNCHANGED known /\ UNCHANGED flights
    BY <1>9 DEF Tick
  <2>2. now' \in 0 .. MaxTime /\ now' >= now /\ sent' \in 0 .. MaxRequests /\ sent' >= sent
    BY <1>1, <1>3, <2>1
  <2>3. \A x \in 0 .. now : x \in 0 .. now'
    BY <1>1, <2>1
  <2> QED BY <1>1, <1>2, <1>4, <2>1, <2>2, <2>3
<1>10. CASE UNCHANGED vars
  <2>1. now' = now /\ sent' = sent /\ UNCHANGED store /\ UNCHANGED known /\ UNCHANGED flights
    BY <1>10 DEF vars
  <2>2. now' \in 0 .. MaxTime /\ now' >= now /\ sent' \in 0 .. MaxRequests /\ sent' >= sent
    BY <1>1, <2>1
  <2> QED BY <1>1, <1>2, <1>4, <2>1, <2>2
<1> QED BY <1>5, <1>6, <1>7, <1>8, <1>9, <1>10 DEF Next

\* The types at the start.
LEMMA TypedStart ==
    ASSUME NEW C, Init
    PROVE  TypeOK /\ Typed(C)
<1>1. DOMAIN store = {} /\ DOMAIN flights = {} /\ DOMAIN known = { NoResponse } /\ known[NoResponse] = Nothing
  BY DEF Init
<1>2. now = 0 /\ sent = 0 /\ MaxTime \in Nat /\ MaxRequests \in Nat
  BY BoundsAssumption DEF Init
<1>3. Nothing.items \in Seq(Items(C)) /\ Nothing.calls \in Seq(C)
  <2>1. << >> \in Seq(Items(C)) /\ << >> \in Seq(C)
    OBVIOUS
  <2> QED BY <2>1 DEF Nothing
<1>4. 0 \in 0 .. MaxTime /\ 0 \in 0 .. MaxRequests
  BY <1>2
<1>5. TypeOK
  BY <1>1, <1>2, <1>4 DEF TypeOK
<1> QED BY <1>1, <1>2, <1>3, <1>5 DEF Typed

(***************************************************************************)
(* The store and the requests in flight are as TypeOK says: a response is  *)
(* stored once, under the number of a request that was sent and is no      *)
(* longer in flight, and the client knows stored responses only.           *)
(***************************************************************************)
THEOREM TypeCorrect == Spec => []TypeOK
<1>1. \A n, count \in Nat : NewCalls(n, count) \in Seq(Call)
  BY NewCallsLaws
<1>2. Init => TypeOK /\ Typed(Call)
  BY TypedStart
<1>3. TypeOK /\ Typed(Call) /\ [Next]_vars => TypeOK' /\ Typed(Call)'
  BY <1>1, TypedStep
<1> QED BY <1>2, <1>3, PTL DEF Spec

(***************************************************************************)
(* The invariant, of the upstream that gives the ids.                      *)
(***************************************************************************)
\* What the client has of response r, and what is stored of it.
KnownAt(r) ==
    /\ Fluent(known[r].items, r + 1)
    /\ EndsWith(known[r].items, known[r].calls)
    /\ \A c \in ToSet(known[r].calls) : c.from = r
    /\ \A c \in ToSet(AnswersOf(known[r].items)) : c.from < r
    /\ store[r].pending = { c.id : c \in ToSet(known[r].calls) }
    /\ Tells(store[r].messages, known[r].items, known[r].whole, r)
    /\ Ends(store[r].messages, known[r].calls)

\* What request n was sent upstream with.
FlightAt(n) ==
    /\ Fluent(flights[n].talk, n)
    /\ Tells(flights[n].messages, flights[n].talk, flights[n].whole, n)

\* An id tells the response that made the call.
OwnIds == \A r \in DOMAIN store : \A id \in store[r].pending : id[1] = r

\* The inductive invariant.
HInv ==
    /\ TypeOK /\ Typed(RealCall)
    /\ NoResponse \in DOMAIN known /\ known[NoResponse] = Nothing
    /\ OwnIds
    /\ \A r \in DOMAIN known \ { NoResponse } : KnownAt(r)
    /\ \A n \in DOMAIN flights : FlightAt(n)
    /\ last.from \in DOMAIN known
    /\ SameConversation /\ OutputsFollowCalls /\ ContinuationsAccepted /\ FallbackLinksRight

\* The calls of a response are in the conversation up to it.
LEMMA KnownCalls ==
    ASSUME NEW C, NEW items \in Seq(Items(C)), NEW cs \in Seq(C), EndsWith(items, cs)
    PROVE  ToSet(cs) \subseteq ToSet(CallsOf(items))
<1> DEFINE t == Reply(cs)
<1>1. PICK front \in Seq(Items(C)) : items = front \o t
  BY EndsWithFront
<1>2. t \in Seq(Items(C)) /\ CallsOf(t) = cs
  BY ReplyLaws
<1> HIDE DEF t
<1>3. CallsOf(items) = CallsOf(front) \o cs /\ CallsOf(front) \in Seq(C)
  BY <1>1, <1>2, CallsLaws
<1> DEFINE f == CallsOf(front)
<1>4. f \in Seq(C)
  BY <1>3
<1> HIDE DEF f
<1>5. ToSet(f \o cs) = ToSet(f) \cup ToSet(cs)
  BY <1>4, ElementsOfConcat
<1> QED BY <1>3, <1>5 DEF f

\* The fallback finds the response whose calls are answered, if that is live.
LEMMA FindLaws ==
    ASSUME OwnIds, NEW ids, NEW id \in ToSet(ids), NEW r, \A x \in ToSet(ids) : x[1] = r,
           Live(r) => ToSet(ids) \subseteq store[r].pending
    PROVE  Find(ids) = IF Live(r) THEN r ELSE NoResponse
<1> DEFINE A(S) == { q \in DOMAIN store : Live(q) /\ S \cap store[q].pending # {} }
           all == { q \in A(ToSet(ids)) : ToSet(ids) \subseteq store[q].pending }
<1>1. Find(ids) = IF /\ \A x \in ToSet(ids) : Cardinality(A({ x })) = 1
                     /\ all # {}
                  THEN CHOOSE q \in all : TRUE
                  ELSE NoResponse
  BY DEF Find
<1>2. ASSUME NEW q \in DOMAIN store, NEW x \in ToSet(ids), x \in store[q].pending PROVE q = r
  BY <1>2 DEF OwnIds
<1>3. CASE Live(r)
  <2>1. r \in DOMAIN store /\ ToSet(ids) \subseteq store[r].pending
    BY <1>3 DEF Live
  <2>2. ASSUME NEW x \in ToSet(ids) PROVE A({ x }) = { r }
    <3>1. \A q \in A({ x }) : q = r
      BY <1>2
    <3>2. r \in A({ x })
      BY <1>3, <2>1
    <3> QED BY <3>1, <3>2
  <2>3. Cardinality({ r }) = 1
    BY FS_Singleton
  <2>4. all = { r }
    <3>1. \A q \in all : q = r
      BY <1>2
    <3>2. r \in all
      BY <1>3, <2>1
    <3> QED BY <3>1, <3>2
  <2>5. (CHOOSE q \in { r } : TRUE) = r
    OBVIOUS
  <2> HIDE DEF A, all
  <2> QED BY <1>1, <1>3, <2>2, <2>3, <2>4, <2>5
<1>4. CASE ~Live(r)
  <2>1. A({ id }) = {}
    <3>1. \A q \in A({ id }) : FALSE
      BY <1>2, <1>4
    <3> QED BY <3>1
  <2>2. Cardinality({}) = 0
    BY FS_EmptySet
  <2> HIDE DEF A, all
  <2>3. Cardinality(A({ id })) # 1
    BY <2>1, <2>2
  <2> QED BY <1>1, <1>4, <2>3
<1> QED BY <1>3, <1>4

(***************************************************************************)
(* A request that relies on the store, as a whole: it sends the outputs of *)
(* a, and what it sends besides is what is new or repeats the calls of a.  *)
(***************************************************************************)
LEMMA Relies ==
    ASSUME NEW r \in DOMAIN known, r # NoResponse, Typed(RealCall), KnownAt(r),
           NEW new, NEW a, NEW tail, Brings(RealCall, new, a, tail), ToSet(a) \subseteq ToSet(known[r].calls),
           NEW body \in Continuations(r, new), body.way # "stateless"
    PROVE  /\ body.items \in Seq(Items(RealCall)) /\ AnswersOf(body.items) = a
           /\ a # << >> => ShapeOfMessages(Additions(body.items)) = ShapeOfItems(new)
           /\ a = << >> => body.items = new /\ body.prev = r
           /\ IdsFor(body) = OutputIds(body.items)
           /\ IF body.way = "rewritten" THEN body.prev = Unknown ELSE body.prev \in { r, NoResponse }
<1> DEFINE C == RealCall
           q == Recent(known[r].items)
<1>1. /\ new \in Seq(Items(C)) /\ AnswersOf(new) = a /\ CallsOf(new) = << >>
      /\ known[r].items \in Seq(Items(C)) /\ known[r].calls \in Seq(C) /\ EndsWith(known[r].items, known[r].calls)
  BY DEF Brings, Typed, KnownAt
<1>2. /\ q \in Seq(Items(C)) /\ AnswersOf(q) = << >>
      /\ \A c \in ToSet(a) : \E i \in DOMAIN q : q[i] = Made(c)
  <2>1. /\ q \in Seq(Items(C)) /\ AnswersOf(q) = << >>
        /\ \A c \in ToSet(known[r].calls) : \E i \in DOMAIN q : q[i] = Made(c)
    BY <1>1, RecentLaws
  <2> QED BY <2>1
<1> HIDE DEF q
<1>3. << >> \in Seq(Items(C)) /\ AnswersOf(<< >>) = << >> /\ << >> \o new = new
  BY <1>1, AnswersLaws, ConcatEmptySeq
<1>4. ASSUME a # << >>
      PROVE  /\ q \o new \in Seq(Items(C)) /\ AnswersOf(q \o new) = a
             /\ ShapeOfMessages(Additions(q \o new)) = ShapeOfItems(new)
  BY <1>2, <1>4, AdditionsTell
<1>5. ASSUME a # << >> PROVE ShapeOfMessages(Additions(new)) = ShapeOfItems(new)
  <2>1. ShapeOfMessages(Additions(<< >> \o new)) = ShapeOfItems(new)
    BY <1>3, <1>5, AdditionsTell
  <2> QED BY <1>3, <2>1
<1>6. ASSUME a # << >> PROVE LookupIds(FALSE, new) = OutputIds(new)
  <2>1. OutputIds(new) # << >> /\ ToSet(OutputIds(new)) = { c.id : c \in ToSet(a) }
    BY <1>1, <1>6, OutputIdsLaws
  <2>2. CallIds(new) = {}
    <3>1. ToSet(<< >>) = {}
      BY DEF ToSet
    <3> QED BY <1>1, <3>1 DEF CallIds
  <2>3. ToSet(a) # {}
    <3>1. a \in Seq(C)
      BY DEF Brings
    <3>2. 1 \in DOMAIN a
      BY <1>6, <3>1, EmptySeq
    <3> QED BY <3>2 DEF ToSet
  <2> QED BY <2>1, <2>2, <2>3 DEF LookupIds
<1>7. \A items : LookupIds(TRUE, items) = OutputIds(items)
  BY DEF LookupIds
<1>8. Unknown # NoResponse
  BY DEF Unknown, NoResponse
<1>9. CASE body.way = "chained" /\ body.prev = r /\ body.items = new
  BY <1>1, <1>5, <1>7, <1>9 DEF IdsFor
<1>10. CASE a # << >> /\ body.way = "repeated" /\ body.prev = r /\ body.items = q \o new
  BY <1>4, <1>7, <1>10 DEF IdsFor
<1>11. CASE a # << >> /\ body.way = "bare" /\ body.prev = NoResponse /\ body.items = new
  BY <1>1, <1>5, <1>6, <1>11 DEF IdsFor
<1>12. CASE a # << >> /\ body.way = "rewritten" /\ body.prev = Unknown /\ body.items = new
  BY <1>1, <1>5, <1>7, <1>8, <1>12 DEF IdsFor
<1> QED BY <1>1, <1>9, <1>10, <1>11, <1>12, Ways, SMTT(30) DEF q

\* It is resolved to r if that is live; otherwise it is refused if there are outputs.
LEMMA ResolvesTo ==
    ASSUME NEW r \in DOMAIN known, r # NoResponse, Typed(RealCall), OwnIds, Unknown \notin DOMAIN store, KnownAt(r),
           NEW items \in Seq(Items(RealCall)), NEW a, AnswersOf(items) = a, IsInjective(a),
           ToSet(a) \subseteq ToSet(known[r].calls),
           NEW prev \in { r, NoResponse, Unknown }, a = << >> => prev = r
    PROVE  /\ Live(r) /\ prev # Unknown =>
                 Resolves(prev, OutputIds(items)) /\ Previous(prev, OutputIds(items)) = r
           /\ a # << >> /\ (prev = Unknown \/ ~Live(r)) => ~Resolves(prev, OutputIds(items))
           /\ a = << >> /\ ~Live(r) =>
                 Resolves(prev, OutputIds(items)) /\ Previous(prev, OutputIds(items)) = NoResponse
<1> DEFINE ids == OutputIds(items)
<1>1. /\ ToSet(ids) = { c.id : c \in ToSet(a) } /\ IsInjective(ids)
      /\ ids = << >> <=> a = << >>
  BY OutputIdsLaws
<1>2. known[r].calls \in Seq(RealCall) /\ ToSet(known[r].calls) \subseteq RealCall
  <2>1. known[r].calls \in Seq(RealCall)
    BY DEF Typed
  <2> QED BY <2>1, Elements
<1> HIDE DEF ids
<1>3. ToSet(ids) \subseteq store[r].pending
  BY <1>1 DEF KnownAt
<1>4. \A x \in ToSet(ids) : x[1] = r
  <2>1. \A c \in ToSet(a) : c.from = r /\ c \in RealCall
    BY <1>2 DEF KnownAt
  <2>2. \A c \in RealCall : c.id[1] = c.from
    BY DEF RealCall
  <2> QED BY <1>1, <2>1, <2>2
<1>5. ASSUME a # << >> PROVE Find(ids) = IF Live(r) THEN r ELSE NoResponse
  <2>1. ToSet(a) # {}
    <3>1. a \in Seq(RealCall)
      BY AnswersLaws
    <3>2. 1 \in DOMAIN a
      BY <1>5, <3>1, EmptySeq
    <3> QED BY <3>2 DEF ToSet
  <2>2. PICK id \in ToSet(ids) : TRUE
    BY <1>1, <2>1
  <2> QED BY <1>3, <1>4, <2>2, FindLaws
<1>6. ~Live(Unknown)
  BY DEF Live
<1>7. ASSUME Live(r), prev # Unknown PROVE Resolves(prev, ids) /\ Previous(prev, ids) = r
  <2>1. Previous(prev, ids) = r
    <3>1. CASE prev = r
      BY <1>7, <3>1 DEF Previous
    <3>2. CASE prev = NoResponse /\ prev # r
      BY <1>1, <1>5, <1>7, <3>2 DEF Previous
    <3> QED BY <1>7, <3>1, <3>2
  <2> QED BY <1>1, <1>3, <2>1 DEF Resolves
<1>8. ASSUME a # << >>, prev = Unknown \/ ~Live(r) PROVE ~Resolves(prev, ids)
  <2>1. Previous(prev, ids) = NoResponse
    <3>1. CASE prev = Unknown
      BY <1>6, <3>1 DEF Previous, Unknown, NoResponse
    <3>2. CASE prev = r /\ ~Live(r)
      BY <3>2 DEF Previous
    <3>3. CASE prev = NoResponse /\ ~Live(r)
      BY <1>1, <1>5, <1>8, <3>3 DEF Previous
    <3> QED BY <1>8, <3>1, <3>2, <3>3
  <2> QED BY <1>1, <1>8, <2>1 DEF Resolves
<1>9. ASSUME a = << >>, ~Live(r) PROVE Resolves(prev, ids) /\ Previous(prev, ids) = NoResponse
  BY <1>1, <1>9 DEF Resolves, Previous
<1> QED BY <1>7, <1>8, <1>9 DEF ids

\* A history that tells a conversation tells it also to one who knows less of it.
LEMMA TellsLess ==
    ASSUME NEW ms, NEW talk, NEW w, NEW n, Tells(ms, talk, w, n), NEW v, v => w
    PROVE  Tells(ms, talk, v, n)
  BY DEF Tells

(***************************************************************************)
(* Whatever the client sends is taken up if it may be, and sent upstream   *)
(* with messages that tell the conversation.                               *)
(***************************************************************************)
LEMMA AskSafe ==
    ASSUME HInv, NEW r \in DOMAIN known, NEW new \in News(r), NEW body \in Continuations(r, new)
    PROVE  /\ known[r].items \o new \in Seq(Items(RealCall))
           /\ Fluent(known[r].items \o new, sent + 1)
           /\ Upstream(body) \in Seq(Messages(RealCall))
           /\ Passes(body) =>
                Tells(Upstream(body), known[r].items \o new, WholeFor(r, body), sent + 1)
           /\ \/ Passes(body)
              \/ body.way = "rewritten"
              \/ body.way # "stateless" /\ ~Live(r)
           /\ Passes(body) /\ body.way = "bare" => FoundFor(body) = r
<1> DEFINE C == RealCall
           old == known[r].items
           cs == known[r].calls
           talk == old \o new
           n == sent + 1
<1>1. /\ TypeOK /\ Typed(C) /\ OwnIds /\ (r # NoResponse => KnownAt(r))
      /\ old \in Seq(Items(C)) /\ cs \in Seq(C)
  BY DEF HInv, Typed
<1>2. /\ talk \in Seq(Items(C)) /\ body.items \in Seq(Items(C)) /\ Upstream(body) \in Seq(Messages(C))
  BY <1>1, AskTyped
<1>3. /\ r \in Nat /\ n \in Nat /\ r < n /\ Unknown \notin DOMAIN store /\ NoResponse \notin DOMAIN store
      /\ (r # NoResponse => r \in DOMAIN store) /\ Unknown # r /\ Unknown # NoResponse
  <2>1. /\ sent \in Nat /\ DOMAIN store \subseteq 1 .. sent
        /\ DOMAIN known \subseteq DOMAIN store \cup { NoResponse }
    BY <1>1, BoundsAssumption DEF TypeOK
  <2> QED BY <2>1 DEF NoResponse, Unknown
<1>4. PICK a \in Seq(C), tail \in Seq(Items(C)) : Brings(C, new, a, tail) /\ ToSet(a) \subseteq ToSet(cs)
  BY <1>1, NewsLaws
<1>5. IsInjective(a) /\ AnswersOf(new) = a /\ new \in Seq(Items(C))
  BY <1>4 DEF Brings
<1>6. ASSUME r = NoResponse PROVE Fluent(talk, n)
  <2>1. old = << >> /\ cs = << >>
    BY <1>6 DEF HInv, Nothing
  <2>2. a = << >>
    <3>1. ToSet(cs) = {}
      BY <2>1 DEF ToSet
    <3>2. ToSet(a) = {}
      BY <1>4, <3>1
    <3>3. a # << >> => 1 \in DOMAIN a
      BY EmptySeq
    <3> QED BY <3>2, <3>3 DEF ToSet
  <2>3. talk = new
    BY <1>5, <2>1, ConcatEmptySeq
  <2> QED BY <1>3, <1>4, <2>2, <2>3, FluentStarts
<1>7. ASSUME r # NoResponse PROVE Fluent(talk, n)
  <2>1. /\ Fluent(old, r + 1) /\ \A c \in ToSet(AnswersOf(old)) : c.from < r
        /\ \A c \in ToSet(cs) : c.from = r
        /\ EndsWith(old, cs)
    BY <1>1, <1>7 DEF KnownAt
  <2>2. ToSet(a) \subseteq ToSet(CallsOf(old))
    BY <1>1, <1>4, <2>1, KnownCalls
  <2>3. \A c \in ToSet(a) : c.from = r
    BY <1>4, <2>1
  <2> HIDE DEF old, n
  <2> QED BY <1>1, <1>3, <1>4, <2>1, <2>2, <2>3, FluentGrows
<1>8. Fluent(talk, n)
  BY <1>6, <1>7
<1> HIDE DEF n
<1>9. CASE body.way = "stateless"
  <2>1. body.prev = NoResponse /\ body.items = talk
    BY <1>9, Ways
  <2> HIDE DEF talk
  <2>2. /\ LookupIds(FALSE, talk) = << >> /\ Acceptable(FALSE, << >>, talk)
        /\ Tells(Payload(FALSE, << >>, talk), talk, TRUE, n)
    BY <1>2, <1>3, <1>8, StatelessTells
  <2>3. IdsFor(body) = << >>
    <3>1. (body.prev # NoResponse) = FALSE
      BY <2>1
    <3> QED BY <2>1, <2>2, <3>1 DEF IdsFor
  <2>4. Resolves(body.prev, << >>) /\ Previous(body.prev, << >>) = NoResponse
    <3>1. IsInjective(<< >>)
      BY DEF IsInjective
    <3> QED BY <2>1, <3>1 DEF Resolves, Previous
  <2>5. FoundFor(body) = NoResponse /\ BaseFor(body) = << >> /\ (FoundFor(body) # NoResponse) = FALSE
    BY <2>3, <2>4 DEF FoundFor, BaseFor
  <2>6. Passes(body)
    BY <2>1, <2>2, <2>3, <2>4, <2>5 DEF Passes
  <2>7. Upstream(body) = Payload(FALSE, << >>, talk)
    BY <2>1, <2>5 DEF Upstream
  <2>8. Tells(Upstream(body), talk, WholeFor(r, body), n)
    <3>1. WholeFor(r, body) => TRUE
      OBVIOUS
    <3> QED BY <2>2, <2>7, <3>1, TellsLess
  <2> QED BY <1>2, <1>8, <1>9, <2>6, <2>8 DEF n, talk
<1>10. CASE body.way # "stateless"
  <2> HIDE DEF talk
  <2>1. r # NoResponse /\ KnownAt(r)
    BY <1>1, <1>10, Ways
  <2>2. /\ body.items \in Seq(Items(C)) /\ AnswersOf(body.items) = a
        /\ a # << >> => ShapeOfMessages(Additions(body.items)) = ShapeOfItems(new)
        /\ a = << >> => body.items = new /\ body.prev = r
        /\ IdsFor(body) = OutputIds(body.items)
        /\ IF body.way = "rewritten" THEN body.prev = Unknown ELSE body.prev \in { r, NoResponse }
    BY <1>1, <1>4, <1>10, <2>1, Relies
  <2>3. body.prev \in { r, NoResponse, Unknown }
    BY <2>2
  <2>4. /\ Live(r) /\ body.prev # Unknown =>
              Resolves(body.prev, OutputIds(body.items)) /\ Previous(body.prev, OutputIds(body.items)) = r
        /\ a # << >> /\ (body.prev = Unknown \/ ~Live(r)) => ~Resolves(body.prev, OutputIds(body.items))
        /\ a = << >> /\ ~Live(r) =>
              Resolves(body.prev, OutputIds(body.items)) /\ Previous(body.prev, OutputIds(body.items)) = NoResponse
    BY <1>1, <1>3, <1>4, <1>5, <2>1, <2>2, <2>3, ResolvesTo
  <2>5. CASE Live(r) /\ body.prev # Unknown
    <3>1. FoundFor(body) = r /\ BaseFor(body) = store[r].messages /\ (FoundFor(body) # NoResponse) = TRUE
      BY <2>1, <2>2, <2>4, <2>5 DEF FoundFor, BaseFor
    <3> DEFINE base == store[r].messages
    <3>2. /\ base \in Seq(Messages(C)) /\ Tells(base, old, known[r].whole, r) /\ Ends(base, cs)
          /\ \A c \in ToSet(cs) : c.from = r
      BY <1>1, <1>3, <2>1 DEF KnownAt, Typed
    <3> DEFINE w == known[r].whole
               items == body.items
    <3>a. /\ base \in Seq(Messages(RealCall)) /\ Tells(base, old, w, r) /\ Ends(base, cs)
          /\ old \in Seq(Items(RealCall)) /\ cs \in Seq(RealCall) /\ items \in Seq(Items(RealCall))
          /\ Brings(RealCall, new, a, tail) /\ ToSet(a) \subseteq ToSet(cs) /\ AnswersOf(items) = a
      BY <1>1, <1>4, <2>2, <3>2
    <3>b. /\ a # << >> => ShapeOfMessages(Additions(items)) = ShapeOfItems(new)
          /\ a = << >> => items = new
      BY <2>2
    <3> HIDE DEF base, old, cs, w, items, C
    <3>3. /\ Acceptable(TRUE, base, items)
          /\ Tells(Payload(TRUE, base, items), old \o new, w, n)
      <4>1. Continues(items, base, old, w, r, n, cs, new, a, tail)
        BY <1>3, <3>2, <3>a, <3>b DEF Continues
      <4> QED BY <4>1, ContinuedTells
    <3>4. Passes(body) /\ Upstream(body) = Payload(TRUE, base, items)
      BY <2>2, <2>4, <2>5, <3>1, <3>3 DEF Passes, Upstream, base, items
    <3>5. WholeFor(r, body) => known[r].whole
      BY <1>10 DEF WholeFor
    <3>6. Tells(Upstream(body), talk, WholeFor(r, body), n)
      BY <3>3, <3>4, <3>5, TellsLess DEF talk, w
    <3> QED BY <1>2, <1>8, <3>1, <3>4, <3>6 DEF n, talk, old, C
  <2>6. CASE a # << >> /\ (body.prev = Unknown \/ ~Live(r))
    <3>1. ~Passes(body)
      BY <2>2, <2>4, <2>6 DEF Passes
    <3>2. body.way = "rewritten" \/ ~Live(r)
      BY <1>3, <2>2, <2>6
    <3> QED BY <1>2, <1>8, <1>10, <3>1, <3>2 DEF n, talk
  <2>7. CASE a = << >> /\ ~Live(r)
    <3>1. body.items = new /\ Fluent(new, n)
      BY <1>3, <1>4, <2>2, <2>7, FluentStarts
    <3>2. FoundFor(body) = NoResponse /\ BaseFor(body) = << >> /\ (FoundFor(body) # NoResponse) = FALSE
      BY <2>2, <2>4, <2>7 DEF FoundFor, BaseFor
    <3>3. Acceptable(FALSE, << >>, new) /\ Tells(Payload(FALSE, << >>, new), new, TRUE, n)
      BY <1>3, <1>5, <3>1, StatelessTells
    <3>4. Passes(body) /\ Upstream(body) = Payload(FALSE, << >>, new)
      BY <2>2, <2>4, <2>7, <3>1, <3>2, <3>3 DEF Passes, Upstream
    <3>5. ~WholeFor(r, body)
      BY <1>10, <3>2 DEF WholeFor
    <3>6. Tells(Upstream(body), talk, WholeFor(r, body), n)
      BY <3>3, <3>4, <3>5 DEF Tells
    <3>7. body.way # "bare"
      BY <1>5, <2>7, Ways
    <3> QED BY <1>2, <1>8, <3>4, <3>6, <3>7 DEF n, talk
  <2>8. a = << >> => body.prev # Unknown
    BY <1>3, <2>2
  <2> QED BY <2>5, <2>6, <2>7, <2>8
<1> QED BY <1>9, <1>10

\* Messages that tell all of a conversation are what SameConversation asks for.
LEMMA TellsSame ==
    ASSUME NEW ms \in Seq(Messages(RealCall)), NEW talk \in Seq(Items(RealCall)), NEW n, NEW k,
           Tells(ms, talk, TRUE, n), Fluent(talk, k)
    PROVE  /\ ShapeOfMessages(ms) = ShapeOfItems(talk)
           /\ Len(ToolCalls(ms)) = Len(AnswersOf(talk))
           /\ ToSet(ToolCalls(ms)) = ToSet(AnswersOf(talk))
<1> DEFINE h == ToolCalls(ms)
           b == AnswersOf(talk)
           C == RealCall
<1>1. h \in Seq(C) /\ b \in Seq(C)
  BY ToolLaws, AnswersLaws
<1>2. ShapeOfMessages(ms) = ShapeOfItems(talk) /\ IsInjective(h) /\ IsInjective(b) /\ ToSet(h) = ToSet(b)
  BY DEF Tells, Fluent
<1> HIDE DEF h, b, C
<1>3. Len(h) = Len(b)
  BY <1>1, <1>2, SameLength
<1> QED BY <1>2, <1>3 DEF h, b

\* What is known and stored of a response stays as it is.
LEMMA KnownStays ==
    ASSUME NEW r, KnownAt(r), known'[r] = known[r], store'[r] = store[r]
    PROVE  KnownAt(r)'
  BY DEF KnownAt

\* What was said of the last request stays true while its response is stored.
LEMMA LastStays ==
    ASSUME SameConversation, OutputsFollowCalls, ContinuationsAccepted, FallbackLinksRight,
           last' = last, known'[last.from] = known[last.from], Live(last.from)' => Live(last.from)
    PROVE  SameConversation' /\ OutputsFollowCalls' /\ ContinuationsAccepted' /\ FallbackLinksRight'
<1>1. SameConversation'
  BY DEF SameConversation, Talk
<1>2. OutputsFollowCalls'
  BY DEF OutputsFollowCalls
<1>3. ContinuationsAccepted'
  BY DEF ContinuationsAccepted
<1>4. FallbackLinksRight'
  BY DEF FallbackLinksRight
<1> QED BY <1>1, <1>2, <1>3, <1>4

\* Of a request that was not made nothing is said.
LEMMA LastIdle ==
    ASSUME last' = Idle
    PROVE  /\ SameConversation' /\ OutputsFollowCalls' /\ ContinuationsAccepted' /\ FallbackLinksRight'
           /\ last'.from = NoResponse
  BY DEF SameConversation, OutputsFollowCalls, ContinuationsAccepted, FallbackLinksRight, Idle

\* A request keeps the invariant.
LEMMA RequestStep ==
    ASSUME HInv, Request, TypeOK', Typed(RealCall)'
    PROVE  HInv'
<1>a. PICK r \in DOMAIN known : \E new \in News(r) : \E body \in Continuations(r, new) : Ask(r, new, body)
  BY DEF Request
<1>b. PICK new \in News(r) : \E body \in Continuations(r, new) : Ask(r, new, body)
  BY <1>a
<1>c. PICK body \in Continuations(r, new) : Ask(r, new, body)
  BY <1>b
<1> DEFINE ms == Upstream(body)
           talk == known[r].items \o new
           w == WholeFor(r, body)
           n == sent + 1
           x == [ messages |-> ms, started |-> now, talk |-> talk, whole |-> w ]
           l == [ accepted |-> Passes(body), from |-> r, found |-> FoundFor(body), new |-> new,
                  way |-> body.way, prev |-> body.prev,
                  messages |-> IF Passes(body) THEN ms ELSE << >>, whole |-> w ]
<1>1. /\ last' = l /\ store' = store /\ now' = now /\ known' = known
      /\ flights' = IF Passes(body) THEN With(flights, n, x) ELSE flights
  BY <1>c, AskIs
<1>2. /\ talk \in Seq(Items(RealCall)) /\ Fluent(talk, n) /\ ms \in Seq(Messages(RealCall))
      /\ Passes(body) => Tells(ms, talk, w, n)
      /\ Passes(body) \/ body.way = "rewritten" \/ (body.way # "stateless" /\ ~Live(r))
      /\ Passes(body) /\ body.way = "bare" => FoundFor(body) = r
  BY AskSafe
<1>3. /\ x.messages = ms /\ x.talk = talk /\ x.whole = w
      /\ l.accepted = Passes(body) /\ l.from = r /\ l.new = new /\ l.way = body.way /\ l.whole = w
      /\ l.found = FoundFor(body)
      /\ Passes(body) => l.messages = ms
  OBVIOUS
<1>4. last'.new = new /\ last'.from = r /\ Talk' = talk
  <2>1. last'.new = new /\ last'.from = r
    BY <1>1, <1>3
  <2> QED BY <1>1, <2>1 DEF Talk
<1> HIDE DEF ms, talk, w, n, x, l
<1>5. SameConversation'
  <2>1. SUFFICES ASSUME Passes(body), w
                 PROVE  /\ ShapeOfMessages(ms) = ShapeOfItems(talk)
                        /\ Len(ToolCalls(ms)) = Len(AnswersOf(talk))
                        /\ ToSet(ToolCalls(ms)) = ToSet(AnswersOf(talk))
    BY <1>1, <1>3, <1>4 DEF SameConversation
  <2>2. Tells(ms, talk, TRUE, n)
    BY <1>2, <2>1 DEF Tells
  <2> QED BY <1>2, <2>2, TellsSame
<1>6. OutputsFollowCalls'
  <2>1. CASE ~Passes(body)
    BY <1>1, <1>3, <2>1 DEF OutputsFollowCalls
  <2>2. CASE Passes(body)
    <3>1. Placed(ms) /\ last'.messages = ms
      BY <1>1, <1>2, <1>3, <2>2 DEF Tells
    <3> QED BY <3>1 DEF OutputsFollowCalls, Placed
  <2> QED BY <2>1, <2>2
<1>7. ContinuationsAccepted'
  <2>1. ~Live(r) => ~Live(r)'
    BY <1>1 DEF Live
  <2>2. last'.accepted = Passes(body) /\ last'.way = body.way /\ last'.from = r
    BY <1>1, <1>3
  <2>3. Live(last.from)' = (r \in DOMAIN store' /\ store'[r].created >= now' - TTL)
    BY <1>4 DEF Live
  <2>4. Live(last.from)' = Live(r)
    BY <1>1, <2>3 DEF Live
  <2> QED BY <1>2, <2>2, <2>4 DEF ContinuationsAccepted
<1>8. OwnIds' /\ NoResponse \in DOMAIN known' /\ known'[NoResponse] = Nothing /\ last'.from \in DOMAIN known'
  BY <1>1, <1>4 DEF HInv, OwnIds
<1>9. ASSUME NEW q \in DOMAIN known' \ { NoResponse } PROVE KnownAt(q)'
  <2>1. KnownAt(q) /\ known'[q] = known[q] /\ store'[q] = store[q]
    BY <1>1 DEF HInv
  <2> QED BY <2>1, KnownStays
<1>10. ASSUME NEW k \in DOMAIN flights' PROVE FlightAt(k)'
  <2>1. CASE k \in DOMAIN flights /\ flights'[k] = flights[k]
    <3>1. FlightAt(k)
      BY <2>1 DEF HInv
    <3> QED BY <2>1, <3>1 DEF FlightAt
  <2>2. CASE Passes(body) /\ k = n /\ flights'[k] = x
    BY <1>2, <1>3, <2>2 DEF FlightAt
  <2>3. CASE ~Passes(body)
    BY <1>1, <2>1, <2>3
  <2>4. CASE Passes(body)
    <3>1. flights' = With(flights, n, x)
      BY <1>1, <2>4
    <3>2. (k \in DOMAIN flights /\ flights'[k] = flights[k]) \/ (k = n /\ flights'[k] = x)
      BY <3>1 DEF With
    <3> QED BY <2>1, <2>2, <2>4, <3>2
  <2> QED BY <2>3, <2>4
<1>11. FallbackLinksRight'
  BY <1>1, <1>2, <1>3 DEF FallbackLinksRight
<1> QED BY <1>5, <1>6, <1>7, <1>8, <1>9, <1>10, <1>11 DEF HInv

\* An answer of the upstream keeps it.
LEMMA RespondStep ==
    ASSUME IdsGiven, HInv, Respond, TypeOK', Typed(RealCall)'
    PROVE  HInv'
<1>1. PICK n \in DOMAIN flights, count \in 0 .. MaxCalls : Answered(n, NewCalls(n, count))
  BY DEF Respond
<1> DEFINE cs == NewCalls(n, count)
           talk == flights[n].talk
           ms == flights[n].messages
           w == flights[n].whole
<1>2. /\ n \in Nat /\ n # NoResponse /\ n \notin DOMAIN store /\ n \notin DOMAIN known /\ NoResponse \notin DOMAIN store
      /\ DOMAIN known \subseteq DOMAIN store \cup { NoResponse }
  <2>1. /\ DOMAIN flights \subseteq (1 .. sent) \ DOMAIN store /\ DOMAIN store \subseteq 1 .. sent
        /\ DOMAIN known \subseteq DOMAIN store \cup { NoResponse }
    BY DEF HInv, TypeOK
  <2> QED BY <2>1 DEF NoResponse
<1>3. cs \in Seq(RealCall) /\ IsInjective(cs) /\ \A c \in ToSet(cs) : c.from = n
  <2>1. count \in Nat
    BY BoundsAssumption
  <2> QED BY <1>2, <2>1, NewCallsLaws
<1>4. /\ talk \in Seq(Items(RealCall)) /\ ms \in Seq(Messages(RealCall)) /\ Fluent(talk, n)
      /\ Tells(ms, talk, w, n)
  BY DEF HInv, Typed, FlightAt
<1>5. PICK created \in Created(n) : store' = With(store, n, Record(n, cs, created))
  BY <1>1 DEF Answered
<1> DEFINE x == Record(n, cs, created)
           k == [ items |-> talk \o Reply(cs), calls |-> cs, whole |-> w ]
<1>6. /\ now' = now /\ last' = last
      /\ flights' = [ q \in DOMAIN flights \ { n } |-> flights[q] ]
      /\ known' = With(known, n, k) \/ known' = known
  BY <1>1 DEF Answered, Drop
<1> HIDE DEF cs
<1>7. /\ x.messages = Append(ms, Assistant(cs)) /\ x.pending = { c.id : c \in ToSet(cs) }
      /\ k.items = talk \o Reply(cs) /\ k.calls = cs /\ k.whole = w
  BY DEF Record
<1> HIDE DEF talk, ms, w, x, k
<1>8. store' = With(store, n, x)
  BY <1>5 DEF x
<1>9. /\ DOMAIN store' = DOMAIN store \cup { n } /\ store'[n] = x
      /\ \A q \in DOMAIN store : store'[q] = store[q]
  BY <1>2, <1>8 DEF With
<1>10. \A q \in DOMAIN known : q \in DOMAIN known' /\ known'[q] = known[q]
  <2>1. CASE known' = With(known, n, k)
    BY <1>2, <2>1 DEF With
  <2>2. CASE known' = known
    BY <2>2
  <2> QED BY <1>6, <2>1, <2>2
<1>11. \A q \in DOMAIN known' : q \in DOMAIN known \/ (q = n /\ known'[n] = k)
  <2>1. CASE known' = With(known, n, k)
    BY <2>1 DEF With
  <2>2. CASE known' = known
    BY <2>2
  <2> QED BY <1>6, <2>1, <2>2
<1>12. OwnIds'
  <2>1. ASSUME NEW q \in DOMAIN store', NEW id \in store'[q].pending PROVE id[1] = q
    <3>1. CASE q \in DOMAIN store
      BY <1>9, <2>1, <3>1 DEF HInv, OwnIds
    <3>2. CASE q = n
      <4>1. PICK c \in ToSet(cs) : id = c.id
        BY <1>7, <1>9, <2>1, <3>2
      <4>2. ToSet(cs) \subseteq RealCall
        BY <1>3, Elements
      <4>3. c.id[1] = c.from
        BY <4>2 DEF RealCall
      <4> QED BY <1>3, <3>2, <4>1, <4>3
    <3> QED BY <1>9, <3>1, <3>2
  <2> QED BY <2>1 DEF OwnIds
<1>13. NoResponse \in DOMAIN known' /\ known'[NoResponse] = Nothing
  BY <1>10 DEF HInv
<1>14. ASSUME NEW q \in DOMAIN known' \ { NoResponse } PROVE KnownAt(q)'
  <2>1. CASE q \in DOMAIN known
    <3>1. KnownAt(q) /\ known'[q] = known[q] /\ store'[q] = store[q]
      BY <1>2, <1>9, <1>10, <2>1 DEF HInv
    <3> QED BY <3>1, KnownStays
  <2>2. CASE q = n /\ known'[n] = k
    <3>1. /\ Fluent(talk \o Reply(cs), n + 1)
          /\ \A c \in ToSet(AnswersOf(talk \o Reply(cs))) : c.from < n
      BY <1>2, <1>3, <1>4, FluentAnswered
    <3>2. EndsWith(talk \o Reply(cs), cs)
      BY <1>3, <1>4, EndsWithReply
    <3>3. /\ Tells(Append(ms, Assistant(cs)), talk \o Reply(cs), w, n)
          /\ Ends(Append(ms, Assistant(cs)), cs)
      BY <1>2, <1>3, <1>4, RecordTells
    <3>4. known'[q] = k /\ store'[q] = x /\ q = n
      BY <1>9, <2>2
    <3> QED BY <1>3, <1>7, <3>1, <3>2, <3>3, <3>4 DEF KnownAt
  <2> QED BY <1>11, <2>1, <2>2
<1>15. ASSUME NEW q \in DOMAIN flights' PROVE FlightAt(q)'
  <2>1. q \in DOMAIN flights /\ flights'[q] = flights[q]
    BY <1>6
  <2>2. FlightAt(q)
    BY <2>1 DEF HInv
  <2> QED BY <2>1, <2>2 DEF FlightAt
<1>16. last.from \in DOMAIN known /\ last'.from \in DOMAIN known' /\ known'[last.from] = known[last.from]
  BY <1>6, <1>10 DEF HInv
<1>17. Live(last.from)' => Live(last.from)
  <2>1. last'.from = last.from /\ last.from # n
    BY <1>2, <1>6, <1>16
  <2>2. last.from \in DOMAIN store' => last.from \in DOMAIN store
    BY <1>9, <2>1
  <2> QED BY <1>6, <1>9, <2>1, <2>2 DEF Live
<1>18. SameConversation' /\ OutputsFollowCalls' /\ ContinuationsAccepted' /\ FallbackLinksRight'
  BY <1>6, <1>16, <1>17, LastStays DEF HInv
<1> QED BY <1>12, <1>13, <1>14, <1>15, <1>16, <1>18 DEF HInv

\* So does every step.
LEMMA HInvStep ==
    ASSUME IdsGiven, HInv, [Next]_vars
    PROVE  HInv'
<1>1. TypeOK' /\ Typed(RealCall)'
  <2>1. \A n, count \in Nat : NewCalls(n, count) \in Seq(RealCall)
    BY NewCallsLaws
  <2> QED BY <2>1, TypedStep DEF HInv
<1>2. ASSUME UNCHANGED << store, known >>, last' = Idle \/ (last' = last /\ now' = now),
             \A n \in DOMAIN flights' : n \in DOMAIN flights /\ flights'[n] = flights[n]
      PROVE  HInv'
  <2>1. /\ OwnIds' /\ NoResponse \in DOMAIN known' /\ known'[NoResponse] = Nothing
    BY <1>2 DEF HInv, OwnIds
  <2>2. ASSUME NEW q \in DOMAIN known' \ { NoResponse } PROVE KnownAt(q)'
    <3>1. KnownAt(q) /\ known'[q] = known[q] /\ store'[q] = store[q]
      BY <1>2 DEF HInv
    <3> QED BY <3>1, KnownStays
  <2>3. ASSUME NEW n \in DOMAIN flights' PROVE FlightAt(n)'
    <3>1. n \in DOMAIN flights /\ flights'[n] = flights[n] /\ FlightAt(n)
      BY <1>2 DEF HInv
    <3> QED BY <3>1 DEF FlightAt
  <2>4. /\ last'.from \in DOMAIN known'
        /\ SameConversation' /\ OutputsFollowCalls' /\ ContinuationsAccepted' /\ FallbackLinksRight'
    <3>1. CASE last' = Idle
      BY <2>1, <3>1, LastIdle
    <3>2. CASE last' = last /\ now' = now
      <4>1. last.from \in DOMAIN known /\ known'[last.from] = known[last.from] /\ last'.from \in DOMAIN known'
        BY <1>2, <3>2 DEF HInv
      <4>2. Live(last.from)' => Live(last.from)
        BY <1>2, <3>2 DEF Live
      <4> QED BY <3>2, <4>1, <4>2, LastStays DEF HInv
    <3> QED BY <1>2, <3>1, <3>2
  <2> QED BY <1>1, <2>1, <2>2, <2>3, <2>4 DEF HInv
<1>3. CASE Request
  BY <1>1, <1>3, RequestStep
<1>4. CASE Respond
  BY <1>1, <1>4, RespondStep
<1>5. CASE Fail
  <2>1. PICK n \in DOMAIN flights : Drop(n) /\ UNCHANGED << store, now, sent, known, last >>
    BY <1>5 DEF Fail
  <2>2. \A k \in DOMAIN flights' : k \in DOMAIN flights /\ flights'[k] = flights[k]
    BY <2>1 DEF Drop
  <2> QED BY <1>2, <2>1, <2>2
<1>6. CASE Restart
  <2>1. flights' = << >> /\ UNCHANGED << store, now, sent, known, last >>
    BY <1>6 DEF Restart
  <2>2. \A k \in DOMAIN flights' : FALSE
    BY <2>1
  <2> QED BY <1>2, <2>1, <2>2
<1>7. CASE Tick
  BY <1>2, <1>7 DEF Tick
<1>8. CASE UNCHANGED vars
  BY <1>2, <1>8 DEF vars
<1> QED BY <1>3, <1>4, <1>5, <1>6, <1>7, <1>8 DEF Next

\* The invariant holds at the start.
LEMMA HInvStart ==
    ASSUME Init
    PROVE  HInv
<1>1. TypeOK /\ Typed(RealCall)
  BY TypedStart
<1>2. DOMAIN store = {} /\ DOMAIN flights = {} /\ DOMAIN known = { NoResponse } /\ known[NoResponse] = Nothing /\ last = Idle
  BY DEF Init
<1>3. /\ SameConversation /\ OutputsFollowCalls /\ ContinuationsAccepted /\ FallbackLinksRight
      /\ last.from = NoResponse
  BY <1>2 DEF SameConversation, OutputsFollowCalls, ContinuationsAccepted, FallbackLinksRight, Idle
<1> QED BY <1>1, <1>2, <1>3 DEF HInv, OwnIds

\* What is stored of a response is what the client knows of it.
LEMMA HInvStored ==
    ASSUME HInv
    PROVE  StoredHistoryIsKnown
<1>1. ASSUME NEW r \in DOMAIN known \ { NoResponse }
      PROVE  /\ known[r].whole => ShapeOfMessages(store[r].messages) = ShapeOfItems(known[r].items)
             /\ store[r].pending = { c.id : c \in ToSet(known[r].calls) }
  BY DEF HInv, KnownAt, Tells
<1> QED BY <1>1 DEF StoredHistoryIsKnown

(***************************************************************************)
(* The conversation goes on.  Whichever way the client continues it, what  *)
(* the upstream is sent is the conversation the client has: previous_      *)
(* response, build_chat_payload and state_put agree on it.                 *)
(***************************************************************************)
THEOREM ConversationKept == ASSUME IdsGiven PROVE Spec => []SameConversation
<1>1. Init => HInv
  BY HInvStart
<1>2. HInv /\ [Next]_vars => HInv'
  BY HInvStep
<1>3. HInv => SameConversation
  BY DEF HInv
<1> QED BY <1>1, <1>2, <1>3, PTL DEF Spec

(***************************************************************************)
(* The upstream finds every output behind the message that made its call,  *)
(* as repair_stateless_history and the order of base, outputs and          *)
(* additions in build_chat_payload are to make sure.                       *)
(***************************************************************************)
THEOREM OutputsBehindCalls == ASSUME IdsGiven PROVE Spec => []OutputsFollowCalls
<1>1. Init => HInv
  BY HInvStart
<1>2. HInv /\ [Next]_vars => HInv'
  BY HInvStep
<1>3. HInv => OutputsFollowCalls
  BY DEF HInv
<1> QED BY <1>1, <1>2, <1>3, PTL DEF Spec

(***************************************************************************)
(* previous_response and validate_chat_tool_history refuse no continuation *)
(* of a live response, by its name or by its call ids, and none that       *)
(* brings the whole conversation along.                                    *)
(***************************************************************************)
THEOREM LiveContinues == ASSUME IdsGiven PROVE Spec => []ContinuationsAccepted
<1>1. Init => HInv
  BY HInvStart
<1>2. HInv /\ [Next]_vars => HInv'
  BY HInvStep
<1>3. HInv => ContinuationsAccepted
  BY DEF HInv
<1> QED BY <1>1, <1>2, <1>3, PTL DEF Spec

(***************************************************************************)
(* What state_put stores of a response is the client's conversation up to  *)
(* it, with the ids of the calls it made.                                  *)
(***************************************************************************)
THEOREM HistoryStored == ASSUME IdsGiven PROVE Spec => []StoredHistoryIsKnown
<1>1. Init => HInv
  BY HInvStart
<1>2. HInv /\ [Next]_vars => HInv'
  BY HInvStep
<1>3. HInv => StoredHistoryIsKnown
  BY HInvStored
<1> QED BY <1>1, <1>2, <1>3, PTL DEF Spec

(***************************************************************************)
(* find_by_call_ids never takes the outputs for those of another response, *)
(* and the outputs of all calls of a live response are not refused: what   *)
(* the runs find otherwise comes of ids that are made up from the index of *)
(* a call, so that two responses have the same.                            *)
(***************************************************************************)
THEOREM UniqueIdsLinkRight == ASSUME IdsGiven PROVE Spec => []FallbackLinksRight
<1>1. Init => HInv
  BY HInvStart
<1>2. HInv /\ [Next]_vars => HInv'
  BY HInvStep
<1>3. HInv => FallbackLinksRight
  BY DEF HInv
<1> QED BY <1>1, <1>2, <1>3, PTL DEF Spec

\* The same for the response a request names.
THEOREM UniqueIdsContinue == ASSUME IdsGiven PROVE Spec => []ValidNameContinues
<1>1. Init => HInv
  BY HInvStart
<1>2. HInv /\ [Next]_vars => HInv'
  BY HInvStep
<1>3. HInv => ValidNameContinues
  BY DEF HInv, ContinuationsAccepted, ValidNameContinues
<1> QED BY <1>1, <1>2, <1>3, PTL DEF Spec
==============================================================================
