------------------------ MODULE StreamAssemblerProofs ------------------------
(***************************************************************************)
(* Every method of the assembler keeps a good assembler good: its fields   *)
(* have their types, each output index has one owner, an item is closed    *)
(* exactly if the assembler has marked it done, and a call that was        *)
(* announced was announced under the id the assembler still has for it.    *)
(* These are the facts the invariant of StreamTask is made of, together    *)
(* with what each method tells the client, in the second part.             *)
(***************************************************************************)
EXTENDS StreamAssembler, FiniteSetTheorems, SequenceTheorems, TLAPS

(***************************************************************************)
(* Texts.  The helpers of ThinkText return texts when they are given       *)
(* texts.  The proofs rest on one fact about numbers, that a finite set of *)
(* integers that is not empty has a least and a greatest element.          *)
(***************************************************************************)
MinimalIn(F, d) == d \in F /\ \A e \in F : e \subseteq d => e = d

(***************************************************************************)
(* A family of subsets of a finite set that is not empty has a minimal     *)
(* member.                                                                 *)
(***************************************************************************)
LEMMA MinimalSet ==
    ASSUME NEW T, IsFiniteSet(T), NEW F \in SUBSET SUBSET T, F # {}
    PROVE  \E d : MinimalIn(F, d)
<1>1. IsWellFoundedOn(StrictSubsetOrdering(T), SUBSET T)
  BY FS_StrictSubsetOrderingWellFounded, FS_FiniteSubsetsOfFinite
<1>2. PICK x \in F : \A y \in F : ~(<< y, x >> \in StrictSubsetOrdering(T))
  BY <1>1, WFMin
<1> QED BY <1>2 DEF StrictSubsetOrdering, MinimalIn

(***************************************************************************)
(* The least element: the one with the fewest elements below it.           *)
(***************************************************************************)
LEMMA MinIn ==
    ASSUME NEW T, T \subseteq Int, IsFiniteSet(T), T # {}
    PROVE  Min(T) \in T /\ \A y \in T : Min(T) =< y
<1> DEFINE Below(x) == { y \in T : y < x }
           F == { Below(x) : x \in T }
<1>1. F \in SUBSET SUBSET T /\ F # {}
  OBVIOUS
<1>2. \E d : MinimalIn(F, d)
  <2> HIDE DEF F
  <2> QED BY <1>1, MinimalSet
<1>3. PICK m \in T : \A e \in F : e \subseteq Below(m) => e = Below(m)
  BY <1>2 DEF MinimalIn
<1>4. ASSUME NEW y \in T, y < m PROVE FALSE
  <2>1. Below(y) \in F
    OBVIOUS
  <2>2. Below(y) \subseteq Below(m)
    <3>1. SUFFICES ASSUME NEW z \in T, z < y PROVE z < m
      BY Zenon
    <3>2. z \in Int /\ y \in Int /\ m \in Int
      OBVIOUS
    <3> QED BY <1>4, <3>1, <3>2
  <2>3. y \in Below(m) /\ y \notin Below(y)
    BY <1>4
  <2> QED BY <2>1, <2>2, <2>3, <1>3
<1>5. \A y \in T : m =< y
  BY <1>4
<1> QED BY <1>5 DEF Min

(***************************************************************************)
(* The greatest element: the one with the fewest elements above it.        *)
(***************************************************************************)
LEMMA MaxIn ==
    ASSUME NEW T, T \subseteq Int, IsFiniteSet(T), T # {}
    PROVE  Max(T) \in T /\ \A y \in T : Max(T) >= y
<1> DEFINE Above(x) == { y \in T : y > x }
           F == { Above(x) : x \in T }
<1>1. F \in SUBSET SUBSET T /\ F # {}
  OBVIOUS
<1>2. \E d : MinimalIn(F, d)
  <2> HIDE DEF F
  <2> QED BY <1>1, MinimalSet
<1>3. PICK m \in T : \A e \in F : e \subseteq Above(m) => e = Above(m)
  BY <1>2 DEF MinimalIn
<1>4. ASSUME NEW y \in T, y > m PROVE FALSE
  <2>1. Above(y) \in F
    OBVIOUS
  <2>2. Above(y) \subseteq Above(m)
    <3>1. SUFFICES ASSUME NEW z \in T, z > y PROVE z > m
      BY Zenon
    <3>2. z \in Int /\ y \in Int /\ m \in Int
      OBVIOUS
    <3> QED BY <1>4, <3>1, <3>2
  <2>3. y \in Above(m) /\ y \notin Above(y)
    BY <1>4
  <2> QED BY <2>1, <2>2, <2>3, <1>3
<1>5. \A y \in T : m >= y
  BY <1>4
<1> QED BY <1>5 DEF Max

------------------------------------------------------------------------------

(***************************************************************************)
(* A stretch of a text is a text.                                          *)
(***************************************************************************)
LEMMA SubText ==
    ASSUME NEW s \in Text, NEW m \in Int, NEW n \in Int, m >= 1, n =< Len(s)
    PROVE  SubSeq(s, m, n) \in Text
<1>1. Len(s) \in Nat /\ \A i \in 1..Len(s) : s[i] \in Token
  BY LenProperties, ElementOfSeq DEF Text
<1>2. \A i \in m..n : s[i] \in Token
  BY <1>1
<1> QED BY <1>2, SubSeqProperties DEF Text

(***************************************************************************)
(* The positions that hold ink, when there are any, have bounds.           *)
(***************************************************************************)
LEMMA InkBounds ==
    ASSUME NEW s \in Text, ~IsBlank(s)
    PROVE  Min(Ink(s)) \in 1..Len(s) /\ Max(Ink(s)) \in 1..Len(s)
<1>1. Len(s) \in Nat
  BY LenProperties DEF Text
<1>2. Ink(s) \subseteq 1..Len(s) /\ Ink(s) # {}
  BY DEF Ink, IsBlank
<1>3. IsFiniteSet(Ink(s)) /\ Ink(s) \subseteq Int
  <2>1. IsFiniteSet(1..Len(s))
    BY <1>1, FS_Interval
  <2> QED BY <1>1, <1>2, <2>1, FS_Subset
<1> QED BY <1>2, <1>3, MinIn, MaxIn

\* The empty text is a text.
LEMMA EmptyText == << >> \in Text
  BY EmptySeq DEF Text

\* Dropping and trimming white space yields texts.
LEMMA TrimTypes ==
    ASSUME NEW s \in Text
    PROVE  Trim(s) \in Text /\ TrimStart(s) \in Text
<1>1. CASE IsBlank(s)
  BY <1>1, EmptyText DEF Trim, TrimStart
<1>2. CASE ~IsBlank(s)
  <2>1. Len(s) \in Nat
    BY LenProperties DEF Text
  <2>2. Min(Ink(s)) \in 1..Len(s) /\ Max(Ink(s)) \in 1..Len(s)
    BY <1>2, InkBounds
  <2>3. SubSeq(s, Min(Ink(s)), Max(Ink(s))) \in Text
    BY <2>1, <2>2, SubText
  <2>4. SubSeq(s, (Min(Ink(s)) - 1) + 1, Len(s)) \in Text
    BY <2>1, <2>2, SubText
  <2> QED BY <1>2, <2>3, <2>4 DEF Trim, TrimStart, Drop
<1> QED BY <1>1, <1>2

(***************************************************************************)
(* The text behind an opening tag.                                         *)
(***************************************************************************)
LEMMA AfterOpenType ==
    ASSUME NEW s \in Text
    PROVE  AfterOpen(s) \in Text
<1>1. TrimStart(s) \in Text
  BY TrimTypes
<1>2. Len(TrimStart(s)) \in Nat /\ Len(OpenTag) = 2
  BY <1>1, LenProperties DEF Text, OpenTag
<1> QED BY <1>1, <1>2, SubText DEF AfterOpen, Drop

(***************************************************************************)
(* The two sides of a closing tag.                                         *)
(***************************************************************************)
LEMMA CloseTypes ==
    ASSUME NEW s \in Text, HasClose(s)
    PROVE  BeforeClose(s) \in Text /\ AfterClose(s) \in Text
<1>1. Len(s) \in Nat
  BY LenProperties DEF Text
<1>2. ClosesAt(s) \subseteq 1..(Len(s) - 1) /\ ClosesAt(s) # {}
  BY DEF ClosesAt, HasClose
<1>3. IsFiniteSet(ClosesAt(s)) /\ ClosesAt(s) \subseteq Int
  <2>1. IsFiniteSet(1..(Len(s) - 1))
    BY <1>1, FS_Interval
  <2> QED BY <1>1, <1>2, <2>1, FS_Subset
<1>4. Min(ClosesAt(s)) \in 1..(Len(s) - 1)
  BY <1>2, <1>3, MinIn
<1>5. SubSeq(s, 1, Min(ClosesAt(s)) - 1) \in Text
  BY <1>1, <1>4, SubText
<1>6. SubSeq(s, (Min(ClosesAt(s)) + 1) + 1, Len(s)) \in Text
  BY <1>1, <1>4, SubText
<1> QED BY <1>5, <1>6, TrimTypes DEF BeforeClose, AfterClose, Drop

(***************************************************************************)
(* A whole block.                                                          *)
(***************************************************************************)
LEMMA BlockTypes ==
    ASSUME NEW s \in Text, HasBlock(s)
    PROVE  BlockReasoning(s) \in Text /\ BlockAnswer(s) \in Text
  BY AfterOpenType, CloseTypes, TrimTypes DEF HasBlock, BlockReasoning, BlockAnswer

(***************************************************************************)
(* What is held back, and what is settled, of an open block.               *)
(***************************************************************************)
LEMMA HeldTypes ==
    ASSUME NEW s \in Text
    PROVE  Held(s) \in Text /\ Settled(s) \in Text
<1>1. Len(s) \in Nat
  BY LenProperties DEF Text
<1>2. << LT >> \in Text /\ Len(<< LT >>) = 1
  <2>1. LT \in Token
    BY DEF Token
  <2> QED BY <2>1 DEF Text
<1>3. Held(s) \in Text /\ Len(Held(s)) \in Nat
  BY <1>2, EmptyText, EmptySeq DEF Held
<1>4. SubSeq(s, 1, Len(s) - Len(Held(s))) \in Text
  BY <1>1, <1>3, SubText
<1> QED BY <1>3, <1>4 DEF Settled

------------------------------------------------------------------------------
(***************************************************************************)
(* The assembler.                                                          *)
(***************************************************************************)

\* A message or reasoning item is closed once it is done; a call is still open.
Marks(a, i) ==
    CASE a.out[i].kind = "reasoning" -> IF a.rDone THEN 1 ELSE 0
      [] a.out[i].kind = "message"   -> IF a.tDone THEN 1 ELSE 0
      [] OTHER -> 0

Marked(a) ==
    /\ \A i \in DOMAIN a.out : a.out[i].closed = Marks(a, i)
    /\ a.rDone => a.rIdx # NoIndex
    /\ a.tDone => a.tIdx # NoIndex

CallsKnown(a) ==
    \A k \in Indices : a.calls[k].added =>
        /\ a.calls[k].name # Absent
        /\ a.calls[k].id # NoId
        /\ a.out[a.calls[k].idx].id = a.calls[k].id

Good(a) == AssemblerType(a) /\ OwnIndices(a) /\ Marked(a) /\ CallsKnown(a)

\* b agrees with a but for the fields in S.
Frame(a, b, S) == DOMAIN b = Fields /\ \A f \in Fields \ S : b[f] = a[f]

\* What no method but finalize and fail changes.
Outcomes == { "terminal", "stored", "response", "buffered" }
Keeps(a, b) == \A f \in Outcomes : b[f] = a[f]
KeepsCalls(a, b) == Keeps(a, b) /\ b.calls = a.calls

------------------------------------------------------------------------------
(***************************************************************************)
(* The three primitives.                                                   *)
(***************************************************************************)

(***************************************************************************)
(* Announcing an item appends it and changes nothing else.                 *)
(***************************************************************************)
LEMMA AnnounceFields ==
    ASSUME NEW a, AssemblerType(a), NEW kind \in Kinds, NEW key \in Int, NEW id \in Ids
    PROVE  LET b == Announce(a, kind, key, id)
           IN  /\ AssemblerType(b)
               /\ Frame(a, b, { "next", "out" })
               /\ b.next = a.next + 1
               /\ b.out[a.next].kind = kind /\ b.out[a.next].key = key
               /\ b.out[a.next].id = id /\ b.out[a.next].closed = 0
               /\ \A i \in 0..(a.next - 1) : b.out[i] = a.out[i]
<1> DEFINE b == Announce(a, kind, key, id)
<1>1. DOMAIN b = Fields /\ b.next = a.next + 1 /\ a.next \in Nat
  BY DEF Announce, AssemblerType, Fields
<1>2. DOMAIN a.out = 0..(a.next - 1)
  BY DEF AssemblerType
<1>3. b.out = [ i \in 0..a.next |->
                  IF i = a.next
                  THEN [ kind |-> kind, key |-> key, id |-> id,
                         text |-> << >>, closed |-> 0, final |-> << >> ]
                  ELSE a.out[i] ]
  BY <1>1, <1>2 DEF Announce, AssemblerType, Fields
<1>4. b.out \in [ 0..(b.next - 1) -> Item ]
  BY <1>1, <1>2, <1>3, EmptyText DEF AssemblerType, Item
<1>5. \A f \in Fields \ { "next", "out" } : b[f] = a[f]
  BY DEF AssemblerType, Announce, Fields
<1>6. AssemblerType(b) /\ Frame(a, b, { "next", "out" })
  <2> HIDE DEF b
  <2> QED BY <1>1, <1>4, <1>5 DEF AssemblerType, Fields, Frame
<1> QED BY <1>1, <1>3, <1>6

(***************************************************************************)
(* A delta only extends the text of its item.                              *)
(***************************************************************************)
LEMMA DeltaFields ==
    ASSUME NEW a, AssemblerType(a), NEW i \in 0..(a.next - 1), NEW t \in Text
    PROVE  LET b == Delta(a, i, t)
           IN  /\ AssemblerType(b)
               /\ Frame(a, b, { "out" })
               /\ \A j \in 0..(a.next - 1) :
                    /\ b.out[j].kind = a.out[j].kind /\ b.out[j].key = a.out[j].key
                    /\ b.out[j].id = a.out[j].id /\ b.out[j].closed = a.out[j].closed
<1> DEFINE b == Delta(a, i, t)
<1>1. DOMAIN b = Fields /\ \A f \in Fields \ { "out" } : b[f] = a[f]
  BY DEF Delta, AssemblerType, Fields
<1>2. a.out \in [ 0..(a.next - 1) -> Item ]
  BY DEF AssemblerType
<1>3. b.out = [ a.out EXCEPT ![i].text = @ \o t ]
  BY DEF Delta, AssemblerType, Fields
<1>4. a.out[i].text \o t \in Text
  BY <1>2, ConcatProperties DEF Item, Text
<1>5. b.out \in [ 0..(a.next - 1) -> Item ]
  BY <1>2, <1>3, <1>4 DEF Item
<1>6. \A j \in 0..(a.next - 1) :
        /\ b.out[j].kind = a.out[j].kind /\ b.out[j].key = a.out[j].key
        /\ b.out[j].id = a.out[j].id /\ b.out[j].closed = a.out[j].closed
  BY <1>2, <1>3 DEF Item
<1>7. AssemblerType(b) /\ Frame(a, b, { "out" })
  <2> HIDE DEF b
  <2> QED BY <1>1, <1>5 DEF AssemblerType, Fields, Frame
<1> QED BY <1>6, <1>7

(***************************************************************************)
(* Closing an item adds one to its count and gives it its final text.      *)
(***************************************************************************)
LEMMA CloseFields ==
    ASSUME NEW a, AssemblerType(a), NEW i \in 0..(a.next - 1), NEW t \in Text
    PROVE  LET b == Close(a, i, t)
           IN  /\ AssemblerType(b)
               /\ Frame(a, b, { "out" })
               /\ \A j \in 0..(a.next - 1) :
                    /\ b.out[j].kind = a.out[j].kind /\ b.out[j].key = a.out[j].key
                    /\ b.out[j].id = a.out[j].id
                    /\ b.out[j].closed = a.out[j].closed + (IF j = i THEN 1 ELSE 0)
<1> DEFINE b == [ a EXCEPT !.out[i].closed = @ + 1 ]
           c == Close(a, i, t)
<1>1. a.out \in [ 0..(a.next - 1) -> Item ] /\ DOMAIN a = Fields
  BY DEF AssemblerType
<1>2. /\ DOMAIN b = Fields /\ \A f \in Fields \ { "out" } : b[f] = a[f]
      /\ b.out = [ a.out EXCEPT ![i].closed = @ + 1 ]
  BY <1>1 DEF Fields
<1> HIDE DEF b
<1>3. /\ b.out \in [ 0..(a.next - 1) -> Item ]
      /\ \A j \in 0..(a.next - 1) :
           /\ b.out[j].kind = a.out[j].kind /\ b.out[j].key = a.out[j].key
           /\ b.out[j].id = a.out[j].id
           /\ b.out[j].closed = a.out[j].closed + (IF j = i THEN 1 ELSE 0)
  <2>0. \A j \in 0..(a.next - 1) : a.out[j].closed \in Nat
    BY <1>1 DEF Item
  <2>1. b.out \in [ 0..(a.next - 1) -> Item ]
    <3>1. a.out[i].closed + 1 \in Nat
      BY <2>0
    <3> QED BY <1>1, <1>2, <3>1, ZenonT(60) DEF Item
  <2>2. \A j \in 0..(a.next - 1) :
          /\ b.out[j].kind = a.out[j].kind /\ b.out[j].key = a.out[j].key
          /\ b.out[j].id = a.out[j].id
    BY <1>1, <1>2 DEF Item
  <2>3. \A j \in 0..(a.next - 1) :
          b.out[j].closed = a.out[j].closed + (IF j = i THEN 1 ELSE 0)
    <3>1. TAKE j \in 0..(a.next - 1)
    <3>2. CASE j = i
      BY <1>1, <1>2, <3>2 DEF Item
    <3>3. CASE j # i
      BY <1>1, <1>2, <2>0, <3>3
    <3> QED BY <3>2, <3>3
  <2> QED BY <2>1, <2>2, <2>3
<1>4. c = [ b EXCEPT !.out[i].final = t ]
  BY DEF b, Close
<1>5. /\ DOMAIN c = Fields /\ \A f \in Fields \ { "out" } : c[f] = b[f]
      /\ c.out = [ b.out EXCEPT ![i].final = t ]
  BY <1>2, <1>4 DEF Fields
<1> HIDE DEF c
<1>6. /\ c.out \in [ 0..(a.next - 1) -> Item ]
      /\ \A j \in 0..(a.next - 1) :
           /\ c.out[j].kind = b.out[j].kind /\ c.out[j].key = b.out[j].key
           /\ c.out[j].id = b.out[j].id /\ c.out[j].closed = b.out[j].closed
  <2>1. b.out \in [ 0..(a.next - 1) -> Item ]
    BY <1>3
  <2>2. c.out \in [ 0..(a.next - 1) -> Item ]
    BY <2>1, <1>5, ZenonT(60) DEF Item
  <2>3. \A j \in 0..(a.next - 1) :
          /\ c.out[j].kind = b.out[j].kind /\ c.out[j].key = b.out[j].key
          /\ c.out[j].id = b.out[j].id /\ c.out[j].closed = b.out[j].closed
    BY <2>1, <1>5 DEF Item
  <2> QED BY <2>2, <2>3
<1>7. AssemblerType(c) /\ Frame(a, c, { "out" })
  BY <1>1, <1>2, <1>5, <1>6, ZenonT(60) DEF AssemblerType, Fields, Frame
<1> QED BY <1>3, <1>6, <1>7 DEF c

(***************************************************************************)
(* The texts, the state of the tag detection and the outcome do not matter *)
(* to goodness.                                                            *)
(***************************************************************************)
Loose == { "content", "reasoning", "buf", "think", "finish", "terminal", "stored", "response" }

\* An assembler that differs from a good one in these fields only is good.
LEMMA LooseGood ==
    ASSUME NEW a, Good(a), NEW b, AssemblerType(b), Frame(a, b, Loose)
    PROVE  Good(b)
<1>1. /\ b.out = a.out /\ b.calls = a.calls /\ b.rIdx = a.rIdx /\ b.tIdx = a.tIdx
      /\ b.rDone = a.rDone /\ b.tDone = a.tDone
  BY DEF Frame, Fields, Loose
<1> QED BY <1>1 DEF Good, OwnIndices, OwnedBy, Marked, Marks, CallsKnown

(***************************************************************************)
(* A delta of an announced item keeps the assembler good.                  *)
(***************************************************************************)
LEMMA DeltaGood ==
    ASSUME NEW a, Good(a), NEW i \in 0..(a.next - 1), NEW t \in Text
    PROVE  Good(Delta(a, i, t)) /\ Frame(a, Delta(a, i, t), { "out" })
<1> DEFINE b == Delta(a, i, t)
<1>1. AssemblerType(a) /\ DOMAIN a.out = 0..(a.next - 1)
  BY DEF Good, AssemblerType
<1>2. /\ AssemblerType(b) /\ Frame(a, b, { "out" })
      /\ \A j \in 0..(a.next - 1) :
           /\ b.out[j].kind = a.out[j].kind /\ b.out[j].key = a.out[j].key
           /\ b.out[j].id = a.out[j].id /\ b.out[j].closed = a.out[j].closed
  BY <1>1, DeltaFields
<1> HIDE DEF b
<1>3. /\ b.next = a.next /\ b.calls = a.calls /\ b.rIdx = a.rIdx /\ b.tIdx = a.tIdx
      /\ b.rDone = a.rDone /\ b.tDone = a.tDone /\ DOMAIN b.out = DOMAIN a.out
  BY <1>1, <1>2 DEF Frame, Fields, AssemblerType
<1>4. OwnIndices(b)
  BY <1>1, <1>2, <1>3 DEF Good, OwnIndices, OwnedBy
<1>5. Marked(b)
  BY <1>1, <1>2, <1>3 DEF Good, Marked, Marks
<1>6. CallsKnown(b)
  BY <1>1, <1>2, <1>3 DEF Good, CallsKnown, OwnIndices
<1> QED BY <1>2, <1>4, <1>5, <1>6 DEF b, Good

------------------------------------------------------------------------------
(***************************************************************************)
(* Reasoning and text items.                                               *)
(***************************************************************************)

(***************************************************************************)
(* The first reasoning delta announces the reasoning item.                 *)
(***************************************************************************)
LEMMA StartReasoningGood ==
    ASSUME NEW a, Good(a), a.rIdx = NoIndex
    PROVE  LET b == [ Announce(a, "reasoning", NoKey, NoId) EXCEPT !.rIdx = a.next ]
           IN  Good(b) /\ KeepsCalls(a, b) /\ b.rIdx = a.next /\ b.next = a.next + 1
<1> DEFINE c == Announce(a, "reasoning", NoKey, NoId)
           b == [ c EXCEPT !.rIdx = a.next ]
<1>1. AssemblerType(a) /\ DOMAIN a.out = 0..(a.next - 1) /\ a.next \in Nat
  BY DEF Good, AssemblerType
<1>2. /\ AssemblerType(c)
      /\ Frame(a, c, { "next", "out" })
      /\ c.next = a.next + 1
      /\ c.out[a.next].kind = "reasoning" /\ c.out[a.next].key = NoKey
      /\ c.out[a.next].closed = 0
      /\ \A i \in 0..(a.next - 1) : c.out[i] = a.out[i]
  BY <1>1, AnnounceFields DEF Kinds, NoKey, NoId, Ids
<1> HIDE DEF c
<1>3. /\ DOMAIN b = Fields /\ b.rIdx = a.next
      /\ \A f \in Fields \ { "rIdx" } : b[f] = c[f]
  BY <1>2 DEF AssemblerType, Fields
<1> HIDE DEF b
<1>4. AssemblerType(b)
  BY <1>1, <1>2, <1>3 DEF AssemblerType, Fields
<1>5. /\ b.out = c.out /\ b.next = a.next + 1 /\ DOMAIN b.out = 0..a.next
      /\ b.calls = a.calls /\ b.tIdx = a.tIdx /\ b.rDone = a.rDone /\ b.tDone = a.tDone
      /\ Keeps(a, b)
  BY <1>1, <1>2, <1>3, <1>4 DEF AssemblerType, Frame, Fields, Keeps, Outcomes
<1>6. a.rDone = FALSE
  BY DEF Good, Marked, AssemblerType
<1>7. OwnIndices(b)
  <2>1. ASSUME NEW i \in 0..a.next PROVE OwnedBy(b, i)
    <3>1. CASE i = a.next
      BY <1>2, <1>3, <1>5, <3>1 DEF OwnedBy
    <3>2. CASE i # a.next
      <4>1. i \in 0..(a.next - 1) /\ OwnedBy(a, i) /\ b.out[i] = a.out[i]
        BY <1>1, <1>2, <1>5, <3>2 DEF Good, OwnIndices
      <4>2. a.out[i].kind # "reasoning"
        BY <4>1 DEF OwnedBy, NoIndex
      <4> QED BY <1>5, <4>1, <4>2 DEF OwnedBy
    <3> QED BY <3>1, <3>2
  <2>2. /\ b.rIdx \in DOMAIN b.out
        /\ b.out[b.rIdx].kind = "reasoning" /\ b.out[b.rIdx].key = NoKey
    BY <1>1, <1>2, <1>3, <1>5
  <2>3. b.tIdx # NoIndex => /\ b.tIdx \in DOMAIN b.out /\ b.out[b.tIdx].kind = "message"
                           /\ b.out[b.tIdx].key = NoKey
    BY <1>1, <1>2, <1>5 DEF Good, OwnIndices
  <2>4. \A k \in Indices : b.calls[k].added =>
          /\ b.calls[k].idx \in DOMAIN b.out
          /\ b.out[b.calls[k].idx].kind = "call"
          /\ b.out[b.calls[k].idx].key = k
    BY <1>1, <1>2, <1>5, SMTT(30) DEF Good, OwnIndices
  <2> QED BY <1>5, <2>1, <2>2, <2>3, <2>4 DEF OwnIndices
<1>8. Marked(b)
  BY <1>1, <1>2, <1>3, <1>5, <1>6 DEF Good, Marked, Marks, NoIndex
<1>9. CallsKnown(b)
  BY <1>1, <1>2, <1>5 DEF Good, CallsKnown, OwnIndices
<1> QED BY <1>3, <1>4, <1>5, <1>7, <1>8, <1>9 DEF b, c, Good, KeepsCalls

(***************************************************************************)
(* A reasoning delta, the first or a later one.                            *)
(***************************************************************************)
LEMMA PushReasoningGood ==
    ASSUME NEW a, Good(a), NEW t \in Text
    PROVE  Good(PushReasoning(a, t)) /\ KeepsCalls(a, PushReasoning(a, t))
<1> DEFINE b == IF a.rIdx = NoIndex
                THEN [ Announce(a, "reasoning", NoKey, NoId) EXCEPT !.rIdx = a.next ]
                ELSE a
           c == Delta(b, b.rIdx, t)
           d == [ c EXCEPT !.reasoning = @ \o t ]
<1>1. Good(b) /\ KeepsCalls(a, b) /\ b.rIdx # NoIndex
  <2>1. a.next \in Nat
    BY DEF Good, AssemblerType
  <2>2. CASE a.rIdx = NoIndex
    BY <2>1, <2>2, StartReasoningGood DEF NoIndex
  <2>3. CASE a.rIdx # NoIndex
    BY <2>3 DEF KeepsCalls, Keeps
  <2> QED BY <2>2, <2>3
<1> HIDE DEF b
<1>2. b.rIdx \in 0..(b.next - 1)
  BY <1>1 DEF Good, OwnIndices, AssemblerType
<1>3. Good(c) /\ Frame(b, c, { "out" })
  BY <1>1, <1>2, DeltaGood
<1> HIDE DEF c
<1>4. DOMAIN d = Fields /\ (\A f \in Fields \ { "reasoning" } : d[f] = c[f])
      /\ d.reasoning = c.reasoning \o t /\ c.reasoning \in Text
  BY <1>3 DEF Good, AssemblerType, Fields
<1>5. d.reasoning \in Text
  BY <1>4, ConcatProperties DEF Text
<1> HIDE DEF d
<1>6. AssemblerType(d)
  BY <1>3, <1>4, <1>5 DEF Good, AssemblerType, Fields
<1>7. Good(d)
  BY <1>3, <1>4, <1>6, LooseGood DEF Frame, Loose
<1>8. KeepsCalls(a, d)
  BY <1>1, <1>3, <1>4 DEF KeepsCalls, Keeps, Outcomes, Frame, Fields
<1>9. CASE t = << >>
  BY <1>9 DEF PushReasoning, KeepsCalls, Keeps
<1>10. CASE t # << >>
  <2>1. PushReasoning(a, t) = d
    BY <1>10 DEF PushReasoning, b, c, d
  <2> QED BY <2>1, <1>7, <1>8
<1> QED BY <1>9, <1>10

(***************************************************************************)
(* Closing the reasoning item: once, and nothing else changes.             *)
(***************************************************************************)
LEMMA FinishReasoningGood ==
    ASSUME NEW a, Good(a)
    PROVE  /\ Good(FinishReasoning(a))
           /\ KeepsCalls(a, FinishReasoning(a))
           /\ Frame(a, FinishReasoning(a), { "out", "rDone" })
<1> DEFINE c == Close(a, a.rIdx, a.reasoning)
           d == [ c EXCEPT !.rDone = TRUE ]
<1>1. CASE a.rIdx = NoIndex \/ a.rDone
  BY <1>1 DEF FinishReasoning, KeepsCalls, Keeps, Frame, Good, AssemblerType
<1>2. CASE a.rIdx # NoIndex /\ ~a.rDone
  <2>1. AssemblerType(a) /\ DOMAIN a.out = 0..(a.next - 1) /\ a.reasoning \in Text
    BY DEF Good, AssemblerType
  <2>2. a.rIdx \in 0..(a.next - 1) /\ a.out[a.rIdx].kind = "reasoning"
    BY <1>2, <2>1 DEF Good, OwnIndices
  <2>3. /\ AssemblerType(c)
        /\ Frame(a, c, { "out" })
        /\ \A j \in 0..(a.next - 1) :
             /\ c.out[j].kind = a.out[j].kind /\ c.out[j].key = a.out[j].key
             /\ c.out[j].id = a.out[j].id
             /\ c.out[j].closed = a.out[j].closed + (IF j = a.rIdx THEN 1 ELSE 0)
    BY <2>1, <2>2, CloseFields
  <2> HIDE DEF c
  <2>4. /\ DOMAIN d = Fields /\ d.rDone = TRUE
        /\ \A f \in Fields \ { "rDone" } : d[f] = c[f]
    BY <2>3 DEF AssemblerType, Fields
  <2> HIDE DEF d
  <2>5. AssemblerType(d)
    BY <2>3, <2>4 DEF AssemblerType, Fields
  <2>6. /\ d.out = c.out /\ d.next = a.next /\ DOMAIN d.out = DOMAIN a.out
        /\ d.calls = a.calls /\ d.tIdx = a.tIdx /\ d.rIdx = a.rIdx /\ d.tDone = a.tDone
        /\ Keeps(a, d)
    BY <2>1, <2>3, <2>4, <2>5 DEF AssemblerType, Frame, Fields, Keeps, Outcomes
  <2>7. OwnIndices(d)
    BY <2>1, <2>3, <2>6 DEF Good, OwnIndices, OwnedBy
  <2>8. Marked(d)
    <3>1. ASSUME NEW i \in 0..(a.next - 1) PROVE d.out[i].closed = Marks(d, i)
      <4>1. a.out[i].closed = Marks(a, i) /\ OwnedBy(a, i)
        BY <2>1 DEF Good, Marked, OwnIndices
      <4>2. CASE i = a.rIdx
        BY <1>2, <2>2, <2>3, <2>4, <2>6, <4>1, <4>2 DEF Marks
      <4>3. CASE i # a.rIdx
        <5>1. a.out[i].kind # "reasoning"
          BY <4>1, <4>3 DEF OwnedBy
        <5>2. Marks(d, i) = Marks(a, i) /\ Marks(a, i) \in Nat
          BY <2>3, <2>6, <5>1 DEF Marks
        <5> QED BY <2>3, <2>6, <4>1, <4>3, <5>2
      <4> QED BY <4>2, <4>3
    <3> QED BY <1>2, <2>1, <2>6, <3>1 DEF Good, Marked
  <2>9. CallsKnown(d)
    BY <2>1, <2>3, <2>6 DEF Good, CallsKnown, OwnIndices
  <2>10. FinishReasoning(a) = d
    BY <1>2 DEF FinishReasoning, c, d
  <2>11. Frame(a, d, { "out", "rDone" })
    BY <2>3, <2>4 DEF Frame
  <2> QED BY <2>5, <2>6, <2>7, <2>8, <2>9, <2>10, <2>11 DEF Good, KeepsCalls
<1> QED BY <1>1, <1>2

(***************************************************************************)
(* The message item is announced in the same way as the reasoning item.    *)
(***************************************************************************)
LEMMA StartMessageGood ==
    ASSUME NEW a, Good(a), a.tIdx = NoIndex
    PROVE  LET b == [ Announce(a, "message", NoKey, NoId) EXCEPT !.tIdx = a.next ]
           IN  Good(b) /\ KeepsCalls(a, b) /\ b.tIdx = a.next /\ b.next = a.next + 1
<1> DEFINE c == Announce(a, "message", NoKey, NoId)
           b == [ c EXCEPT !.tIdx = a.next ]
<1>1. AssemblerType(a) /\ DOMAIN a.out = 0..(a.next - 1) /\ a.next \in Nat
  BY DEF Good, AssemblerType
<1>2. /\ AssemblerType(c)
      /\ Frame(a, c, { "next", "out" })
      /\ c.next = a.next + 1
      /\ c.out[a.next].kind = "message" /\ c.out[a.next].key = NoKey
      /\ c.out[a.next].closed = 0
      /\ \A i \in 0..(a.next - 1) : c.out[i] = a.out[i]
  BY <1>1, AnnounceFields DEF Kinds, NoKey, NoId, Ids
<1> HIDE DEF c
<1>3. /\ DOMAIN b = Fields /\ b.tIdx = a.next
      /\ \A f \in Fields \ { "tIdx" } : b[f] = c[f]
  BY <1>2 DEF AssemblerType, Fields
<1> HIDE DEF b
<1>4. AssemblerType(b)
  BY <1>1, <1>2, <1>3 DEF AssemblerType, Fields
<1>5. /\ b.out = c.out /\ b.next = a.next + 1 /\ DOMAIN b.out = 0..a.next
      /\ b.calls = a.calls /\ b.rIdx = a.rIdx /\ b.rDone = a.rDone /\ b.tDone = a.tDone
      /\ Keeps(a, b)
  BY <1>1, <1>2, <1>3, <1>4 DEF AssemblerType, Frame, Fields, Keeps, Outcomes
<1>6. a.tDone = FALSE
  BY DEF Good, Marked, AssemblerType
<1>7. OwnIndices(b)
  <2>1. ASSUME NEW i \in 0..a.next PROVE OwnedBy(b, i)
    <3>1. CASE i = a.next
      BY <1>2, <1>3, <1>5, <3>1 DEF OwnedBy
    <3>2. CASE i # a.next
      <4>1. i \in 0..(a.next - 1) /\ OwnedBy(a, i) /\ b.out[i] = a.out[i]
        BY <1>1, <1>2, <1>5, <3>2 DEF Good, OwnIndices
      <4>2. a.out[i].kind # "message"
        BY <4>1 DEF OwnedBy, NoIndex
      <4> QED BY <1>5, <4>1, <4>2 DEF OwnedBy
    <3> QED BY <3>1, <3>2
  <2>2. /\ b.tIdx \in DOMAIN b.out
        /\ b.out[b.tIdx].kind = "message" /\ b.out[b.tIdx].key = NoKey
    BY <1>1, <1>2, <1>3, <1>5
  <2>3. b.rIdx # NoIndex => /\ b.rIdx \in DOMAIN b.out /\ b.out[b.rIdx].kind = "reasoning"
                           /\ b.out[b.rIdx].key = NoKey
    BY <1>1, <1>2, <1>5 DEF Good, OwnIndices
  <2>4. \A k \in Indices : b.calls[k].added =>
          /\ b.calls[k].idx \in DOMAIN b.out
          /\ b.out[b.calls[k].idx].kind = "call"
          /\ b.out[b.calls[k].idx].key = k
    BY <1>1, <1>2, <1>5, SMTT(30) DEF Good, OwnIndices
  <2> QED BY <1>5, <2>1, <2>2, <2>3, <2>4 DEF OwnIndices
<1>8. Marked(b)
  BY <1>1, <1>2, <1>3, <1>5, <1>6 DEF Good, Marked, Marks, NoIndex
<1>9. CallsKnown(b)
  BY <1>1, <1>2, <1>5 DEF Good, CallsKnown, OwnIndices
<1> QED BY <1>3, <1>4, <1>5, <1>7, <1>8, <1>9 DEF b, c, Good, KeepsCalls

(***************************************************************************)
(* Closing the message item.                                               *)
(***************************************************************************)
LEMMA CloseMessageGood ==
    ASSUME NEW a, Good(a), a.tIdx # NoIndex, ~a.tDone
    PROVE  LET d == [ Close(a, a.tIdx, a.content) EXCEPT !.tDone = TRUE ]
           IN  Good(d) /\ KeepsCalls(a, d)
<1> DEFINE c == Close(a, a.tIdx, a.content)
           d == [ c EXCEPT !.tDone = TRUE ]
<1>0. a.tIdx # NoIndex /\ ~a.tDone
  OBVIOUS
<1>1. AssemblerType(a) /\ DOMAIN a.out = 0..(a.next - 1) /\ a.content \in Text
  BY DEF Good, AssemblerType
<1>2. a.tIdx \in 0..(a.next - 1) /\ a.out[a.tIdx].kind = "message"
  BY <1>0, <1>1 DEF Good, OwnIndices
<1>3. /\ AssemblerType(c)
      /\ Frame(a, c, { "out" })
      /\ \A j \in 0..(a.next - 1) :
           /\ c.out[j].kind = a.out[j].kind /\ c.out[j].key = a.out[j].key
           /\ c.out[j].id = a.out[j].id
           /\ c.out[j].closed = a.out[j].closed + (IF j = a.tIdx THEN 1 ELSE 0)
  BY <1>1, <1>2, CloseFields
<1> HIDE DEF c
<1>4. /\ DOMAIN d = Fields /\ d.tDone = TRUE
      /\ \A f \in Fields \ { "tDone" } : d[f] = c[f]
  BY <1>3 DEF AssemblerType, Fields
<1> HIDE DEF d
<1>5. AssemblerType(d)
  BY <1>3, <1>4 DEF AssemblerType, Fields
<1>6. /\ d.out = c.out /\ d.next = a.next /\ DOMAIN d.out = DOMAIN a.out
      /\ d.calls = a.calls /\ d.rIdx = a.rIdx /\ d.tIdx = a.tIdx /\ d.rDone = a.rDone
      /\ Keeps(a, d)
  BY <1>1, <1>3, <1>4, <1>5 DEF AssemblerType, Frame, Fields, Keeps, Outcomes
<1>7. OwnIndices(d)
  BY <1>1, <1>3, <1>6 DEF Good, OwnIndices, OwnedBy
<1>8. Marked(d)
  <2>1. ASSUME NEW i \in 0..(a.next - 1) PROVE d.out[i].closed = Marks(d, i)
    <3>1. a.out[i].closed = Marks(a, i) /\ OwnedBy(a, i)
      BY <1>1 DEF Good, Marked, OwnIndices
    <3>2. CASE i = a.tIdx
      BY <1>0, <1>2, <1>3, <1>4, <1>6, <3>1, <3>2 DEF Marks
    <3>3. CASE i # a.tIdx
      <4>1. a.out[i].kind # "message"
        BY <3>1, <3>3 DEF OwnedBy
      <4>2. Marks(d, i) = Marks(a, i) /\ Marks(a, i) \in Nat
        BY <1>3, <1>6, <4>1 DEF Marks
      <4> QED BY <1>3, <1>6, <3>1, <3>3, <4>2
    <3> QED BY <3>2, <3>3
  <2> QED BY <1>0, <1>1, <1>6, <2>1 DEF Good, Marked
<1>9. CallsKnown(d)
  BY <1>1, <1>3, <1>6 DEF Good, CallsKnown, OwnIndices
<1> QED BY <1>5, <1>6, <1>7, <1>8, <1>9 DEF c, d, Good, KeepsCalls

(***************************************************************************)
(* The message item has an index after ensure_text_started.                *)
(***************************************************************************)
LEMMA EnsureTextStartedGood ==
    ASSUME NEW a, Good(a)
    PROVE  LET b == EnsureTextStarted(a)
           IN  Good(b) /\ KeepsCalls(a, b) /\ b.tIdx \in 0..(b.next - 1)
               /\ b.tDone = a.tDone /\ b.content = a.content
<1> DEFINE b == FinishReasoning(a)
           c == [ Announce(b, "message", NoKey, NoId) EXCEPT !.tIdx = b.next ]
<1>1. CASE a.tIdx # NoIndex
  BY <1>1 DEF EnsureTextStarted, KeepsCalls, Keeps, Good, OwnIndices, AssemblerType
<1>2. CASE a.tIdx = NoIndex
  <2>1. Good(b) /\ KeepsCalls(a, b) /\ b.tIdx = NoIndex /\ b.tDone = a.tDone
        /\ b.content = a.content
    BY <1>2, FinishReasoningGood DEF Frame, Fields
  <2> HIDE DEF b
  <2>2. Good(c) /\ KeepsCalls(b, c) /\ c.tIdx = b.next /\ c.next = b.next + 1
        /\ b.next \in Nat
    BY <2>1, StartMessageGood DEF Good, AssemblerType
  <2>3. c.tDone = b.tDone /\ c.content = b.content
    BY <2>1 DEF Announce, Good, AssemblerType, Fields
  <2> HIDE DEF c
  <2>4. KeepsCalls(a, c)
    BY <2>1, <2>2 DEF KeepsCalls, Keeps, Outcomes
  <2>5. EnsureTextStarted(a) = c
    BY <1>2 DEF EnsureTextStarted, b, c
  <2> QED BY <2>1, <2>2, <2>3, <2>4, <2>5
<1> QED BY <1>1, <1>2

(***************************************************************************)
(* Text, sent at once or held back until the tool decision.                *)
(***************************************************************************)
LEMMA PushTextGood ==
    ASSUME NEW a, Good(a), NEW t \in Text
    PROVE  Good(PushText(a, t)) /\ KeepsCalls(a, PushText(a, t))
<1> DEFINE b == EnsureTextStarted(a)
           Add(x) == [ x EXCEPT !.content = @ \o t ]
<1>1. ASSUME NEW x, Good(x)
      PROVE  Good(Add(x)) /\ KeepsCalls(x, Add(x))
  <2>1. DOMAIN Add(x) = Fields /\ (\A f \in Fields \ { "content" } : Add(x)[f] = x[f])
        /\ Add(x).content = x.content \o t /\ x.content \in Text
    BY <1>1 DEF Good, AssemblerType, Fields
  <2>2. Add(x).content \in Text
    BY <2>1, ConcatProperties DEF Text
  <2> HIDE DEF Add
  <2>3. AssemblerType(Add(x))
    BY <1>1, <2>1, <2>2 DEF Good, AssemblerType, Fields
  <2>4. Frame(x, Add(x), Loose)
    BY <2>1 DEF Frame, Loose
  <2>5. Good(Add(x))
    BY <1>1, <2>3, <2>4, LooseGood
  <2> QED BY <2>1, <2>5 DEF KeepsCalls, Keeps, Outcomes, Fields
<1>2. Good(b) /\ KeepsCalls(a, b) /\ b.tIdx \in 0..(b.next - 1)
  BY EnsureTextStartedGood
<1> DEFINE d == Delta(b, b.tIdx, t)
<1>3. PushText(a, t) \in { a, Add(a), Add(d) }
  BY DEF PushText
<1> HIDE DEF b, Add
<1>4. Good(d) /\ Frame(b, d, { "out" })
  BY <1>2, DeltaGood
<1> HIDE DEF d
<1>5. KeepsCalls(a, d)
  BY <1>2, <1>4 DEF KeepsCalls, Keeps, Outcomes, Frame, Fields
<1>6. Good(Add(d)) /\ KeepsCalls(a, Add(d))
  BY <1>1, <1>4, <1>5 DEF KeepsCalls, Keeps
<1>7. Good(Add(a)) /\ KeepsCalls(a, Add(a))
  BY <1>1
<1> QED BY <1>3, <1>6, <1>7 DEF KeepsCalls, Keeps

(***************************************************************************)
(* Closing the message, with its whole text as one delta if it was held    *)
(* back.                                                                   *)
(***************************************************************************)
LEMMA FinishTextGood ==
    ASSUME NEW a, Good(a)
    PROVE  Good(FinishText(a)) /\ KeepsCalls(a, FinishText(a))
<1> DEFINE b == EnsureTextStarted(a)
           c == IF b.buffered THEN Delta(b, b.tIdx, b.content) ELSE b
           d == [ Close(c, c.tIdx, c.content) EXCEPT !.tDone = TRUE ]
<1>1. CASE a.content = << >> \/ a.tDone
  BY <1>1 DEF FinishText, KeepsCalls, Keeps
<1>2. CASE a.content # << >> /\ ~a.tDone
  <2>1. /\ Good(b) /\ KeepsCalls(a, b) /\ b.tIdx \in 0..(b.next - 1)
        /\ b.tDone = a.tDone /\ b.content \in Text /\ b.next \in Nat
    BY EnsureTextStartedGood DEF Good, AssemblerType
  <2> HIDE DEF b
  <2>2. Good(c) /\ KeepsCalls(b, c) /\ c.tIdx = b.tIdx /\ c.tDone = b.tDone
    <3>1. CASE b.buffered
      <4>1. c = Delta(b, b.tIdx, b.content)
        BY <3>1
      <4> QED BY <2>1, <4>1, DeltaGood DEF Frame, Fields, KeepsCalls, Keeps, Outcomes
    <3>2. CASE ~b.buffered
      BY <2>1, <3>2 DEF KeepsCalls, Keeps
    <3> QED BY <3>1, <3>2
  <2> HIDE DEF c
  <2>3. c.tIdx # NoIndex /\ ~c.tDone
    BY <1>2, <2>1, <2>2 DEF NoIndex
  <2>4. Good(d) /\ KeepsCalls(c, d)
    BY <2>2, <2>3, CloseMessageGood
  <2> HIDE DEF d
  <2>5. KeepsCalls(a, d)
    BY <2>1, <2>2, <2>4 DEF KeepsCalls, Keeps, Outcomes
  <2>6. FinishText(a) = d
    BY <1>2 DEF FinishText, b, c, d
  <2> QED BY <2>4, <2>5, <2>6
<1> QED BY <1>1, <1>2

------------------------------------------------------------------------------
(***************************************************************************)
(* The detection of a think block.                                         *)
(***************************************************************************)

(***************************************************************************)
(* What a method keeps, two of them in a row keep.                         *)
(***************************************************************************)
LEMMA KeepsCallsTransitive ==
    ASSUME NEW a, NEW b, NEW c, KeepsCalls(a, b), KeepsCalls(b, c)
    PROVE  KeepsCalls(a, c)
  BY DEF KeepsCalls, Keeps

(***************************************************************************)
(* The think buffer and the state of the detection are free.               *)
(***************************************************************************)
LEMMA SetThinkGood ==
    ASSUME NEW a, Good(a), NEW s \in Text, NEW st \in Thinking
    PROVE  LET b == [ a EXCEPT !.buf = s, !.think = st ]
           IN  Good(b) /\ KeepsCalls(a, b)
<1> DEFINE b == [ a EXCEPT !.buf = s, !.think = st ]
<1>1. DOMAIN b = Fields /\ b.buf = s /\ b.think = st
      /\ \A f \in Fields \ { "buf", "think" } : b[f] = a[f]
  BY DEF Good, AssemblerType, Fields
<1> HIDE DEF b
<1>2. AssemblerType(b)
  BY <1>1 DEF Good, AssemblerType, Fields
<1>3. Frame(a, b, Loose)
  BY <1>1 DEF Frame, Loose
<1>4. Good(b)
  BY <1>2, <1>3, LooseGood
<1>5. KeepsCalls(a, b)
  BY <1>1 DEF KeepsCalls, Keeps, Outcomes, Fields
<1> QED BY <1>4, <1>5 DEF b

\* Replacing the think buffer keeps an assembler good.
LEMMA SetBufferGood ==
    ASSUME NEW a, Good(a), NEW s \in Text
    PROVE  Good([ a EXCEPT !.buf = s ]) /\ KeepsCalls(a, [ a EXCEPT !.buf = s ])
<1> DEFINE b == [ a EXCEPT !.buf = s ]
<1>1. DOMAIN b = Fields /\ b.buf = s /\ \A f \in Fields \ { "buf" } : b[f] = a[f]
  BY DEF Good, AssemblerType, Fields
<1> HIDE DEF b
<1>2. AssemblerType(b)
  BY <1>1 DEF Good, AssemblerType, Fields
<1>3. Frame(a, b, Loose)
  BY <1>1 DEF Frame, Loose
<1>4. Good(b)
  BY <1>2, <1>3, LooseGood
<1>5. KeepsCalls(a, b)
  BY <1>1 DEF KeepsCalls, Keeps, Outcomes, Fields
<1> QED BY <1>4, <1>5 DEF b

\* Changing the state of the think detection keeps an assembler good.
LEMMA SetStateGood ==
    ASSUME NEW a, Good(a), NEW st \in Thinking
    PROVE  Good([ a EXCEPT !.think = st ]) /\ KeepsCalls(a, [ a EXCEPT !.think = st ])
<1> DEFINE b == [ a EXCEPT !.think = st ]
<1>1. DOMAIN b = Fields /\ b.think = st /\ \A f \in Fields \ { "think" } : b[f] = a[f]
  BY DEF Good, AssemblerType, Fields
<1> HIDE DEF b
<1>2. AssemblerType(b)
  BY <1>1 DEF Good, AssemblerType, Fields
<1>3. Frame(a, b, Loose)
  BY <1>1 DEF Frame, Loose
<1>4. Good(b)
  BY <1>2, <1>3, LooseGood
<1>5. KeepsCalls(a, b)
  BY <1>1 DEF KeepsCalls, Keeps, Outcomes, Fields
<1> QED BY <1>4, <1>5 DEF b

(***************************************************************************)
(* Flushing moves the held back text on, as text or as reasoning.          *)
(***************************************************************************)
LEMMA FlushGood ==
    ASSUME NEW a, Good(a)
    PROVE  Good(FlushThinkBuffer(a)) /\ KeepsCalls(a, FlushThinkBuffer(a))
<1> DEFINE b == [ a EXCEPT !.buf = << >>, !.think = "Done" ]
<1>1. Good(b) /\ KeepsCalls(a, b) /\ a.buf \in Text /\ a.think \in Thinking
  BY SetThinkGood, EmptyText, ZenonT(60) DEF Thinking, Good, AssemblerType
<1>2. FlushThinkBuffer(a) \in { a, PushText(b, a.buf), PushReasoning(b, a.buf) }
  BY <1>1 DEF FlushThinkBuffer, Thinking
<1> HIDE DEF b
<1>3. Good(PushText(b, a.buf)) /\ KeepsCalls(a, PushText(b, a.buf))
  BY <1>1, PushTextGood, KeepsCallsTransitive
<1>4. Good(PushReasoning(b, a.buf)) /\ KeepsCalls(a, PushReasoning(b, a.buf))
  BY <1>1, PushReasoningGood, KeepsCallsTransitive
<1>5. KeepsCalls(a, a)
  BY DEF KeepsCalls, Keeps
<1> QED BY <1>2, <1>3, <1>4, <1>5, SMTT(30)

(***************************************************************************)
(* The text on both sides of a closing tag.                                *)
(***************************************************************************)
LEMMA LeaveThinkGood ==
    ASSUME NEW a, Good(a), NEW r \in Text, NEW t \in Text
    PROVE  Good(LeaveThink(a, r, t)) /\ KeepsCalls(a, LeaveThink(a, r, t))
<1> DEFINE b == PushReasoning(a, r)
           c == [ b EXCEPT !.buf = << >>, !.think = "Done" ]
<1>1. Good(b) /\ KeepsCalls(a, b)
  BY PushReasoningGood
<1> HIDE DEF b
<1>2. Good(c) /\ KeepsCalls(b, c)
  BY <1>1, SetThinkGood, EmptyText DEF Thinking
<1> HIDE DEF c
<1>3. Good(PushText(c, t)) /\ KeepsCalls(c, PushText(c, t))
  BY <1>2, PushTextGood
<1>4. KeepsCalls(a, c)
  BY <1>1, <1>2, KeepsCallsTransitive
<1>5. KeepsCalls(a, PushText(c, t))
  BY <1>3, <1>4, KeepsCallsTransitive
<1> QED BY <1>3, <1>5 DEF LeaveThink, b, c

(***************************************************************************)
(* Text inside an open block.                                              *)
(***************************************************************************)
LEMMA AcceptInThinkGood ==
    ASSUME NEW a, Good(a), NEW t \in Text
    PROVE  Good(AcceptInThink(a, t)) /\ KeepsCalls(a, AcceptInThink(a, t))
<1> DEFINE s == a.buf \o t
           b == PushReasoning(a, Settled(s))
           c == [ b EXCEPT !.buf = Held(s) ]
<1>1. s \in Text
  BY ConcatProperties DEF Good, AssemblerType, Text
<1> HIDE DEF s
<1>2. CASE HasClose(s)
  <2>1. BeforeClose(s) \in Text /\ AfterClose(s) \in Text
    BY <1>1, <1>2, CloseTypes
  <2>2. AcceptInThink(a, t) = LeaveThink(a, BeforeClose(s), AfterClose(s))
    BY <1>2 DEF AcceptInThink, s
  <2> QED BY <2>1, <2>2, LeaveThinkGood
<1>3. CASE ~HasClose(s)
  <2>1. Held(s) \in Text /\ Settled(s) \in Text
    BY <1>1, HeldTypes
  <2>2. Good(b) /\ KeepsCalls(a, b)
    BY <2>1, PushReasoningGood
  <2>3. AcceptInThink(a, t) = c
    BY <1>3 DEF AcceptInThink, s
  <2> HIDE DEF b
  <2>4. Good(c) /\ KeepsCalls(b, c)
    BY <2>1, <2>2, SetBufferGood
  <2> HIDE DEF c
  <2>5. KeepsCalls(a, c)
    BY <2>2, <2>4, KeepsCallsTransitive
  <2> QED BY <2>3, <2>4, <2>5
<1> QED BY <1>2, <1>3

(***************************************************************************)
(* The first text, which may open a block.                                 *)
(***************************************************************************)
LEMMA DetectThinkGood ==
    ASSUME NEW a, Good(a), NEW s \in Text
    PROVE  Good(DetectThink(a, s)) /\ KeepsCalls(a, DetectThink(a, s))
<1>1. CASE HasBlock(s)
  <2>1. BlockReasoning(s) \in Text /\ BlockAnswer(s) \in Text
    BY <1>1, BlockTypes
  <2> QED BY <1>1, <2>1, LeaveThinkGood DEF DetectThink
<1>2. CASE ~HasBlock(s) /\ HasOpen(s)
  <2> DEFINE b == [ a EXCEPT !.buf = << >>, !.think = "InThink" ]
  <2>1. Trim(AfterOpen(s)) \in Text
    BY AfterOpenType, TrimTypes
  <2>2. Good(b) /\ KeepsCalls(a, b)
    BY SetThinkGood, EmptyText DEF Thinking
  <2>3. DetectThink(a, s) = AcceptInThink(b, Trim(AfterOpen(s)))
    BY <1>2 DEF DetectThink
  <2> HIDE DEF b
  <2> QED BY <2>1, <2>2, <2>3, AcceptInThinkGood, KeepsCallsTransitive
<1>3. CASE ~HasBlock(s) /\ ~HasOpen(s) /\ MayBecomeOpen(s)
  BY <1>3, SetBufferGood DEF DetectThink
<1>4. CASE ~HasBlock(s) /\ ~HasOpen(s) /\ ~MayBecomeOpen(s)
  <2> DEFINE b == [ a EXCEPT !.buf = << >>, !.think = "Done" ]
  <2>1. Good(b) /\ KeepsCalls(a, b)
    BY SetThinkGood, EmptyText DEF Thinking
  <2>2. DetectThink(a, s) = PushText(b, s)
    BY <1>4 DEF DetectThink
  <2> HIDE DEF b
  <2> QED BY <2>1, <2>2, PushTextGood, KeepsCallsTransitive
<1> QED BY <1>1, <1>2, <1>3, <1>4

(***************************************************************************)
(* A content delta.                                                        *)
(***************************************************************************)
LEMMA AcceptContentGood ==
    ASSUME NEW a, Good(a), NEW t \in Text
    PROVE  Good(AcceptContent(a, t)) /\ KeepsCalls(a, AcceptContent(a, t))
<1>1. a.buf \o t \in Text /\ a.think \in Thinking
  BY ConcatProperties DEF Good, AssemblerType, Text
<1>2. AcceptContent(a, t) \in { DetectThink(a, a.buf \o t), AcceptInThink(a, t), PushText(a, t) }
  BY <1>1 DEF AcceptContent, Thinking
<1> QED BY <1>1, <1>2, DetectThinkGood, AcceptInThinkGood, PushTextGood

(***************************************************************************)
(* A reasoning delta of the upstream.                                      *)
(***************************************************************************)
LEMMA AcceptReasoningGood ==
    ASSUME NEW a, Good(a), NEW t \in Text
    PROVE  Good(AcceptReasoning(a, t)) /\ KeepsCalls(a, AcceptReasoning(a, t))
<1> DEFINE b == FlushThinkBuffer(a)
           c == [ b EXCEPT !.think = "Done" ]
<1>1. Good(b) /\ KeepsCalls(a, b)
  BY FlushGood
<1> HIDE DEF b
<1>2. Good(c) /\ KeepsCalls(b, c)
  BY <1>1, SetStateGood DEF Thinking
<1> HIDE DEF c
<1>3. Good(PushReasoning(c, t)) /\ KeepsCalls(c, PushReasoning(c, t))
  BY <1>2, PushReasoningGood
<1>4. KeepsCalls(a, c)
  BY <1>1, <1>2, KeepsCallsTransitive
<1>5. KeepsCalls(a, PushReasoning(c, t))
  BY <1>3, <1>4, KeepsCallsTransitive
<1> QED BY <1>3, <1>5 DEF AcceptReasoning, DisableThinkDetection, b, c

(***************************************************************************)
(* What a tool_calls array does first.                                     *)
(***************************************************************************)
LEMMA BeginToolsGood ==
    ASSUME NEW a, Good(a)
    PROVE  Good(BeginTools(a)) /\ KeepsCalls(a, BeginTools(a))
<1>1. Good(FlushThinkBuffer(a)) /\ KeepsCalls(a, FlushThinkBuffer(a))
  BY FlushGood
<1> QED BY <1>1, FinishReasoningGood, KeepsCallsTransitive DEF BeginTools

(***************************************************************************)
(* The finish reason, given by the upstream or by its absence.             *)
(***************************************************************************)
LEMMA SetFinishGood ==
    ASSUME NEW a, Good(a), NEW reason \in Finishes
    PROVE  LET b == [ a EXCEPT !.finish = reason ]
           IN  Good(b) /\ KeepsCalls(a, b)
<1> DEFINE b == [ a EXCEPT !.finish = reason ]
<1>1. DOMAIN b = Fields /\ b.finish = reason /\ \A f \in Fields \ { "finish" } : b[f] = a[f]
  BY DEF Good, AssemblerType, Fields
<1> HIDE DEF b
<1>2. AssemblerType(b)
  BY <1>1 DEF Good, AssemblerType, Fields
<1>3. Frame(a, b, Loose)
  BY <1>1 DEF Frame, Loose
<1>4. Good(b)
  BY <1>2, <1>3, LooseGood
<1>5. KeepsCalls(a, b)
  BY <1>1 DEF KeepsCalls, Keeps, Outcomes, Fields
<1> QED BY <1>4, <1>5 DEF b

\* Taking over a finish reason, or making one up, keeps an assembler good.
LEMMA FinishGood ==
    ASSUME NEW a, Good(a), NEW reason \in Finishes
    PROVE  /\ Good(AcceptFinish(a, reason)) /\ KeepsCalls(a, AcceptFinish(a, reason))
           /\ Good(MarkTruncated(a)) /\ KeepsCalls(a, MarkTruncated(a))
<1>1. a.finish \in Finishes /\ "length" \in Finishes
  BY DEF Good, AssemblerType, Finishes
<1>2. MarkTruncated(a) = [ a EXCEPT !.finish = IF a.finish = Absent THEN "length" ELSE a.finish ]
  BY DEF MarkTruncated
<1>3. (IF a.finish = Absent THEN "length" ELSE a.finish) \in Finishes
  BY <1>1
<1> QED BY <1>2, <1>3, SetFinishGood DEF AcceptFinish

------------------------------------------------------------------------------
(***************************************************************************)
(* Tool calls.                                                             *)
(***************************************************************************)

(***************************************************************************)
(* A call may gain arguments at any time, an id and a name until it is     *)
(* announced.                                                              *)
(***************************************************************************)
LEMMA SetCallGood ==
    ASSUME NEW a, Good(a), NEW k \in Indices, NEW call \in Call,
           call.added = a.calls[k].added, call.idx = a.calls[k].idx,
           call.added => call.id = a.calls[k].id /\ call.name = a.calls[k].name
    PROVE  LET b == [ a EXCEPT !.calls[k] = call ]
           IN  Good(b) /\ Keeps(a, b) /\ b.calls[k] = call /\ b.next = a.next
<1> DEFINE b == [ a EXCEPT !.calls[k] = call ]
<1>1. a.calls \in [ Indices -> Call ] /\ DOMAIN a = Fields
  BY DEF Good, AssemblerType
<1>2. DOMAIN b = Fields /\ b.calls = [ a.calls EXCEPT ![k] = call ]
      /\ \A f \in Fields \ { "calls" } : b[f] = a[f]
  BY <1>1 DEF Fields
<1> HIDE DEF b
<1>3. b.calls \in [ Indices -> Call ] /\ b.calls[k] = call
      /\ \A j \in Indices \ { k } : b.calls[j] = a.calls[j]
  BY <1>1, <1>2
<1>4. AssemblerType(b)
  BY <1>2, <1>3 DEF Good, AssemblerType, Fields
<1>5. /\ b.out = a.out /\ b.next = a.next /\ b.rIdx = a.rIdx /\ b.tIdx = a.tIdx
      /\ b.rDone = a.rDone /\ b.tDone = a.tDone /\ Keeps(a, b)
  BY <1>2 DEF Fields, Keeps, Outcomes
<1>6. \A j \in Indices : /\ b.calls[j].added = a.calls[j].added
                         /\ b.calls[j].idx = a.calls[j].idx
                         /\ a.calls[j].added => /\ b.calls[j].id = a.calls[j].id
                                                /\ b.calls[j].name = a.calls[j].name
  BY <1>3
<1>7. OwnIndices(b)
  BY <1>5, <1>6 DEF Good, OwnIndices, OwnedBy
<1>8. Marked(b)
  BY <1>5 DEF Good, Marked, Marks
<1>9. CallsKnown(b)
  BY <1>5, <1>6 DEF Good, CallsKnown
<1> QED BY <1>3, <1>4, <1>5, <1>7, <1>8, <1>9 DEF b, Good

(***************************************************************************)
(* Announcing a call.                                                      *)
(***************************************************************************)
LEMMA StartCallGood ==
    ASSUME NEW a, Good(a), NEW k \in Indices, ~a.calls[k].added,
           a.calls[k].id # NoId, a.calls[k].name # Absent
    PROVE  LET id == a.calls[k].id
               b == [ Announce(a, "call", k, id) EXCEPT
                        !.calls[k] = Announced(a.calls[k], id, a.next) ]
           IN  Good(b) /\ Keeps(a, b) /\ b.calls[k].added
<1> DEFINE id == a.calls[k].id
           c == Announce(a, "call", k, id)
           call == Announced(a.calls[k], id, a.next)
           b == [ c EXCEPT !.calls[k] = call ]
<1>0. ~a.calls[k].added /\ id # NoId /\ a.calls[k].name # Absent
  OBVIOUS
<1>1. /\ AssemblerType(a) /\ DOMAIN a.out = 0..(a.next - 1) /\ a.next \in Nat
      /\ a.calls \in [ Indices -> Call ]
  BY DEF Good, AssemblerType
<1>2. id \in Ids /\ k \in Int
  BY <1>1, IndicesAssumption DEF Call
<1>3. call \in Call /\ call.added /\ call.id = id /\ call.idx = a.next
      /\ call.name = a.calls[k].name
  BY <1>1 DEF Announced, Call
<1> HIDE DEF id, call
<1>4. /\ AssemblerType(c)
      /\ Frame(a, c, { "next", "out" })
      /\ c.next = a.next + 1
      /\ c.out[a.next].kind = "call" /\ c.out[a.next].key = k
      /\ c.out[a.next].id = id /\ c.out[a.next].closed = 0
      /\ \A i \in 0..(a.next - 1) : c.out[i] = a.out[i]
  BY <1>1, <1>2, AnnounceFields DEF Kinds
<1> HIDE DEF c
<1>5. DOMAIN b = Fields /\ b.calls = [ c.calls EXCEPT ![k] = call ]
      /\ \A f \in Fields \ { "calls" } : b[f] = c[f]
  BY <1>4 DEF AssemblerType, Fields
<1> HIDE DEF b
<1>6. c.calls = a.calls
  BY <1>4 DEF Frame, Fields
<1>7. b.calls \in [ Indices -> Call ] /\ b.calls[k] = call
      /\ \A j \in Indices \ { k } : b.calls[j] = a.calls[j]
  BY <1>1, <1>3, <1>5, <1>6
<1>8. AssemblerType(b)
  BY <1>4, <1>5, <1>7 DEF AssemblerType, Fields
<1>9. /\ b.out = c.out /\ b.next = a.next + 1 /\ DOMAIN b.out = 0..a.next
      /\ b.rIdx = a.rIdx /\ b.tIdx = a.tIdx /\ b.rDone = a.rDone /\ b.tDone = a.tDone
      /\ Keeps(a, b)
  BY <1>1, <1>4, <1>5, <1>8 DEF AssemblerType, Frame, Fields, Keeps, Outcomes
<1>10. OwnIndices(b)
  <2>1. ASSUME NEW i \in 0..a.next PROVE OwnedBy(b, i)
    <3>1. CASE i = a.next
      BY <1>3, <1>4, <1>7, <1>9, <3>1 DEF OwnedBy
    <3>2. CASE i # a.next
      <4>1. i \in 0..(a.next - 1) /\ OwnedBy(a, i) /\ b.out[i] = a.out[i]
        BY <1>1, <1>4, <1>9, <3>2 DEF Good, OwnIndices
      <4>2. CASE a.out[i].kind \in { "reasoning", "message" }
        BY <1>9, <4>1, <4>2 DEF OwnedBy
      <4>3. CASE a.out[i].kind \notin { "reasoning", "message" }
        <5>1. a.out[i].key \in Indices /\ a.calls[a.out[i].key].added
              /\ a.calls[a.out[i].key].idx = i
          BY <4>1, <4>3 DEF OwnedBy
        <5>2. a.out[i].key # k
          BY <1>0, <5>1
        <5> QED BY <1>7, <4>1, <4>3, <5>1, <5>2 DEF OwnedBy
      <4> QED BY <4>2, <4>3
    <3> QED BY <3>1, <3>2
  <2>2. b.rIdx # NoIndex => /\ b.rIdx \in DOMAIN b.out /\ b.out[b.rIdx].kind = "reasoning"
                           /\ b.out[b.rIdx].key = NoKey
    BY <1>1, <1>4, <1>9 DEF Good, OwnIndices
  <2>3. b.tIdx # NoIndex => /\ b.tIdx \in DOMAIN b.out /\ b.out[b.tIdx].kind = "message"
                           /\ b.out[b.tIdx].key = NoKey
    BY <1>1, <1>4, <1>9 DEF Good, OwnIndices
  <2>4. ASSUME NEW j \in Indices, b.calls[j].added
        PROVE  /\ b.calls[j].idx \in DOMAIN b.out
               /\ b.out[b.calls[j].idx].kind = "call"
               /\ b.out[b.calls[j].idx].key = j
    <3>1. CASE j = k
      BY <1>1, <1>3, <1>4, <1>7, <1>9, <3>1
    <3>2. CASE j # k
      <4>1. b.calls[j] = a.calls[j]
        BY <1>7, <3>2
      <4>2. /\ a.calls[j].idx \in 0..(a.next - 1)
            /\ a.out[a.calls[j].idx].kind = "call"
            /\ a.out[a.calls[j].idx].key = j
        BY <1>1, <2>4, <4>1 DEF Good, OwnIndices
      <4>3. b.out[a.calls[j].idx] = a.out[a.calls[j].idx] /\ a.calls[j].idx \in DOMAIN b.out
        BY <1>1, <1>4, <1>9, <4>2
      <4> QED BY <4>1, <4>2, <4>3
    <3> QED BY <3>1, <3>2
  <2> QED BY <1>9, <2>1, <2>2, <2>3, <2>4 DEF OwnIndices
<1>11. Marked(b)
  BY <1>1, <1>4, <1>9 DEF Good, Marked, Marks
<1>12. CallsKnown(b)
  <2>1. ASSUME NEW j \in Indices, b.calls[j].added
        PROVE  /\ b.calls[j].name # Absent /\ b.calls[j].id # NoId
               /\ b.out[b.calls[j].idx].id = b.calls[j].id
    <3>1. CASE j = k
      BY <1>0, <1>3, <1>4, <1>7, <1>9, <3>1
    <3>2. CASE j # k
      <4>1. b.calls[j] = a.calls[j] /\ a.calls[j].idx \in 0..(a.next - 1)
        BY <1>1, <1>7, <2>1, <3>2 DEF Good, OwnIndices
      <4> QED BY <1>4, <1>9, <2>1, <4>1 DEF Good, CallsKnown
    <3> QED BY <3>1, <3>2
  <2> QED BY <2>1 DEF CallsKnown
<1>13. b.calls[k].added
  BY <1>3, <1>7
<1> QED BY <1>8, <1>9, <1>10, <1>11, <1>12, <1>13 DEF b, c, id, call, Good

(***************************************************************************)
(* Argument deltas go to the item of the call.                             *)
(***************************************************************************)
LEMMA EmitArgumentsGood ==
    ASSUME NEW a, Good(a), NEW k \in Indices, NEW t \in Text
    PROVE  Good(EmitArguments(a, k, t)) /\ Keeps(a, EmitArguments(a, k, t))
<1> DEFINE b == Delta(a, a.calls[k].idx, t)
<1>1. CASE a.calls[k].added
  <2>1. a.calls[k].idx \in 0..(a.next - 1)
    BY <1>1 DEF Good, OwnIndices, AssemblerType
  <2>2. Good(b) /\ Frame(a, b, { "out" })
    BY <2>1, DeltaGood
  <2>3. EmitArguments(a, k, t) \in { a, b }
    BY DEF EmitArguments
  <2> HIDE DEF b
  <2> QED BY <2>2, <2>3 DEF Keeps, Frame, Outcomes, Fields
<1>2. CASE ~a.calls[k].added
  BY <1>2 DEF EmitArguments, Keeps
<1> QED BY <1>1, <1>2

(***************************************************************************)
(* A call that has an id and a name is announced, after the text and the   *)
(* reasoning before it are closed, with the arguments it has so far.       *)
(***************************************************************************)
LEMMA EnsureToolStartedGood ==
    ASSUME NEW a, Good(a), NEW k \in Indices
    PROVE  Good(EnsureToolStarted(a, k)) /\ Keeps(a, EnsureToolStarted(a, k))
<1> DEFINE x == IF a.buffered THEN a ELSE FinishText(a)
           b == FinishReasoning(x)
           c == [ Announce(b, "call", k, b.calls[k].id)
                  EXCEPT !.calls[k] = Announced(b.calls[k], b.calls[k].id, b.next) ]
           d == EmitArguments(c, k, c.calls[k].args)
<1>1. CASE a.calls[k].added \/ a.calls[k].id = NoId \/ a.calls[k].name = Absent
  BY <1>1 DEF EnsureToolStarted, Keeps
<1>2. CASE ~(a.calls[k].added \/ a.calls[k].id = NoId \/ a.calls[k].name = Absent)
  <2>1. Good(x) /\ KeepsCalls(a, x)
    <3>1. CASE a.buffered
      BY <3>1 DEF KeepsCalls, Keeps
    <3>2. CASE ~a.buffered
      BY <3>2, FinishTextGood
    <3> QED BY <3>1, <3>2
  <2> HIDE DEF x
  <2>2. Good(b) /\ KeepsCalls(a, b)
    BY <2>1, FinishReasoningGood, KeepsCallsTransitive
  <2> HIDE DEF b
  <2>3. ~b.calls[k].added /\ b.calls[k].id # NoId /\ b.calls[k].name # Absent
    BY <1>2, <2>2 DEF KeepsCalls
  <2>4. Good(c) /\ Keeps(b, c)
    BY <2>2, <2>3, StartCallGood
  <2>5. EnsureToolStarted(a, k) = d
    BY <1>2 DEF EnsureToolStarted, x, b
  <2> HIDE DEF c
  <2>6. c.calls[k].args \in Text
    BY <2>4 DEF Good, AssemblerType, Call
  <2>7. Good(d) /\ Keeps(c, d)
    BY <2>4, <2>6, EmitArgumentsGood
  <2> HIDE DEF d
  <2> QED BY <2>2, <2>4, <2>5, <2>7 DEF KeepsCalls, Keeps
<1> QED BY <1>1, <1>2, SMTT(30)

(***************************************************************************)
(* One element of a tool_calls array.                                      *)
(***************************************************************************)
LEMMA AcceptToolDeltaGood ==
    ASSUME NEW a, Good(a), NEW k \in Indices, NEW id \in Ids,
           NEW name \in Names \cup { Absent }, NEW args \in Text
    PROVE  LET b == AcceptToolDelta(a, k, id, name, args)
           IN  Good(b) /\ Keeps(a, b)
<1> DEFINE was == a.calls[k]
           now == [ id    |-> IF id # NoId /\ ~was.added THEN id ELSE was.id,
                    name  |-> IF name # Absent /\ ~was.added THEN name ELSE was.name,
                    args  |-> was.args \o args,
                    added |-> was.added,
                    idx   |-> was.idx ]
           c == [ a EXCEPT !.calls[k] = now ]
           b == EnsureToolStarted(c, k)
<1>1. was \in Call
  BY DEF Good, AssemblerType
<1>2. now \in Call
  <2>1. was.args \o args \in Text
    BY <1>1, ConcatProperties DEF Call, Text
  <2> QED BY <1>1, <2>1 DEF Call
<1>3. now.added = was.added /\ now.idx = was.idx
      /\ (now.added => now.id = was.id /\ now.name = was.name)
  OBVIOUS
<1>4. AcceptToolDelta(a, k, id, name, args) \in { b, EmitArguments(b, k, args) }
  BY DEF AcceptToolDelta
<1> HIDE DEF now
<1>5. Good(c) /\ Keeps(a, c)
  BY <1>2, <1>3, SetCallGood
<1> HIDE DEF c
<1>6. Good(b) /\ Keeps(c, b)
  BY <1>5, EnsureToolStartedGood
<1> HIDE DEF b
<1>7. Good(EmitArguments(b, k, args)) /\ Keeps(b, EmitArguments(b, k, args))
  BY <1>6, EmitArgumentsGood
<1> QED BY <1>4, <1>5, <1>6, <1>7 DEF Keeps

------------------------------------------------------------------------------
(***************************************************************************)
(* The end of a stream.                                                    *)
(***************************************************************************)

(***************************************************************************)
(* Rank numbers the members of a set from 0 on, in their order.            *)
(***************************************************************************)
LEMMA RankCounts ==
    ASSUME NEW S, IsFiniteSet(S), S \subseteq Int
    PROVE  /\ Cardinality(S) \in Nat
           /\ \A k \in S : Rank(S, k) \in 0..(Cardinality(S) - 1)
           /\ \A j, k \in S : Rank(S, j) = Rank(S, k) => j = k
           /\ \A i \in 0..(Cardinality(S) - 1) : \E k \in S : Rank(S, k) = i
<1> DEFINE Below(k) == { j \in S : j < k }
           f == [ k \in S |-> Rank(S, k) ]
           n == Cardinality(S)
<1>1. IsFiniteSet(S) /\ S \subseteq Int
  OBVIOUS
<1>2. n \in Nat
  BY <1>1, FS_CardinalityType
<1>3. ASSUME NEW k \in S
      PROVE  IsFiniteSet(Below(k)) /\ Rank(S, k) \in Nat /\ Rank(S, k) < n
  <2>1. IsFiniteSet(S \ { k }) /\ Cardinality(S \ { k }) = n - 1
    BY <1>1, FS_RemoveElement
  <2>2. Below(k) \in SUBSET (S \ { k })
    BY <1>1
  <2>3. IsFiniteSet(Below(k)) /\ Cardinality(Below(k)) =< Cardinality(S \ { k })
    BY <2>1, <2>2, FS_Subset
  <2>4. Cardinality(Below(k)) \in Nat
    BY <2>3, FS_CardinalityType
  <2> QED BY <1>2, <2>1, <2>3, <2>4 DEF Rank
<1>4. ASSUME NEW j \in S, NEW k \in S, j < k
      PROVE  Rank(S, j) # Rank(S, k)
  <2>0. j \in Int /\ k \in Int /\ \A i \in S : i \in Int /\ (i < j => i < k)
    BY <1>1, <1>4
  <2>1. Below(j) \in SUBSET Below(k) /\ j \in Below(k) /\ j \notin Below(j)
    <3>1. ~(j < j)
      BY <2>0
    <3>2. \A i \in Below(j) : i \in Below(k)
      BY <2>0
    <3>3. j \in Below(k)
      BY <1>4
    <3>4. j \notin Below(j)
      BY <3>1
    <3> QED BY <3>2, <3>3, <3>4
  <2>2. Below(j) # Below(k)
    BY <2>1
  <2>3. IsFiniteSet(Below(k))
    BY <1>3
  <2> HIDE DEF Below
  <2>4. Cardinality(Below(k)) # Cardinality(Below(j))
    BY <2>1, <2>2, <2>3, FS_Subset
  <2> QED BY <2>4 DEF Rank, Below
<1>5. \A j, k \in S : Rank(S, j) = Rank(S, k) => j = k
  <2>1. TAKE j, k \in S
  <2>2. j < k \/ k < j \/ j = k
    BY <1>1
  <2> QED BY <1>4, <2>2
<1>10. \A k \in S : Rank(S, k) \in 0..(n - 1)
  <2>1. TAKE k \in S
  <2>2. Rank(S, k) \in Nat /\ Rank(S, k) < n
    BY <1>3
  <2> HIDE DEF n
  <2> QED BY <1>2, <2>2
<1>6. f \in Injection(S, 0..(n - 1))
  <2>1. \A k \in S : Rank(S, k) \in 0..(n - 1)
    BY <1>10
  <2>2. f \in [ S -> 0..(n - 1) ]
    <3> HIDE DEF n
    <3> QED BY <2>1
  <2>3. \A j, k \in S : f[j] = f[k] => j = k
    BY <1>5
  <2> QED BY <2>2, <2>3 DEF Injection, IsInjective
<1>7. IsFiniteSet(0..(n - 1)) /\ Cardinality(0..(n - 1)) = n
  BY <1>2, FS_Interval
<1>8. f \in Surjection(S, 0..(n - 1))
  <2> HIDE DEF f
  <2> QED BY <1>6, <1>7, FS_Injection
<1>9. \A i \in 0..(n - 1) : \E k \in S : Rank(S, k) = i
  BY <1>8 DEF Surjection
<1> QED BY <1>2, <1>5, <1>9, <1>10

\* So it does the calls.
LEMMA RankNumbers ==
    ASSUME NEW S \in SUBSET Indices
    PROVE  /\ Cardinality(S) \in Nat
           /\ \A k \in S : Rank(S, k) \in 0..(Cardinality(S) - 1)
           /\ \A j, k \in S : Rank(S, j) = Rank(S, k) => j = k
           /\ \A i \in 0..(Cardinality(S) - 1) : \E k \in S : Rank(S, k) = i
<1>1. IsFiniteSet(S)
  BY IndicesAssumption, FS_Subset
<1>2. S \subseteq Int
  BY IndicesAssumption
<1> QED BY <1>1, <1>2, RankCounts

(***************************************************************************)
(* Arguments and inputs are texts.                                         *)
(***************************************************************************)
LEMMA FinalArgumentsType ==
    ASSUME NEW call \in Call
    PROVE  FinalArguments(call) \in Text
<1>1. "{" \in Token /\ "}" \in Token /\ "input" \in Token
  BY DEF Token
<1>2. << "{", "}" >> \in Text /\ << "input" >> \in Text /\ << >> \in Text
  <2>1. \A x, y \in Token : << x, y >> \in Seq(Token) /\ << x >> \in Seq(Token)
    OBVIOUS
  <2> QED BY <1>1, <2>1, EmptyText DEF Text
<1>3. call.args \in Text
  BY DEF Call
<1>4. Canonical(call.args) \in Text
  BY <1>2, <1>3 DEF Canonical
<1> QED BY <1>2, <1>4 DEF FinalArguments, CustomInput

(***************************************************************************)
(* Every call with a name has an output index of its own, and the ones     *)
(* that were not announced fill the indexes from a.next on.                *)
(***************************************************************************)
LEMMA Places ==
    ASSUME NEW a, Good(a)
    PROVE  LET last == a.next + Cardinality(Unannounced(a))
           IN  /\ last \in Nat /\ a.next \in Nat /\ a.next =< last
               /\ \A k \in Named(a) :
                    /\ Place(a, k) \in 0..(last - 1)
                    /\ IF a.calls[k].added
                       THEN Place(a, k) = a.calls[k].idx /\ Place(a, k) < a.next
                       ELSE Place(a, k) >= a.next
               /\ \A j, k \in Named(a) : Place(a, j) = Place(a, k) => j = k
               /\ \A i \in 0..(last - 1) :
                    (\A k \in Named(a) : Place(a, k) # i) =>
                       i < a.next /\ a.out[i].kind # "call"
<1> DEFINE U == Unannounced(a)
           n == Cardinality(U)
           last == a.next + n
<1>1. /\ AssemblerType(a) /\ DOMAIN a.out = 0..(a.next - 1) /\ a.next \in Nat
      /\ a.calls \in [ Indices -> Call ] /\ a.out \in [ 0..(a.next - 1) -> Item ]
  BY DEF Good, AssemblerType
<1>2. U \in SUBSET Indices /\ U = { k \in Named(a) : ~a.calls[k].added }
      /\ Named(a) \subseteq Indices
  BY DEF Unannounced, Named
<1>3. /\ n \in Nat
      /\ \A k \in U : Rank(U, k) \in 0..(n - 1)
      /\ \A j, k \in U : Rank(U, j) = Rank(U, k) => j = k
      /\ \A i \in 0..(n - 1) : \E k \in U : Rank(U, k) = i
  BY <1>2, RankNumbers
<1>4. \A k \in Named(a) : a.calls[k].added =>
        /\ Place(a, k) = a.calls[k].idx /\ Place(a, k) \in 0..(a.next - 1)
        /\ a.out[Place(a, k)].key = k
  BY <1>1, <1>2 DEF Good, OwnIndices, Place
<1>5. \A k \in U : Place(a, k) = a.next + Rank(U, k)
  BY <1>2 DEF Place
<1> HIDE DEF U, n
<1>6. last \in Nat /\ a.next =< last
  BY <1>1, <1>3
<1>7. ASSUME NEW k \in Named(a)
      PROVE  /\ Place(a, k) \in 0..(last - 1)
             /\ IF a.calls[k].added
                THEN Place(a, k) = a.calls[k].idx /\ Place(a, k) < a.next
                ELSE Place(a, k) >= a.next
  <2>1. CASE a.calls[k].added
    BY <1>1, <1>3, <1>4, <2>1
  <2>2. CASE ~a.calls[k].added
    <3>1. k \in U
      BY <1>2, <2>2
    <3> QED BY <1>1, <1>3, <1>5, <2>2, <3>1
  <2> QED BY <2>1, <2>2
<1>8. ASSUME NEW j \in Named(a), NEW k \in Named(a), Place(a, j) = Place(a, k)
      PROVE  j = k
  <2>1. CASE a.calls[j].added /\ a.calls[k].added
    BY <1>4, <1>8, <2>1
  <2>2. CASE ~a.calls[j].added /\ ~a.calls[k].added
    <3>1. j \in U /\ k \in U
      BY <1>2, <2>2
    <3>2. Rank(U, j) = Rank(U, k)
      BY <1>1, <1>3, <1>5, <1>8, <3>1
    <3> QED BY <1>3, <3>1, <3>2
  <2>3. CASE ~(a.calls[j].added <=> a.calls[k].added)
    BY <1>1, <1>6, <1>7, <1>8, <2>3
  <2> QED BY <2>1, <2>2, <2>3
<1>9. ASSUME NEW i \in 0..(last - 1), \A k \in Named(a) : Place(a, k) # i
      PROVE  i < a.next /\ a.out[i].kind # "call"
  <2>1. i < a.next
    <3>1. SUFFICES ASSUME i >= a.next PROVE FALSE
      BY <1>1, <1>6
    <3>2. i - a.next \in 0..(n - 1)
      BY <1>1, <1>3, <3>1
    <3>3. PICK k \in U : Rank(U, k) = i - a.next
      BY <1>3, <3>2
    <3>4. Place(a, k) = i /\ k \in Named(a)
      BY <1>1, <1>2, <1>5, <3>3
    <3> QED BY <1>9, <3>4
  <2>2. a.out[i].kind # "call"
    <3>1. SUFFICES ASSUME a.out[i].kind = "call" PROVE FALSE
      OBVIOUS
    <3>2. OwnedBy(a, i)
      BY <1>1, <2>1 DEF Good, OwnIndices
    <3> DEFINE k == a.out[i].key
    <3>3. k \in Indices /\ a.calls[k].added /\ a.calls[k].idx = i
      BY <3>1, <3>2 DEF OwnedBy
    <3>4. k \in Named(a)
      BY <3>3 DEF Good, CallsKnown, Named
    <3> QED BY <1>4, <1>9, <3>3, <3>4
  <2> QED BY <2>1, <2>2
<1> QED BY <1>1, <1>6, <1>7, <1>8, <1>9 DEF U, n

\* What finalize leaves behind: no item closed twice, every named call announced.
ClosedOnce(a) == \A i \in DOMAIN a.out : a.out[i].closed <= 1

AllAnnounced(a) == \A k \in Named(a) : a.calls[k].added

Delivered(a) ==
    AssemblerType(a) /\ OwnIndices(a) /\ CallsKnown(a) /\ ClosedOnce(a) /\ AllAnnounced(a)

(***************************************************************************)
(* The item finalize leaves for a call has the id the call is known by,    *)
(* and it was not closed before.                                           *)
(***************************************************************************)
LEMMA ClosedCallFields ==
    ASSUME NEW a, Good(a), NEW k \in Named(a)
    PROVE  /\ ClosedCall(a, k) \in Item
           /\ ClosedCall(a, k).kind = "call" /\ ClosedCall(a, k).key = k
           /\ ClosedCall(a, k).closed = 1
           /\ ClosedCall(a, k).id = FinalId(a, k)
           /\ FinalId(a, k) \in Ids /\ FinalId(a, k) # NoId
<1> DEFINE call == a.calls[k]
           c == ClosedCall(a, k)
           told == IF call.added THEN a.out[call.idx].text ELSE << >>
           was == IF call.added THEN a.out[call.idx].closed ELSE 0
           id == IF call.added THEN a.out[call.idx].id ELSE FinalId(a, k)
           final == FinalArguments(call)
           text == IF call.name \in CustomNames THEN told \o final ELSE told
<1>1. /\ a.out \in [ 0..(a.next - 1) -> Item ] /\ k \in Indices /\ k \in Int
      /\ call \in Call /\ call.name # Absent
  BY IndicesAssumption DEF Good, AssemblerType, Named
<1>2. call.added => /\ call.idx \in 0..(a.next - 1)
                    /\ a.out[call.idx].kind = "call"
                    /\ a.out[call.idx].id = call.id /\ call.id # NoId
                    /\ a.out[call.idx].closed = 0
  BY <1>1 DEF Good, OwnIndices, CallsKnown, Marked, Marks, AssemblerType
<1>3. FinalId(a, k) \in Ids /\ FinalId(a, k) # NoId
  BY <1>1 DEF FinalId, Call, Ids, Fallback, NoId
<1>4. was = 0 /\ id = FinalId(a, k)
  BY <1>1, <1>2 DEF FinalId
<1>5. told \in Text
  BY <1>1, <1>2, EmptyText DEF Item
<1>6. final \in Text
  BY <1>1, FinalArgumentsType
<1>7. text \in Text
  <2> HIDE DEF told, final
  <2> QED BY <1>5, <1>6, ConcatProperties DEF Text
<1>8. c = [ kind |-> "call", key |-> k, id |-> id, closed |-> was + 1, final |-> final,
            text |-> text ]
  BY DEF ClosedCall
<1> HIDE DEF text, final, id, was, c
<1>9. c \in Item
  BY <1>1, <1>3, <1>4, <1>6, <1>7, <1>8 DEF Item, Kinds
<1> QED BY <1>3, <1>4, <1>8, <1>9 DEF c

(***************************************************************************)
(* The calls finalize announces and closes, field by field.                *)
(***************************************************************************)
LEMMA FinishToolsFields ==
    ASSUME NEW a, Good(a)
    PROVE  LET b == FinishTools(a)
           IN  /\ Frame(a, b, { "next", "calls", "out" })
               /\ b.next = a.next + Cardinality(Unannounced(a))
               /\ DOMAIN b.out = 0..(b.next - 1)
               /\ b.calls = [ k \in Indices |->
                               IF k \in Named(a)
                               THEN Announced(a.calls[k], FinalId(a, k), Place(a, k))
                               ELSE a.calls[k] ]
               /\ \A k \in Named(a) : /\ Place(a, k) \in 0..(b.next - 1)
                                       /\ b.out[Place(a, k)] = ClosedCall(a, k)
               /\ \A i \in 0..(b.next - 1) :
                    \/ \E k \in Named(a) : i = Place(a, k) /\ b.out[i] = ClosedCall(a, k)
                    \/ i \in 0..(a.next - 1) /\ a.out[i].kind # "call" /\ b.out[i] = a.out[i]
               /\ \A i \in 0..(a.next - 1) :
                    a.out[i].kind # "call" => i \in 0..(b.next - 1) /\ b.out[i] = a.out[i]
<1> DEFINE b == FinishTools(a)
           last == a.next + Cardinality(Unannounced(a))
           calls == [ k \in Indices |->
                        IF k \in Named(a)
                        THEN Announced(a.calls[k], FinalId(a, k), Place(a, k))
                        ELSE a.calls[k] ]
           out == [ i \in 0..(last - 1) |->
                      IF \E k \in Named(a) : Place(a, k) = i
                      THEN ClosedCall(a, CHOOSE k \in Named(a) : Place(a, k) = i)
                      ELSE a.out[i] ]
<1>1. DOMAIN a.out = 0..(a.next - 1) /\ DOMAIN a = Fields
  BY DEF Good, AssemblerType
<1>2. b = [ a EXCEPT !.next = last, !.calls = calls, !.out = out ]
  BY DEF FinishTools
<1>3. /\ last \in Nat /\ a.next \in Nat /\ a.next =< last
      /\ \A k \in Named(a) :
           /\ Place(a, k) \in 0..(last - 1)
           /\ IF a.calls[k].added
              THEN Place(a, k) = a.calls[k].idx /\ Place(a, k) < a.next
              ELSE Place(a, k) >= a.next
      /\ \A j, k \in Named(a) : Place(a, j) = Place(a, k) => j = k
      /\ \A i \in 0..(last - 1) :
           (\A k \in Named(a) : Place(a, k) # i) =>
              i < a.next /\ a.out[i].kind # "call"
  BY Places
<1> HIDE DEF last
<1>4. \A k \in Named(a) : out[Place(a, k)] = ClosedCall(a, k)
  <2>1. TAKE k \in Named(a)
  <2>2. (CHOOSE j \in Named(a) : Place(a, j) = Place(a, k)) = k
    BY <1>3
  <2> QED BY <1>3, <2>2
<1>5. \A i \in 0..(last - 1) :
        \/ \E k \in Named(a) : i = Place(a, k) /\ out[i] = ClosedCall(a, k)
        \/ i \in 0..(a.next - 1) /\ a.out[i].kind # "call" /\ out[i] = a.out[i]
  <2>1. TAKE i \in 0..(last - 1)
  <2>2. CASE \E k \in Named(a) : Place(a, k) = i
    BY <1>4, <2>2
  <2>3. CASE \A k \in Named(a) : Place(a, k) # i
    BY <1>3, <2>3
  <2> QED BY <2>2, <2>3
<1>6. Named(a) \subseteq Indices
  BY DEF Named
<1>7. DOMAIN out = 0..(last - 1)
  OBVIOUS
<1> HIDE DEF calls, out
<1>8. /\ DOMAIN b = Fields /\ b.next = last /\ b.calls = calls /\ b.out = out
      /\ \A f \in Fields \ { "next", "calls", "out" } : b[f] = a[f]
  BY <1>1, <1>2 DEF Fields
<1> HIDE DEF b
<1>9. \A i \in 0..(a.next - 1) : a.out[i].kind # "call" => i \in 0..(last - 1) /\ out[i] = a.out[i]
  <2>1. TAKE i \in 0..(a.next - 1)
  <2>2. HAVE a.out[i].kind # "call"
  <2>3. i \in 0..(last - 1)
    BY <1>3
  <2>4. \A k \in Named(a) : Place(a, k) # i
    <3>1. SUFFICES ASSUME NEW k \in Named(a), Place(a, k) = i PROVE FALSE
      OBVIOUS
    <3>2. a.calls[k].added /\ a.calls[k].idx = i
      BY <1>3, <3>1
    <3> QED BY <1>6, <2>2, <3>2 DEF Good, OwnIndices
  <2> QED BY <1>5, <2>3, <2>4
<1>10. Frame(a, b, { "next", "calls", "out" })
  BY <1>8 DEF Frame
<1> QED BY <1>3, <1>4, <1>5, <1>7, <1>8, <1>9, <1>10 DEF b, last, calls

(***************************************************************************)
(* finalize announces the calls it has to and closes all of them.          *)
(***************************************************************************)
LEMMA FinishToolsDelivered ==
    ASSUME NEW a, Good(a)
    PROVE  Delivered(FinishTools(a)) /\ Keeps(a, FinishTools(a))
<1> DEFINE b == FinishTools(a)
           last == b.next
<1>1. /\ AssemblerType(a) /\ DOMAIN a.out = 0..(a.next - 1)
      /\ a.calls \in [ Indices -> Call ] /\ a.out \in [ 0..(a.next - 1) -> Item ]
  BY DEF Good, AssemblerType
<1>2. /\ Frame(a, b, { "next", "calls", "out" })
      /\ b.next = a.next + Cardinality(Unannounced(a))
      /\ DOMAIN b.out = 0..(b.next - 1)
      /\ b.calls = [ k \in Indices |->
                      IF k \in Named(a)
                      THEN Announced(a.calls[k], FinalId(a, k), Place(a, k))
                      ELSE a.calls[k] ]
      /\ \A k \in Named(a) : /\ Place(a, k) \in 0..(b.next - 1)
                              /\ b.out[Place(a, k)] = ClosedCall(a, k)
      /\ \A i \in 0..(b.next - 1) :
           \/ \E k \in Named(a) : i = Place(a, k) /\ b.out[i] = ClosedCall(a, k)
           \/ i \in 0..(a.next - 1) /\ a.out[i].kind # "call" /\ b.out[i] = a.out[i]
      /\ \A i \in 0..(a.next - 1) :
           a.out[i].kind # "call" => i \in 0..(b.next - 1) /\ b.out[i] = a.out[i]
  BY FinishToolsFields
<1>3. b.next \in Nat
  BY <1>2, Places
<1> HIDE DEF b
<1>4. Named(a) \subseteq Indices /\ \A k \in Indices : k \in Named(a) <=> a.calls[k].name # Absent
  BY DEF Named
<1>5. b.calls \in [ Indices -> Call ]
  <2>1. ASSUME NEW k \in Named(a)
        PROVE  Announced(a.calls[k], FinalId(a, k), Place(a, k)) \in Call
    <3>1. FinalId(a, k) \in Ids /\ Place(a, k) \in Int /\ a.calls[k] \in Call
      BY <1>1, <1>2, <1>4, ClosedCallFields
    <3> QED BY <3>1 DEF Announced, Call
  <2> QED BY <1>1, <1>2, <2>1
<1>6. \A k \in Named(a) : /\ b.calls[k].added /\ b.calls[k].idx = Place(a, k)
                          /\ b.calls[k].id = FinalId(a, k) /\ b.calls[k].name = a.calls[k].name
  BY <1>2, <1>4 DEF Announced
<1>7. \A k \in Indices \ Named(a) : ~b.calls[k].added /\ b.calls[k].name = Absent
  BY <1>1, <1>2, <1>4 DEF Good, CallsKnown, Call
<1>8. b.out \in [ 0..(last - 1) -> Item ]
  <2>1. ASSUME NEW i \in 0..(last - 1) PROVE b.out[i] \in Item
    <3>1. CASE \E k \in Named(a) : b.out[i] = ClosedCall(a, k)
      BY <3>1, ClosedCallFields
    <3>2. CASE i \in 0..(a.next - 1) /\ b.out[i] = a.out[i]
      BY <1>1, <3>2
    <3> QED BY <1>2, <3>1, <3>2
  <2>2. b.out = [ i \in 0..(last - 1) |-> b.out[i] ]
    <3>1. FinishTools(a).out = [ i \in DOMAIN FinishTools(a).out |-> FinishTools(a).out[i] ]
      BY <1>1 DEF FinishTools, AssemblerType, Fields
    <3> QED BY <1>2, <3>1 DEF b
  <2> QED BY <2>1, <2>2
<1>9. AssemblerType(b)
  BY <1>1, <1>2, <1>3, <1>5, <1>8 DEF AssemblerType, Fields, Frame
<1>10. b.rIdx = a.rIdx /\ b.tIdx = a.tIdx /\ Keeps(a, b)
  BY <1>2 DEF Frame, Fields, Keeps, Outcomes
<1>11. OwnIndices(b)
  <2>1. ASSUME NEW i \in 0..(last - 1) PROVE OwnedBy(b, i)
    <3>1. CASE \E k \in Named(a) : i = Place(a, k) /\ b.out[i] = ClosedCall(a, k)
      <4>1. PICK k \in Named(a) : i = Place(a, k) /\ b.out[i] = ClosedCall(a, k)
        BY <3>1
      <4>2. b.out[i].kind = "call" /\ b.out[i].key = k /\ k \in Indices
        BY <1>4, <4>1, ClosedCallFields
      <4> QED BY <1>6, <4>1, <4>2 DEF OwnedBy
    <3>2. CASE i \in 0..(a.next - 1) /\ a.out[i].kind # "call" /\ b.out[i] = a.out[i]
      <4>1. OwnedBy(a, i)
        BY <1>1, <3>2 DEF Good, OwnIndices
      <4>2. a.out[i] \in Item
        BY <1>1, <3>2
      <4>3. a.out[i].kind \in { "reasoning", "message" }
        BY <3>2, <4>2 DEF Item, Kinds
      <4> QED BY <1>10, <3>2, <4>1, <4>3 DEF OwnedBy
    <3> QED BY <1>2, <3>1, <3>2
  <2>2. b.rIdx # NoIndex => /\ b.rIdx \in DOMAIN b.out /\ b.out[b.rIdx].kind = "reasoning"
                           /\ b.out[b.rIdx].key = NoKey
    BY <1>1, <1>2, <1>10 DEF Good, OwnIndices
  <2>3. b.tIdx # NoIndex => /\ b.tIdx \in DOMAIN b.out /\ b.out[b.tIdx].kind = "message"
                           /\ b.out[b.tIdx].key = NoKey
    BY <1>1, <1>2, <1>10 DEF Good, OwnIndices
  <2>4. ASSUME NEW k \in Indices, b.calls[k].added
        PROVE  /\ b.calls[k].idx \in DOMAIN b.out
               /\ b.out[b.calls[k].idx].kind = "call"
               /\ b.out[b.calls[k].idx].key = k
    <3>1. k \in Named(a)
      BY <1>7, <2>4
    <3>2. ClosedCall(a, k).kind = "call" /\ ClosedCall(a, k).key = k
      BY <3>1, ClosedCallFields
    <3> QED BY <1>2, <1>6, <3>1, <3>2
  <2> QED BY <1>2, <2>1, <2>2, <2>3, <2>4 DEF OwnIndices
<1>12. CallsKnown(b)
  <2>1. ASSUME NEW k \in Indices, b.calls[k].added
        PROVE  /\ b.calls[k].name # Absent /\ b.calls[k].id # NoId
               /\ b.out[b.calls[k].idx].id = b.calls[k].id
    <3>1. k \in Named(a)
      BY <1>7, <2>1
    <3> QED BY <1>2, <1>4, <1>6, <3>1, ClosedCallFields, SMTT(30)
  <2> QED BY <2>1 DEF CallsKnown
<1>13. ClosedOnce(b)
  <2>1. ASSUME NEW i \in 0..(last - 1) PROVE b.out[i].closed <= 1
    <3>1. CASE \E k \in Named(a) : b.out[i] = ClosedCall(a, k)
      BY <3>1, ClosedCallFields
    <3>2. CASE i \in 0..(a.next - 1) /\ b.out[i] = a.out[i]
      BY <1>1, <3>2 DEF Good, Marked, Marks
    <3> QED BY <1>2, <3>1, <3>2
  <2> QED BY <1>2, <2>1 DEF ClosedOnce
<1>14. AllAnnounced(b)
  BY <1>6, <1>7 DEF AllAnnounced, Named
<1> QED BY <1>9, <1>10, <1>11, <1>12, <1>13, <1>14 DEF b, Delivered

(***************************************************************************)
(* Everything finalize does before it stores the response.                 *)
(***************************************************************************)
LEMMA CloseItemsDelivered ==
    ASSUME NEW a, Good(a)
    PROVE  Delivered(CloseItems(a)) /\ Keeps(a, CloseItems(a))
<1> DEFINE b == BeginTools(a)
           c == IF HasToolOutput(b) THEN b ELSE FinishText(b)
<1>1. Good(b) /\ Keeps(a, b)
  BY BeginToolsGood DEF KeepsCalls
<1> HIDE DEF b
<1>2. Good(c) /\ Keeps(b, c)
  <2>1. CASE HasToolOutput(b)
    BY <1>1, <2>1 DEF Keeps
  <2>2. CASE ~HasToolOutput(b)
    BY <1>1, <2>2, FinishTextGood DEF KeepsCalls
  <2> QED BY <2>1, <2>2
<1> HIDE DEF c
<1>3. Delivered(FinishTools(c)) /\ Keeps(c, FinishTools(c))
  BY <1>2, FinishToolsDelivered
<1>4. CloseItems(a) = FinishTools(c)
  BY DEF CloseItems, b, c
<1> QED BY <1>1, <1>2, <1>3, <1>4 DEF Keeps

(***************************************************************************)
(* The outcome of a stream does not matter to what was delivered.          *)
(***************************************************************************)
LEMMA LooseDelivered ==
    ASSUME NEW a, Delivered(a), NEW b, AssemblerType(b), Frame(a, b, Loose)
    PROVE  Delivered(b)
<1>1. /\ b.out = a.out /\ b.calls = a.calls /\ b.rIdx = a.rIdx /\ b.tIdx = a.tIdx
      /\ b.rDone = a.rDone /\ b.tDone = a.tDone
  BY DEF Frame, Fields, Loose
<1> QED BY <1>1 DEF Delivered, OwnIndices, OwnedBy, CallsKnown, ClosedOnce, AllAnnounced, Named

\* The ids a stored record awaits are the ids of the calls the client was shown.
AwaitsShown(a, s) ==
    { << k, s.pending[k] >> : k \in DOMAIN s.pending }
    = { << a.out[i].key, a.out[i].id >> : i \in { j \in DOMAIN a.out : a.out[j].kind = "call" } }

(***************************************************************************)
(* What finalize stores has its type and awaits the ids that were shown.   *)
(***************************************************************************)
LEMMA RecordAwaitsShown ==
    ASSUME NEW a, Delivered(a)
    PROVE  Record(a) \in StoredRecord /\ AwaitsShown(a, Record(a))
<1> DEFINE p == [ k \in Named(a) |-> a.calls[k].id ]
           L == { << k, p[k] >> : k \in Named(a) }
           R == { << a.out[i].key, a.out[i].id >> :
                    i \in { j \in DOMAIN a.out : a.out[j].kind = "call" } }
<1>1. /\ a.calls \in [ Indices -> Call ] /\ a.content \in Text /\ a.reasoning \in Text
      /\ a.out \in [ 0..(a.next - 1) -> Item ] /\ DOMAIN a.out = 0..(a.next - 1)
      /\ Named(a) \in SUBSET Indices
  BY DEF Delivered, AssemblerType, Named
<1>2. p \in UNION { [ S -> Ids ] : S \in SUBSET Indices }
  <2>1. \A k \in Named(a) : a.calls[k].id \in Ids
    BY <1>1 DEF Call
  <2>2. p \in [ Named(a) -> Ids ]
    BY <2>1
  <2> HIDE DEF p
  <2> QED BY <1>1, <2>2
<1>3. Record(a) \in StoredRecord
  <2> HIDE DEF p
  <2>1. Record(a) = [ content |-> a.content, reasoning |-> a.reasoning, pending |-> p ]
    BY DEF Record, p
  <2> QED BY <1>1, <1>2, <2>1 DEF StoredRecord
<1>4. L \subseteq R
  <2>1. SUFFICES ASSUME NEW k \in Named(a) PROVE << k, p[k] >> \in R
    OBVIOUS
  <2>2. a.calls[k].added /\ k \in Indices
    BY <1>1 DEF Delivered, AllAnnounced
  <2> DEFINE i == a.calls[k].idx
  <2>3. i \in DOMAIN a.out /\ a.out[i].kind = "call" /\ a.out[i].key = k
    BY <2>2 DEF Delivered, OwnIndices
  <2>4. a.out[i].id = p[k]
    BY <2>2 DEF Delivered, CallsKnown
  <2> HIDE DEF i, p
  <2> QED BY <2>3, <2>4
<1>5. R \subseteq L
  <2>1. SUFFICES ASSUME NEW i \in DOMAIN a.out, a.out[i].kind = "call"
                 PROVE << a.out[i].key, a.out[i].id >> \in L
    OBVIOUS
  <2> DEFINE k == a.out[i].key
  <2>2. k \in Indices /\ a.calls[k].added /\ a.calls[k].idx = i
    BY <2>1 DEF Delivered, OwnIndices, OwnedBy
  <2>3. k \in Named(a) /\ a.out[i].id = a.calls[k].id
    BY <2>2 DEF Delivered, CallsKnown, Named
  <2> HIDE DEF k
  <2>4. a.out[i].id = p[k]
    BY <2>3
  <2> HIDE DEF p
  <2>5. << k, a.out[i].id >> \in L
    BY <2>3, <2>4
  <2> QED BY <2>5 DEF k
<1>6. AwaitsShown(a, Record(a))
  <2>1. Record(a).pending = p
    BY DEF Record
  <2>2. DOMAIN p = Named(a)
    OBVIOUS
  <2> QED BY <1>4, <1>5, <2>1, <2>2 DEF AwaitsShown
<1> QED BY <1>3, <1>6

(***************************************************************************)
(* The output array has its type.                                          *)
(***************************************************************************)
LEMMA OutputType ==
    ASSUME NEW a, AssemblerType(a)
    PROVE  Output(a) \subseteq ResponseItem
<1>1. /\ a.calls \in [ Indices -> Call ] /\ a.content \in Text /\ a.reasoning \in Text
      /\ Named(a) \in SUBSET Indices /\ Indices \subseteq Int
  <2>1. Indices \subseteq Int
    BY IndicesAssumption
  <2> QED BY <2>1 DEF AssemblerType, Named
<1>2. ASSUME NEW k \in Named(a)
      PROVE  Rank(Named(a), k) \in Nat /\ FinalArguments(a.calls[k]) \in Text
  <2>1. Rank(Named(a), k) \in 0..(Cardinality(Named(a)) - 1) /\ Cardinality(Named(a)) \in Nat
    BY <1>1, RankNumbers
  <2>2. a.calls[k] \in Call
    BY <1>1
  <2> QED BY <2>1, <2>2, FinalArgumentsType
<1>3. \A text \in Text, key \in Int, pos \in Nat, kind \in Kinds :
        [ kind |-> kind, key |-> key, text |-> text, pos |-> pos ] \in ResponseItem
  BY DEF ResponseItem
<1> DEFINE message == a.content # << >> /\ ~HasToolOutput(a)
           first == IF a.reasoning # << >> THEN 1 ELSE 0
           calls == IF message THEN first + 1 ELSE first
<1>4. first \in Nat /\ calls \in Nat /\ NoKey \in Int
  BY DEF NoKey
<1>5. \A k \in Named(a) :
        [ kind |-> "call", key |-> k, text |-> FinalArguments(a.calls[k]),
          pos |-> calls + Rank(Named(a), k) ] \in ResponseItem
  <2>1. TAKE k \in Named(a)
  <2> HIDE DEF first, calls
  <2>2. Rank(Named(a), k) \in Nat
    BY <1>2
  <2>3. calls + Rank(Named(a), k) \in Nat
    BY <1>4, <2>2
  <2>4. k \in Int
    BY <1>1
  <2> QED BY <1>2, <1>3, <2>3, <2>4 DEF Kinds
<1>6. /\ [ kind |-> "reasoning", key |-> NoKey, text |-> a.reasoning, pos |-> 0 ] \in ResponseItem
      /\ [ kind |-> "message", key |-> NoKey, text |-> a.content, pos |-> first ] \in ResponseItem
  <2> HIDE DEF first, calls
  <2> QED BY <1>1, <1>3, <1>4 DEF Kinds
<1> HIDE DEF first, message, calls
<1>7. Output(a) = (IF a.reasoning = << >> THEN {}
         ELSE { [ kind |-> "reasoning", key |-> NoKey, text |-> a.reasoning, pos |-> 0 ] })
        \cup
        (IF ~message THEN {}
         ELSE { [ kind |-> "message", key |-> NoKey, text |-> a.content, pos |-> first ] })
        \cup
        { [ kind |-> "call", key |-> k, text |-> FinalArguments(a.calls[k]),
            pos |-> calls + Rank(Named(a), k) ] : k \in Named(a) }
  BY DEF Output, message, first, calls
<1> QED BY <1>5, <1>6, <1>7

(***************************************************************************)
(* What a stream ends with: the terminal event, and a record that awaits   *)
(* the calls the client was shown exactly if the event is a success.       *)
(***************************************************************************)
Ending(a) ==
    /\ AssemblerType(a) /\ OwnIndices(a) /\ ClosedOnce(a)
    /\ a.terminal # Absent
    /\ a.stored # {} <=> a.terminal \in { "completed", "incomplete" }
    /\ \A s \in a.stored : AwaitsShown(a, s)

(***************************************************************************)
(* fail leaves every item as it is.                                        *)
(***************************************************************************)
LEMMA FailEnds ==
    ASSUME NEW a, AssemblerType(a), OwnIndices(a), ClosedOnce(a),
           a.terminal = Absent, a.stored = {}
    PROVE  Ending(Fail(a))
<1> DEFINE b == Fail(a)
<1>1. DOMAIN b = Fields /\ b.terminal = "failed"
      /\ \A f \in Fields \ { "terminal" } : b[f] = a[f]
  BY DEF Fail, AssemblerType, Fields
<1> HIDE DEF b
<1>2. AssemblerType(b)
  BY <1>1 DEF AssemblerType, Fields, Outcome, Terminals
<1>3. /\ b.out = a.out /\ b.calls = a.calls /\ b.rIdx = a.rIdx /\ b.tIdx = a.tIdx
      /\ b.stored = {}
  BY <1>1 DEF Fields
<1>4. OwnIndices(b) /\ ClosedOnce(b)
  BY <1>3 DEF OwnIndices, OwnedBy, ClosedOnce
<1> QED BY <1>1, <1>2, <1>3, <1>4 DEF b, Ending, Absent

(***************************************************************************)
(* A good assembler has closed nothing twice.                              *)
(***************************************************************************)
LEMMA GoodClosedOnce ==
    ASSUME NEW a, Good(a)
    PROVE  ClosedOnce(a)
  BY DEF Good, Marked, Marks, ClosedOnce

(***************************************************************************)
(* finalize, whether or not the response can be stored.                    *)
(***************************************************************************)
LEMMA FinalizeEnds ==
    ASSUME NEW a, Good(a), a.terminal = Absent, a.stored = {}, NEW ok \in BOOLEAN
    PROVE  Ending(Finalize(a, ok))
<1> DEFINE b == CloseItems(a)
           c == [ b EXCEPT !.stored = @ \cup { Record(b) }, !.response = Output(b),
                           !.terminal = Status(b.finish) ]
<1>0. a.terminal = Absent
  OBVIOUS
<1>1. Delivered(b) /\ b.terminal = Absent /\ b.stored = {}
  BY CloseItemsDelivered DEF Keeps, Outcomes
<1>2. Finalize(a, ok) = IF ok THEN c ELSE Fail(b)
  BY <1>0 DEF Finalize
<1> HIDE DEF b
<1>3. CASE ~ok
  BY <1>1, <1>2, <1>3, FailEnds DEF Delivered
<1>4. CASE ok
  <2>1. Record(b) \in StoredRecord /\ AwaitsShown(b, Record(b)) /\ Output(b) \subseteq ResponseItem
    BY <1>1, RecordAwaitsShown, OutputType DEF Delivered
  <2>2. /\ DOMAIN c = Fields /\ c.stored = { Record(b) } /\ c.response = Output(b)
        /\ c.terminal = Status(b.finish)
        /\ \A f \in Fields \ { "stored", "response", "terminal" } : c[f] = b[f]
    BY <1>1 DEF Delivered, AssemblerType, Fields
  <2> HIDE DEF c
  <2>3. c.terminal \in { "completed", "incomplete" } /\ c.terminal # Absent
        /\ c.terminal \in Outcome
    BY <2>2 DEF Status, Outcome, Terminals, Absent
  <2>4. AssemblerType(c)
    BY <1>1, <2>1, <2>2, <2>3 DEF Delivered, AssemblerType, Fields
  <2>5. Frame(b, c, Loose)
    BY <2>2 DEF Frame, Loose
  <2>6. Delivered(c)
    BY <1>1, <2>4, <2>5, LooseDelivered
  <2>7. AwaitsShown(c, Record(b))
    BY <2>1, <2>2 DEF AwaitsShown, Fields
  <2> QED BY <1>2, <1>4, <2>2, <2>3, <2>6, <2>7 DEF Ending, Delivered
<1> QED BY <1>3, <1>4

(***************************************************************************)
(* A new assembler.                                                        *)
(***************************************************************************)
LEMMA NewGood ==
    ASSUME NEW buffered \in BOOLEAN
    PROVE  LET a == NewAssembler(buffered)
           IN  Good(a) /\ a.terminal = Absent /\ a.stored = {}
<1> DEFINE a == NewAssembler(buffered)
<1>1. NewCall \in Call /\ ~NewCall.added
  BY EmptyText DEF NewCall, Call, Ids, NoIndex
<1>2. DOMAIN a = Fields
  BY DEF NewAssembler, Fields
<1>3. /\ a.content = << >> /\ a.reasoning = << >> /\ a.buf = << >>
      /\ a.calls = [ k \in Indices |-> NewCall ]
      /\ a.finish = Absent /\ a.next = 0 /\ a.tIdx = NoIndex /\ a.rIdx = NoIndex
      /\ a.tDone = FALSE /\ a.rDone = FALSE /\ a.think = "Detecting"
      /\ a.buffered = buffered /\ a.terminal = Absent
      /\ a.out = << >> /\ a.stored = {} /\ a.response = {}
  BY DEF NewAssembler
<1> HIDE DEF a
<1>4. a.out \in [ 0..(a.next - 1) -> Item ] /\ DOMAIN a.out = {}
  BY <1>3
<1>5. a.calls \in [ Indices -> Call ] /\ \A k \in Indices : ~a.calls[k].added
  BY <1>1, <1>3
<1>6. AssemblerType(a)
  <2>1. /\ a.finish \in Finishes /\ a.think \in Thinking /\ a.terminal \in Outcome
        /\ a.next \in Nat /\ a.tIdx \in Int /\ a.rIdx \in Int
    BY <1>3 DEF Finishes, Thinking, Outcome, NoIndex
  <2>2. /\ a.tDone \in BOOLEAN /\ a.rDone \in BOOLEAN /\ a.buffered \in BOOLEAN
        /\ a.stored \subseteq StoredRecord /\ a.response \subseteq ResponseItem
    BY <1>3
  <2>3. a.content \in Text /\ a.reasoning \in Text /\ a.buf \in Text
    BY <1>3, EmptyText
  <2> QED BY <1>2, <1>4, <1>5, <2>1, <2>2, <2>3 DEF AssemblerType
<1>7. OwnIndices(a) /\ Marked(a) /\ CallsKnown(a)
  BY <1>3, <1>4, <1>5 DEF OwnIndices, Marked, CallsKnown
<1> QED BY <1>3, <1>6, <1>7 DEF a, Good
------------------------------------------------------------------------------
(***************************************************************************)
(* What the client of a stream is told.  Every method of the assembler     *)
(* only adds to it: items are announced, their texts are extended, and a   *)
(* closed item changes only if the text it was made of does (Grows).  The  *)
(* texts of the items are those the assembler has (Told), and no reasoning *)
(* is pending once the reasoning item was closed (Thought).  From these    *)
(* facts follows what finalize leaves behind: every item closed, every     *)
(* call with its final arguments, and no message beside a call if text was *)
(* held back (Shut).                                                       *)
(***************************************************************************)

\* t is s or has become longer.
Longer(s, t) == t = s \/ Len(s) < Len(t)

\* Item w is item v with more text.
Continues(v, w) ==
    /\ w.kind = v.kind /\ w.key = v.key
    /\ \E u \in Text : w.text = v.text \o u

\* The text an item of this kind was made of is another one in b.
Reworded(a, b, kind) ==
    \/ kind = "reasoning" /\ b.reasoning # a.reasoning
    \/ kind = "message" /\ b.content # a.content

Grows(a, b) ==
    /\ a.next =< b.next
    /\ b.finish = a.finish
    /\ Longer(a.reasoning, b.reasoning) /\ Longer(a.content, b.content)
    /\ \A i \in 0..(a.next - 1) :
         /\ Continues(a.out[i], b.out[i])
         /\ a.out[i].closed > 0 => b.out[i] = a.out[i] \/ Reworded(a, b, a.out[i].kind)

\* The deltas of a call: a custom tool's arguments are not streamed.
Streamed(call) == IF call.name \in CustomNames THEN << >> ELSE call.args

\* What the client adds up from the deltas of an item is what the assembler has.
Texts(a) ==
    /\ a.rIdx = NoIndex <=> a.reasoning = << >>
    /\ a.rIdx # NoIndex => a.out[a.rIdx].text = a.reasoning
    /\ a.tIdx # NoIndex => a.out[a.tIdx].text = a.content
    /\ \A k \in Indices : a.calls[k].added =>
         a.out[a.calls[k].idx].text = Streamed(a.calls[k])

\* Text is shown at once, or not at all before the end.
HeldBack(a) == IF a.buffered THEN a.tIdx = NoIndex ELSE a.tIdx = NoIndex <=> a.content = << >>

Told(a) == Texts(a) /\ HeldBack(a)

Thought(a) ==
    /\ a.rIdx # NoIndex => a.think # "Detecting"
    /\ a.rDone => a.think = "Done"
    /\ a.content # << >> => a.think = "Done"

------------------------------------------------------------------------------
(***************************************************************************)
(* Texts and growth.                                                       *)
(***************************************************************************)

\* Concatenation of texts.
LEMMA TextConcat ==
    /\ \A s, t \in Text : s \o t \in Text /\ Len(s \o t) = Len(s) + Len(t) /\ Len(t) \in Nat
    /\ \A s \in Text : s \o << >> = s /\ << >> \o s = s
    /\ \A s, t, u \in Text : (s \o t) \o u = s \o (t \o u)
    /\ \A s \in Text : s # << >> <=> Len(s) > 0
<1>1. \A s, t \in Text : s \o t \in Text /\ Len(s \o t) = Len(s) + Len(t) /\ Len(t) \in Nat
  BY ConcatProperties, LenProperties DEF Text
<1>2. \A s \in Text : s \o << >> = s /\ << >> \o s = s
  BY ConcatEmptySeq DEF Text
<1>3. \A s, t, u \in Text : (s \o t) \o u = s \o (t \o u)
  BY ConcatAssociative DEF Text
<1>4. \A s \in Text : s # << >> <=> Len(s) > 0
  BY EmptySeq, LenProperties DEF Text
<1> QED BY <1>1, <1>2, <1>3, <1>4

\* A text that is extended is longer, unless nothing is added.
LEMMA LongerConcat ==
    ASSUME NEW s \in Text, NEW t \in Text
    PROVE  Longer(s, s \o t) /\ (t # << >> => s \o t # s /\ s \o t # << >>)
<1>1. Len(s \o t) = Len(s) + Len(t) /\ Len(s) \in Nat /\ Len(t) \in Nat
  BY TextConcat
<1>2. CASE t = << >>
  BY <1>2, TextConcat DEF Longer
<1>3. CASE t # << >>
  <2>1. Len(t) > 0 /\ Len(<< >>) = 0
    BY <1>3, TextConcat
  <2>2. Len(s) < Len(s \o t) /\ Len(s \o t) > 0
    BY <1>1, <2>1
  <2> QED BY <2>1, <2>2 DEF Longer
<1> QED BY <1>2, <1>3

(***************************************************************************)
(* An assembler that tells nothing new grows.                              *)
(***************************************************************************)
LEMMA GrowsSilently ==
    ASSUME NEW a, AssemblerType(a), NEW b, b.out = a.out, b.next = a.next,
           b.finish = a.finish, Longer(a.reasoning, b.reasoning), Longer(a.content, b.content)
    PROVE  Grows(a, b)
<1>1. a.next \in Nat /\ \A i \in 0..(a.next - 1) : a.out[i].text \in Text
  BY DEF AssemblerType, Item
<1>2. \A i \in 0..(a.next - 1) : Continues(a.out[i], a.out[i])
  BY <1>1, TextConcat, EmptyText DEF Continues
<1> QED BY <1>1, <1>2 DEF Grows

\* So does the one that stays as it is.
LEMMA GrowsReflexive ==
    ASSUME NEW a, AssemblerType(a)
    PROVE  Grows(a, a)
  BY GrowsSilently DEF Longer

(***************************************************************************)
(* Two methods in a row make the assembler grow if each of them does.      *)
(***************************************************************************)
LEMMA GrowsTransitive ==
    ASSUME NEW a, NEW b, NEW c, AssemblerType(a), AssemblerType(b), AssemblerType(c),
           Grows(a, b), Grows(b, c)
    PROVE  Grows(a, c)
<1>1. a.next \in Nat /\ b.next \in Nat /\ c.next \in Nat /\ a.next =< b.next /\ b.next =< c.next
  BY DEF AssemblerType, Grows
<1>2. c.finish = a.finish
  BY DEF Grows
<1>3. ASSUME NEW r \in Text, NEW s \in Text, NEW t \in Text, Longer(r, s), Longer(s, t)
      PROVE  Longer(r, t) /\ (t = r => s = r)
  <2>1. Len(r) \in Nat /\ Len(s) \in Nat /\ Len(t) \in Nat
    BY TextConcat
  <2> QED BY <1>3, <2>1 DEF Longer
<1>4. /\ Longer(a.reasoning, c.reasoning) /\ (c.reasoning = a.reasoning => b.reasoning = a.reasoning)
      /\ Longer(a.content, c.content) /\ (c.content = a.content => b.content = a.content)
  BY <1>3, SMTT(30) DEF AssemblerType, Grows
<1>5. ASSUME NEW i \in 0..(a.next - 1)
      PROVE  /\ Continues(a.out[i], c.out[i])
             /\ a.out[i].closed > 0 => c.out[i] = a.out[i] \/ Reworded(a, c, a.out[i].kind)
  <2>1. i \in 0..(b.next - 1) /\ i \in 0..(c.next - 1)
    BY <1>1
  <2>2. Continues(a.out[i], b.out[i]) /\ Continues(b.out[i], c.out[i])
    BY <2>1 DEF Grows
  <2>3. Continues(a.out[i], c.out[i])
    <3>1. PICK u \in Text : b.out[i].text = a.out[i].text \o u
      BY <2>2 DEF Continues
    <3>2. PICK v \in Text : c.out[i].text = b.out[i].text \o v
      BY <2>2 DEF Continues
    <3>3. a.out[i].text \in Text
      BY DEF AssemblerType, Item
    <3>4. (a.out[i].text \o u) \o v = a.out[i].text \o (u \o v) /\ u \o v \in Text
      BY <3>3, TextConcat
    <3>5. c.out[i].text = a.out[i].text \o (u \o v)
      BY <3>1, <3>2, <3>4
    <3> QED BY <2>2, <3>4, <3>5 DEF Continues
  <2>4. ASSUME a.out[i].closed > 0
        PROVE  c.out[i] = a.out[i] \/ Reworded(a, c, a.out[i].kind)
    <3>1. CASE Reworded(a, b, a.out[i].kind)
      BY <1>4, <3>1 DEF Reworded
    <3>2. CASE b.out[i] = a.out[i]
      <4>1. c.out[i] = b.out[i] \/ Reworded(b, c, a.out[i].kind)
        BY <2>1, <2>4, <3>2 DEF Grows
      <4>2. Reworded(b, c, a.out[i].kind) => Reworded(a, c, a.out[i].kind)
        BY <1>4 DEF Reworded
      <4> QED BY <3>2, <4>1, <4>2
    <3> QED BY <2>4, <3>1, <3>2 DEF Grows
  <2> QED BY <2>3, <2>4
<1> QED BY <1>1, <1>2, <1>4, <1>5 DEF Grows

------------------------------------------------------------------------------
(***************************************************************************)
(* The primitives, by the items they leave behind.                         *)
(***************************************************************************)

\* Item v with t at the end of its text, and item v closed with the text t.
Extended(v, t) == [ v EXCEPT !.text = v.text \o t ]

Finished(v, t) == [ v EXCEPT !.closed = v.closed + 1, !.final = t ]

\* b has the items of a, and item w at index i.
ItemsBut(a, b, i, w) ==
    /\ b.out[i] = w
    /\ \A j \in 0..(a.next - 1) : j # i => b.out[j] = a.out[j]

(***************************************************************************)
(* The new item has no text yet.                                           *)
(***************************************************************************)
LEMMA AnnounceItems ==
    ASSUME NEW a, AssemblerType(a), NEW kind, NEW key, NEW id
    PROVE  LET b == Announce(a, kind, key, id)
           IN  ItemsBut(a, b, a.next, [ kind |-> kind, key |-> key, id |-> id,
                                        text |-> << >>, closed |-> 0, final |-> << >> ])
<1> DEFINE b == Announce(a, kind, key, id)
           w == [ kind |-> kind, key |-> key, id |-> id,
                  text |-> << >>, closed |-> 0, final |-> << >> ]
<1>1. DOMAIN a.out = 0..(a.next - 1) /\ a.next \in Nat /\ DOMAIN a = Fields
  BY DEF AssemblerType
<1>2. b.out = [ i \in 0..a.next |-> IF i = a.next THEN w ELSE a.out[i] ]
  BY <1>1 DEF Announce, Fields
<1> HIDE DEF b, w
<1>3. ItemsBut(a, b, a.next, w)
  BY <1>1, <1>2 DEF ItemsBut
<1> QED BY <1>3 DEF b, w

\* A delta extends the text of one item.
LEMMA DeltaItems ==
    ASSUME NEW a, AssemblerType(a), NEW i \in 0..(a.next - 1), NEW t \in Text
    PROVE  ItemsBut(a, Delta(a, i, t), i, Extended(a.out[i], t))
<1> DEFINE b == Delta(a, i, t)
<1>1. a.out \in [ 0..(a.next - 1) -> Item ] /\ DOMAIN a = Fields
  BY DEF AssemblerType
<1>2. b.out = [ a.out EXCEPT ![i].text = @ \o t ]
  BY <1>1 DEF Delta, Fields
<1> HIDE DEF b
<1>3. b.out[i] = Extended(a.out[i], t)
  BY <1>1, <1>2 DEF Extended
<1>4. \A j \in 0..(a.next - 1) : j # i => b.out[j] = a.out[j]
  BY <1>1, <1>2
<1> QED BY <1>3, <1>4 DEF b, ItemsBut

\* Closing an item leaves its text alone.
LEMMA CloseItem ==
    ASSUME NEW a, AssemblerType(a), NEW i \in 0..(a.next - 1), NEW t \in Text
    PROVE  ItemsBut(a, Close(a, i, t), i, Finished(a.out[i], t))
<1> DEFINE b == [ a EXCEPT !.out[i].closed = @ + 1 ]
           c == Close(a, i, t)
<1>1. a.out \in [ 0..(a.next - 1) -> Item ] /\ DOMAIN a = Fields
  BY DEF AssemblerType
<1>2. DOMAIN b = Fields /\ b.out = [ a.out EXCEPT ![i].closed = @ + 1 ]
  BY <1>1 DEF Fields
<1>3. c = [ b EXCEPT !.out[i].final = t ]
  BY DEF Close
<1> HIDE DEF b, c
<1>4. c.out = [ b.out EXCEPT ![i].final = t ]
  BY <1>2, <1>3 DEF Fields
<1>5. b.out[i] = [ a.out[i] EXCEPT !.closed = a.out[i].closed + 1 ]
      /\ DOMAIN b.out = 0..(a.next - 1)
      /\ \A j \in 0..(a.next - 1) : j # i => b.out[j] = a.out[j]
  BY <1>1, <1>2
<1>6. c.out[i] = [ b.out[i] EXCEPT !.final = t ]
      /\ \A j \in 0..(a.next - 1) : j # i => c.out[j] = b.out[j]
  BY <1>4, <1>5
<1>7. c.out[i] = Finished(a.out[i], t)
  <2>1. a.out[i] \in Item
    BY <1>1
  <2> QED BY <1>5, <1>6, <2>1 DEF Finished, Item
<1> QED BY <1>5, <1>6, <1>7 DEF c, ItemsBut

\* Items that are extended or closed go on.
LEMMA ItemsContinue ==
    ASSUME NEW v \in Item, NEW t \in Text
    PROVE  Continues(v, v) /\ Continues(v, Extended(v, t)) /\ Continues(v, Finished(v, t))
           /\ Extended(v, t).text = v.text \o t /\ Extended(v, t).closed = v.closed
           /\ Extended(v, t).final = v.final
           /\ Finished(v, t).text = v.text /\ Finished(v, t).final = t
           /\ Finished(v, t).closed = v.closed + 1
<1>1. v.text \in Text /\ << >> \in Text /\ v.text = v.text \o << >>
  BY TextConcat, EmptyText DEF Item
<1>2. /\ Extended(v, t).kind = v.kind /\ Extended(v, t).key = v.key
      /\ Extended(v, t).text = v.text \o t /\ Extended(v, t).closed = v.closed
      /\ Extended(v, t).final = v.final
  BY DEF Extended, Item
<1>3. /\ Finished(v, t).kind = v.kind /\ Finished(v, t).key = v.key
      /\ Finished(v, t).text = v.text /\ Finished(v, t).final = t
      /\ Finished(v, t).closed = v.closed + 1
  BY DEF Finished, Item
<1> QED BY <1>1, <1>2, <1>3 DEF Continues

------------------------------------------------------------------------------
(***************************************************************************)
(* Reasoning.                                                              *)
(***************************************************************************)

\* The index of the item announced for the first text of its kind.
Seat(a, idx) == IF idx = NoIndex THEN a.next ELSE idx

Behind(a, idx) == IF idx = NoIndex THEN a.next + 1 ELSE a.next

(***************************************************************************)
(* A reasoning delta, field by field.                                      *)
(***************************************************************************)
LEMMA PushReasoningFields ==
    ASSUME NEW a, Good(a), NEW t \in Text, t # << >>
    PROVE  LET b == PushReasoning(a, t)
               was == IF a.rIdx = NoIndex THEN << >> ELSE a.out[a.rIdx].text
           IN  /\ Frame(a, b, { "rIdx", "next", "out", "reasoning" })
               /\ b.reasoning = a.reasoning \o t
               /\ b.rIdx = Seat(a, a.rIdx) /\ b.next = Behind(a, a.rIdx)
               /\ b.out[b.rIdx].text = was \o t
               /\ \A i \in 0..(a.next - 1) :
                    b.out[i] = IF i = a.rIdx THEN Extended(a.out[i], t) ELSE a.out[i]
<1> DEFINE x == Announce(a, "reasoning", NoKey, NoId)
           b == IF a.rIdx = NoIndex THEN [ x EXCEPT !.rIdx = a.next ] ELSE a
           c == Delta(b, b.rIdx, t)
           d == [ c EXCEPT !.reasoning = @ \o t ]
           was == IF a.rIdx = NoIndex THEN << >> ELSE a.out[a.rIdx].text
<1>1. AssemblerType(a) /\ a.next \in Nat /\ DOMAIN a = Fields
      /\ a.out \in [ 0..(a.next - 1) -> Item ]
  BY DEF Good, AssemblerType
<1>2. /\ Good(b) /\ Frame(a, b, { "rIdx", "next", "out" })
      /\ b.rIdx = Seat(a, a.rIdx) /\ b.next = Behind(a, a.rIdx)
      /\ b.out[b.rIdx].text = was
      /\ \A i \in 0..(a.next - 1) : b.out[i] = a.out[i]
  <2>1. CASE a.rIdx = NoIndex
    <3>1. Good(b) /\ b.rIdx = a.next /\ b.next = a.next + 1
      BY <2>1, StartReasoningGood
    <3> DEFINE w == [ kind |-> "reasoning", key |-> NoKey, id |-> NoId,
                      text |-> << >>, closed |-> 0, final |-> << >> ]
    <3>5. ItemsBut(a, x, a.next, w)
      BY <1>1, AnnounceItems
    <3>2. /\ x.out[a.next].text = << >>
          /\ \A i \in 0..(a.next - 1) : x.out[i] = a.out[i]
      <4> HIDE DEF x
      <4> QED BY <1>1, <3>5 DEF ItemsBut
    <3>3. Frame(a, x, { "next", "out" })
      BY <1>1, AnnounceFields DEF Kinds, NoKey, NoId, Ids
    <3> HIDE DEF x
    <3>4. b.out = x.out /\ Frame(a, b, { "rIdx", "next", "out" })
      BY <2>1, <3>3 DEF Frame, Fields
    <3> HIDE DEF b
    <3> QED BY <2>1, <3>1, <3>2, <3>4 DEF Seat, Behind
  <2>2. CASE a.rIdx # NoIndex
    BY <1>1, <2>2 DEF Frame, Seat, Behind
  <2> QED BY <2>1, <2>2
<1> HIDE DEF b, was
<1>3. b.rIdx # NoIndex
  BY <1>1, <1>2 DEF Seat, NoIndex
<1>4. b.rIdx \in 0..(b.next - 1) /\ AssemblerType(b)
  BY <1>2, <1>3 DEF Good, OwnIndices, AssemblerType
<1>5. ItemsBut(b, c, b.rIdx, Extended(b.out[b.rIdx], t)) /\ Frame(b, c, { "out" })
  BY <1>2, <1>4, DeltaItems, DeltaGood
<1> HIDE DEF c
<1>6. DOMAIN d = Fields /\ d.reasoning = c.reasoning \o t
      /\ \A f \in Fields \ { "reasoning" } : d[f] = c[f]
  BY <1>5 DEF Frame, Fields
<1>7. PushReasoning(a, t) = d
  BY DEF PushReasoning, b, c, x
<1> HIDE DEF d
<1>8. Frame(a, d, { "rIdx", "next", "out", "reasoning" })
  BY <1>2, <1>5, <1>6 DEF Frame, Fields
<1>9. d.reasoning = a.reasoning \o t /\ d.rIdx = b.rIdx /\ d.next = b.next /\ d.out = c.out
  BY <1>2, <1>5, <1>6 DEF Frame, Fields
<1>10. d.out[d.rIdx].text = was \o t
  <2>1. b.out[b.rIdx] \in Item
    BY <1>4 DEF AssemblerType
  <2>2. d.out[d.rIdx] = Extended(b.out[b.rIdx], t)
    BY <1>5, <1>9 DEF ItemsBut
  <2>3. Extended(b.out[b.rIdx], t).text = b.out[b.rIdx].text \o t
    BY <2>1, ItemsContinue
  <2> QED BY <1>2, <2>2, <2>3
<1>11. ASSUME NEW i \in 0..(a.next - 1)
       PROVE  d.out[i] = IF i = a.rIdx THEN Extended(a.out[i], t) ELSE a.out[i]
  <2>1. i \in 0..(b.next - 1) /\ (i = b.rIdx <=> i = a.rIdx)
    BY <1>1, <1>2 DEF Seat, Behind, NoIndex
  <2> QED BY <1>2, <1>5, <1>9, <2>1 DEF ItemsBut
<1> QED BY <1>2, <1>7, <1>8, <1>9, <1>10, <1>11 DEF was

(***************************************************************************)
(* The items of a good assembler are different ones.                       *)
(***************************************************************************)
LEMMA ItemsApart ==
    ASSUME NEW a, Good(a)
    PROVE  /\ a.next \in Nat /\ a.out \in [ 0..(a.next - 1) -> Item ]
           /\ a.rIdx # NoIndex => a.rIdx \in 0..(a.next - 1) /\ a.rIdx # a.tIdx
           /\ a.tIdx # NoIndex => a.tIdx \in 0..(a.next - 1) /\ a.rIdx # a.tIdx
           /\ \A k \in Indices : a.calls[k].added =>
                /\ a.calls[k].idx \in 0..(a.next - 1)
                /\ a.calls[k].idx # a.rIdx /\ a.calls[k].idx # a.tIdx
                /\ \A j \in Indices : a.calls[j].added /\ a.calls[j].idx = a.calls[k].idx => j = k
<1>1. a.next \in Nat /\ a.out \in [ 0..(a.next - 1) -> Item ] /\ DOMAIN a.out = 0..(a.next - 1)
  BY DEF Good, AssemblerType
<1>2. NoIndex \notin 0..(a.next - 1)
  BY <1>1 DEF NoIndex
<1> QED BY <1>1, <1>2, SMTT(30) DEF Good, OwnIndices

(***************************************************************************)
(* A reasoning delta is told, and only the reasoning item changes.         *)
(***************************************************************************)
LEMMA PushReasoningTold ==
    ASSUME NEW a, Good(a), Told(a), NEW t \in Text
    PROVE  LET b == PushReasoning(a, t)
           IN  Told(b) /\ Grows(a, b) /\ Frame(a, b, { "rIdx", "next", "out", "reasoning" })
<1> DEFINE b == PushReasoning(a, t)
<1>1. CASE t = << >>
  <2>1. b = a
    BY <1>1 DEF PushReasoning
  <2> QED BY <2>1, GrowsReflexive DEF Good, Frame, AssemblerType
<1>2. CASE t # << >>
  <2> DEFINE was == IF a.rIdx = NoIndex THEN << >> ELSE a.out[a.rIdx].text
  <2>1. /\ Frame(a, b, { "rIdx", "next", "out", "reasoning" })
        /\ b.reasoning = a.reasoning \o t
        /\ b.rIdx = Seat(a, a.rIdx) /\ b.next = Behind(a, a.rIdx)
        /\ b.out[b.rIdx].text = was \o t
        /\ \A i \in 0..(a.next - 1) :
             b.out[i] = IF i = a.rIdx THEN Extended(a.out[i], t) ELSE a.out[i]
    BY <1>2, PushReasoningFields
  <2>2. was = a.reasoning
    BY DEF Told, Texts
  <2> HIDE DEF b, was
  <2>3. /\ b.tIdx = a.tIdx /\ b.calls = a.calls /\ b.content = a.content
        /\ b.buffered = a.buffered /\ b.finish = a.finish
    BY <2>1 DEF Frame, Fields
  <2>4. /\ a.next \in Nat /\ a.reasoning \in Text /\ a.content \in Text
        /\ a.out \in [ 0..(a.next - 1) -> Item ]
    BY DEF Good, AssemblerType
  <2>5. b.reasoning # a.reasoning /\ b.reasoning # << >> /\ Longer(a.reasoning, b.reasoning)
    BY <1>2, <2>1, <2>4, LongerConcat
  <2>6. Texts(b)
    <3>1. b.rIdx # NoIndex
      BY <2>1, <2>4 DEF Seat, NoIndex
    <3>2. b.tIdx # NoIndex => b.out[b.tIdx].text = b.content
      BY <2>1, <2>3, ItemsApart DEF Told, Texts
    <3>3. \A k \in Indices : b.calls[k].added =>
            b.out[b.calls[k].idx].text = Streamed(b.calls[k])
      BY <2>1, <2>3, ItemsApart DEF Told, Texts
    <3> QED BY <2>1, <2>2, <2>5, <3>1, <3>2, <3>3 DEF Texts
  <2>7. Told(b)
    BY <2>3, <2>6 DEF Told, HeldBack
  <2>8. ASSUME NEW i \in 0..(a.next - 1)
        PROVE  /\ Continues(a.out[i], b.out[i])
               /\ a.out[i].closed > 0 => b.out[i] = a.out[i] \/ Reworded(a, b, a.out[i].kind)
    <3>1. a.out[i] \in Item
      BY <2>4
    <3>2. Continues(a.out[i], a.out[i]) /\ Continues(a.out[i], Extended(a.out[i], t))
      BY <3>1, ItemsContinue
    <3>3. i = a.rIdx => a.out[i].kind = "reasoning"
      BY <2>4 DEF Good, OwnIndices, NoIndex
    <3> QED BY <2>1, <2>5, <3>2, <3>3 DEF Reworded
  <2>9. Grows(a, b)
    BY <2>1, <2>3, <2>4, <2>5, <2>8 DEF Grows, Behind, Longer
  <2> QED BY <2>1, <2>7, <2>9 DEF b
<1> QED BY <1>1, <1>2

(***************************************************************************)
(* Closing the reasoning item, field by field.                             *)
(***************************************************************************)
LEMMA FinishReasoningFields ==
    ASSUME NEW a, Good(a)
    PROVE  LET b == FinishReasoning(a)
           IN  /\ Frame(a, b, { "out", "rDone" })
               /\ a.rIdx # NoIndex => b.rDone
               /\ a.rIdx = NoIndex => b.rDone = a.rDone
               /\ \A i \in 0..(a.next - 1) :
                    b.out[i] = IF i = a.rIdx /\ ~a.rDone
                               THEN Finished(a.out[i], a.reasoning) ELSE a.out[i]
<1> DEFINE c == Close(a, a.rIdx, a.reasoning)
           d == [ c EXCEPT !.rDone = TRUE ]
           b == FinishReasoning(a)
<1>1. Frame(a, b, { "out", "rDone" })
  BY FinishReasoningGood
<1>2. a.next \in Nat /\ a.rDone \in BOOLEAN
  BY DEF Good, AssemblerType
<1>3. CASE a.rIdx = NoIndex \/ a.rDone
  <2>1. b = a
    BY <1>3 DEF FinishReasoning
  <2>2. \A i \in 0..(a.next - 1) : ~(i = a.rIdx /\ ~a.rDone)
    BY <1>2, <1>3 DEF NoIndex
  <2> QED BY <1>1, <1>3, <2>1, <2>2
<1>4. CASE a.rIdx # NoIndex /\ ~a.rDone
  <2>1. b = d
    BY <1>4 DEF FinishReasoning
  <2>2. AssemblerType(a) /\ a.rIdx \in 0..(a.next - 1) /\ a.reasoning \in Text
    BY <1>4, ItemsApart DEF Good, AssemblerType
  <2>3. ItemsBut(a, c, a.rIdx, Finished(a.out[a.rIdx], a.reasoning)) /\ AssemblerType(c)
    BY <2>2, CloseItem, CloseFields
  <2> HIDE DEF c
  <2>4. d.out = c.out /\ d.rDone = TRUE
    BY <2>3 DEF AssemblerType, Fields
  <2> HIDE DEF b, d
  <2> QED BY <1>1, <1>4, <2>1, <2>3, <2>4 DEF ItemsBut, b
<1> QED BY <1>3, <1>4

(***************************************************************************)
(* No text changes when the reasoning item is closed.                      *)
(***************************************************************************)
LEMMA FinishReasoningTold ==
    ASSUME NEW a, Good(a), Texts(a)
    PROVE  LET b == FinishReasoning(a)
           IN  Texts(b) /\ (HeldBack(a) => HeldBack(b)) /\ Grows(a, b)
<1> DEFINE b == FinishReasoning(a)
<1>1. /\ Frame(a, b, { "out", "rDone" })
      /\ \A i \in 0..(a.next - 1) :
           b.out[i] = IF i = a.rIdx /\ ~a.rDone
                      THEN Finished(a.out[i], a.reasoning) ELSE a.out[i]
  BY FinishReasoningFields
<1> HIDE DEF b
<1>2. /\ a.next \in Nat /\ a.reasoning \in Text /\ a.content \in Text
      /\ a.out \in [ 0..(a.next - 1) -> Item ] /\ a.rDone \in BOOLEAN
  BY DEF Good, AssemblerType
<1>3. /\ b.rIdx = a.rIdx /\ b.tIdx = a.tIdx /\ b.calls = a.calls /\ b.next = a.next
      /\ b.content = a.content /\ b.reasoning = a.reasoning
      /\ b.buffered = a.buffered /\ b.finish = a.finish
  BY <1>1 DEF Frame, Fields
<1>4. \A i \in 0..(a.next - 1) : b.out[i].text = a.out[i].text
  <2>1. \A i \in 0..(a.next - 1) : Finished(a.out[i], a.reasoning).text = a.out[i].text
    BY <1>2, ItemsContinue
  <2> QED BY <1>1, <2>1
<1>5. Texts(b)
  BY <1>3, <1>4, ItemsApart, SMTT(30) DEF Texts
<1>6. ASSUME NEW i \in 0..(a.next - 1)
      PROVE  /\ Continues(a.out[i], b.out[i])
             /\ a.out[i].closed > 0 => b.out[i] = a.out[i] \/ Reworded(a, b, a.out[i].kind)
  <2>1. a.out[i] \in Item
    BY <1>2
  <2>2. Continues(a.out[i], a.out[i]) /\ Continues(a.out[i], Finished(a.out[i], a.reasoning))
    BY <1>2, <2>1, ItemsContinue
  <2>3. i = a.rIdx /\ ~a.rDone => a.out[i].closed = 0
    BY <1>2 DEF Good, OwnIndices, Marked, Marks, NoIndex
  <2> QED BY <1>1, <2>2, <2>3
<1>7. Grows(a, b)
  BY <1>2, <1>3, <1>6 DEF Grows, Longer
<1> QED BY <1>3, <1>5, <1>7 DEF HeldBack, b

------------------------------------------------------------------------------
(***************************************************************************)
(* Text.                                                                   *)
(***************************************************************************)

\* The message item has an index.
Seated(a) ==
    IF a.tIdx # NoIndex THEN a
    ELSE [ Announce(a, "message", NoKey, NoId) EXCEPT !.tIdx = a.next ]

\* The assembler at the time the message item gets its index.
Before(a) == IF a.tIdx # NoIndex THEN a ELSE FinishReasoning(a)

\* ensure_text_started in two steps.
LEMMA TextStartsSeated ==
    ASSUME NEW a, Good(a)
    PROVE  /\ EnsureTextStarted(a) = Seated(Before(a))
           /\ Good(Before(a)) /\ Frame(a, Before(a), { "out", "rDone" })
           /\ (Texts(a) => Texts(Before(a)) /\ Grows(a, Before(a)))
<1>1. Good(FinishReasoning(a)) /\ Frame(a, FinishReasoning(a), { "out", "rDone" })
  BY FinishReasoningGood
<1>2. FinishReasoning(a).tIdx = a.tIdx
  BY <1>1 DEF Frame, Fields
<1>3. Texts(a) => Texts(FinishReasoning(a)) /\ Grows(a, FinishReasoning(a))
  BY FinishReasoningTold
<1>4. Grows(a, a) /\ Frame(a, a, { "out", "rDone" })
  BY GrowsReflexive DEF Good, Frame, AssemblerType
<1>5. EnsureTextStarted(a) = Seated(Before(a))
  <2>1. CASE a.tIdx # NoIndex
    BY <2>1 DEF EnsureTextStarted, Seated, Before
  <2>2. CASE a.tIdx = NoIndex
    <3> DEFINE b == FinishReasoning(a)
    <3>1. Before(a) = b /\ b.tIdx = NoIndex
      BY <1>2, <2>2 DEF Before
    <3>2. EnsureTextStarted(a) = [ Announce(b, "message", NoKey, NoId) EXCEPT !.tIdx = b.next ]
      BY <2>2 DEF EnsureTextStarted
    <3> HIDE DEF b
    <3> QED BY <3>1, <3>2 DEF Seated
  <2> QED BY <2>1, <2>2
<1> QED BY <1>1, <1>3, <1>4, <1>5 DEF Before

(***************************************************************************)
(* The message item, field by field; a new one has no text yet.            *)
(***************************************************************************)
LEMMA SeatedFields ==
    ASSUME NEW a, Good(a)
    PROVE  LET b == Seated(a)
           IN  /\ Good(b) /\ Frame(a, b, { "tIdx", "next", "out" })
               /\ b.tIdx = Seat(a, a.tIdx) /\ b.next = Behind(a, a.tIdx)
               /\ b.tIdx # NoIndex /\ b.tIdx \in 0..(b.next - 1)
               /\ b.out[b.tIdx].text = IF a.tIdx = NoIndex THEN << >> ELSE a.out[a.tIdx].text
               /\ \A i \in 0..(a.next - 1) : b.out[i] = a.out[i]
<1> DEFINE x == Announce(a, "message", NoKey, NoId)
           b == Seated(a)
<1>1. AssemblerType(a) /\ a.next \in Nat /\ DOMAIN a = Fields
  BY DEF Good, AssemblerType
<1>2. CASE a.tIdx = NoIndex
  <2> DEFINE w == [ kind |-> "message", key |-> NoKey, id |-> NoId,
                    text |-> << >>, closed |-> 0, final |-> << >> ]
  <2>1. b = [ x EXCEPT !.tIdx = a.next ]
    BY <1>2 DEF Seated
  <2>2. Good(b) /\ b.tIdx = a.next /\ b.next = a.next + 1
    BY <1>2, <2>1, StartMessageGood
  <2>3. ItemsBut(a, x, a.next, w)
    BY <1>1, AnnounceItems
  <2>4. Frame(a, x, { "next", "out" })
    BY <1>1, AnnounceFields DEF Kinds, NoKey, NoId, Ids
  <2> HIDE DEF x, b
  <2>5. b.out = x.out /\ Frame(a, b, { "tIdx", "next", "out" })
    BY <2>1, <2>4 DEF Frame, Fields
  <2> HIDE DEF w
  <2>6. b.out[a.next] = w /\ \A i \in 0..(a.next - 1) : b.out[i] = a.out[i]
    BY <1>1, <2>3, <2>5 DEF ItemsBut
  <2>7. b.out[b.tIdx].text = << >>
    BY <2>2, <2>6 DEF w
  <2> QED BY <1>1, <1>2, <2>2, <2>5, <2>6, <2>7 DEF Seat, Behind, NoIndex, b
<1>3. CASE a.tIdx # NoIndex
  <2>1. b = a /\ a.tIdx \in 0..(a.next - 1)
    BY <1>3, ItemsApart DEF Seated
  <2> HIDE DEF b
  <2> QED BY <1>1, <1>3, <2>1 DEF Frame, Seat, Behind, b
<1> QED BY <1>2, <1>3

(***************************************************************************)
(* Announcing the message item is growth.                                  *)
(***************************************************************************)
LEMMA SeatedGrows ==
    ASSUME NEW a, Good(a)
    PROVE  Grows(a, Seated(a))
<1> DEFINE b == Seated(a)
<1>1. /\ Frame(a, b, { "tIdx", "next", "out" }) /\ b.next = Behind(a, a.tIdx)
      /\ \A i \in 0..(a.next - 1) : b.out[i] = a.out[i]
  BY SeatedFields
<1> HIDE DEF b
<1>2. a.next \in Nat /\ a.out \in [ 0..(a.next - 1) -> Item ]
  BY DEF Good, AssemblerType
<1>3. \A i \in 0..(a.next - 1) : Continues(a.out[i], b.out[i])
  BY <1>1, <1>2, EmptyText, ItemsContinue
<1>4. b.content = a.content /\ b.reasoning = a.reasoning /\ b.finish = a.finish
  BY <1>1 DEF Frame, Fields
<1>5. a.next =< b.next
  BY <1>1, <1>2 DEF Behind
<1> QED BY <1>1, <1>3, <1>4, <1>5 DEF Grows, Longer, b

(***************************************************************************)
(* A delta of the message item, with the content it is added to.           *)
(***************************************************************************)
LEMMA TextDeltaFields ==
    ASSUME NEW a, Good(a), a.tIdx # NoIndex, NEW t \in Text
    PROVE  LET b == [ Delta(a, a.tIdx, t) EXCEPT !.content = @ \o t ]
           IN  /\ Frame(a, b, { "out", "content" })
               /\ b.content = a.content \o t
               /\ \A i \in 0..(a.next - 1) :
                    b.out[i] = IF i = a.tIdx THEN Extended(a.out[i], t) ELSE a.out[i]
<1> DEFINE c == Delta(a, a.tIdx, t)
           b == [ c EXCEPT !.content = @ \o t ]
<1>1. a.tIdx \in 0..(a.next - 1) /\ AssemblerType(a)
  BY ItemsApart DEF Good
<1>2. ItemsBut(a, c, a.tIdx, Extended(a.out[a.tIdx], t)) /\ Frame(a, c, { "out" })
  BY <1>1, DeltaItems, DeltaGood
<1> HIDE DEF c
<1>3. DOMAIN b = Fields /\ b.content = c.content \o t
      /\ \A f \in Fields \ { "content" } : b[f] = c[f]
  BY <1>2 DEF Frame, Fields
<1> HIDE DEF b
<1>4. b.out = c.out /\ c.content = a.content /\ Frame(a, b, { "out", "content" })
  BY <1>2, <1>3 DEF Frame, Fields
<1>5. \A i \in 0..(a.next - 1) :
        b.out[i] = IF i = a.tIdx THEN Extended(a.out[i], t) ELSE a.out[i]
  BY <1>2, <1>4 DEF ItemsBut
<1> QED BY <1>3, <1>4, <1>5 DEF b, c

(***************************************************************************)
(* Text is told at once, or held back; it is not lost.                     *)
(***************************************************************************)
LEMMA PushTextTold ==
    ASSUME NEW a, Good(a), Told(a), NEW t \in Text
    PROVE  LET b == PushText(a, t)
           IN  /\ Told(b) /\ Grows(a, b)
               /\ Frame(a, b, { "out", "rDone", "next", "tIdx", "content" })
               /\ b.content = a.content \o t
<1> DEFINE b == PushText(a, t)
           F == { "out", "rDone", "next", "tIdx", "content" }
<1>0. AssemblerType(a) /\ a.content \in Text /\ a.content \o t \in Text
      /\ DOMAIN a = Fields /\ a.next \in Nat
  BY TextConcat DEF Good, AssemblerType
<1>1. CASE t = << >>
  <2>1. b = a
    BY <1>1 DEF PushText
  <2>2. a.content = a.content \o t
    BY <1>0, <1>1, TextConcat
  <2> HIDE DEF b
  <2> QED BY <1>0, <2>1, <2>2, GrowsReflexive DEF Frame, b
<1>2. CASE t # << >> /\ a.buffered
  <2>1. b = [ a EXCEPT !.content = @ \o t ]
    BY <1>2 DEF PushText
  <2>2. Frame(a, b, { "content" }) /\ b.content = a.content \o t
    BY <1>0, <2>1 DEF Frame, Fields
  <2> HIDE DEF b
  <2>3. /\ b.out = a.out /\ b.next = a.next /\ b.finish = a.finish /\ b.rIdx = a.rIdx
        /\ b.tIdx = a.tIdx /\ b.reasoning = a.reasoning /\ b.calls = a.calls
        /\ b.buffered = a.buffered
    BY <2>2 DEF Frame, Fields
  <2>4. Longer(a.content, b.content)
    BY <1>0, <2>2, LongerConcat
  <2>5. Told(b)
    BY <1>2, <2>3 DEF Told, Texts, HeldBack
  <2>6. Grows(a, b)
    BY <1>0, <2>3, <2>4, GrowsSilently DEF Longer
  <2>7. Frame(a, b, F)
    BY <2>2 DEF Frame
  <2> QED BY <2>2, <2>5, <2>6, <2>7 DEF b
<1>3. CASE t # << >> /\ ~a.buffered
  <2> DEFINE e == Before(a)
             s == Seated(e)
  <2>1. b = [ Delta(s, s.tIdx, t) EXCEPT !.content = @ \o t ]
    <3>1. EnsureTextStarted(a) = s
      BY TextStartsSeated
    <3> QED BY <1>3, <3>1 DEF PushText
  <2>2. /\ Good(e) /\ Frame(a, e, { "out", "rDone" }) /\ Texts(e) /\ Grows(a, e)
    BY TextStartsSeated DEF Told
  <2> HIDE DEF e
  <2>3. /\ Good(s) /\ Frame(e, s, { "tIdx", "next", "out" }) /\ Grows(e, s)
        /\ s.tIdx # NoIndex
        /\ s.out[s.tIdx].text = IF e.tIdx = NoIndex THEN << >> ELSE e.out[e.tIdx].text
        /\ \A i \in 0..(e.next - 1) : s.out[i] = e.out[i]
    BY <2>2, SeatedFields, SeatedGrows
  <2> HIDE DEF s
  <2> DEFINE d == [ Delta(s, s.tIdx, t) EXCEPT !.content = @ \o t ]
  <2>14. /\ Frame(s, d, { "out", "content" }) /\ d.content = s.content \o t
         /\ \A i \in 0..(s.next - 1) :
              d.out[i] = IF i = s.tIdx THEN Extended(s.out[i], t) ELSE s.out[i]
    BY <2>3, TextDeltaFields
  <2> HIDE DEF b, d
  <2>4. /\ Frame(s, b, { "out", "content" }) /\ b.content = s.content \o t
        /\ \A i \in 0..(s.next - 1) :
             b.out[i] = IF i = s.tIdx THEN Extended(s.out[i], t) ELSE s.out[i]
    BY <2>1, <2>14 DEF d
  <2>5. Frame(a, b, F)
    BY <2>2, <2>3, <2>4 DEF Frame, Fields
  <2>6. /\ b.tIdx = s.tIdx /\ b.next = s.next /\ b.content = a.content \o t
        /\ b.reasoning = a.reasoning /\ b.rIdx = a.rIdx /\ b.calls = a.calls
        /\ b.buffered = a.buffered /\ b.finish = a.finish
        /\ s.reasoning = a.reasoning /\ s.rIdx = a.rIdx /\ s.calls = a.calls
        /\ s.content = a.content /\ s.finish = a.finish
        /\ e.tIdx = a.tIdx /\ e.rIdx = a.rIdx /\ e.calls = a.calls
        /\ e.content = a.content /\ e.reasoning = a.reasoning
    BY <2>2, <2>3, <2>4 DEF Frame, Fields
  <2>7. b.content # a.content /\ b.content # << >> /\ Longer(a.content, b.content)
    BY <1>0, <1>3, <2>6, LongerConcat
  <2>8. s.out[s.tIdx].text = a.content
    BY <1>3, <2>2, <2>3, <2>6 DEF Told, HeldBack, Texts
  <2>9. b.out[b.tIdx].text = b.content
    <3>1. s.tIdx \in 0..(s.next - 1) /\ s.out[s.tIdx] \in Item
      BY <2>3, ItemsApart
    <3>2. Extended(s.out[s.tIdx], t).text = s.out[s.tIdx].text \o t
      BY <3>1, ItemsContinue
    <3> QED BY <2>4, <2>6, <2>8, <3>1, <3>2
  <2>10. Texts(b)
    <3>1. b.rIdx # NoIndex => b.out[b.rIdx].text = b.reasoning
      <4>1. ASSUME b.rIdx # NoIndex
            PROVE  e.rIdx \in 0..(e.next - 1) /\ e.out[e.rIdx].text = e.reasoning
                   /\ s.rIdx \in 0..(s.next - 1) /\ s.rIdx # s.tIdx
        BY <2>2, <2>3, <2>6, <4>1, ItemsApart DEF Texts
      <4> QED BY <2>3, <2>4, <2>6, <4>1
    <3>2. ASSUME NEW k \in Indices, b.calls[k].added
          PROVE  b.out[b.calls[k].idx].text = Streamed(b.calls[k])
      <4>1. /\ e.calls[k].idx \in 0..(e.next - 1)
            /\ e.out[e.calls[k].idx].text = Streamed(e.calls[k])
            /\ s.calls[k].idx \in 0..(s.next - 1) /\ s.calls[k].idx # s.tIdx
        BY <2>2, <2>3, <2>6, <3>2, ItemsApart DEF Texts
      <4> QED BY <2>3, <2>4, <2>6, <4>1
    <3>3. b.rIdx = NoIndex <=> b.reasoning = << >>
      BY <2>6 DEF Told, Texts
    <3> QED BY <2>9, <3>1, <3>2, <3>3 DEF Texts
  <2>11. Told(b)
    BY <1>3, <2>3, <2>6, <2>7, <2>10 DEF Told, HeldBack
  <2>12. Grows(s, b)
    <3>1. ASSUME NEW i \in 0..(s.next - 1)
          PROVE  /\ Continues(s.out[i], b.out[i])
                 /\ s.out[i].closed > 0 => b.out[i] = s.out[i] \/ Reworded(s, b, s.out[i].kind)
      <4>1. s.out[i] \in Item
        BY <2>3, ItemsApart
      <4>2. Continues(s.out[i], s.out[i]) /\ Continues(s.out[i], Extended(s.out[i], t))
        BY <4>1, ItemsContinue
      <4>3. i = s.tIdx => s.out[i].kind = "message"
        BY <2>3 DEF Good, OwnIndices
      <4> QED BY <2>4, <2>6, <2>7, <4>2, <4>3 DEF Reworded
    <3>2. s.next \in Nat
      BY <2>3 DEF Good, AssemblerType
    <3> QED BY <2>6, <2>7, <3>1, <3>2 DEF Grows, Longer
  <2>13. Grows(a, b)
    <3>1. Good(b)
      BY PushTextGood DEF b
    <3>2. AssemblerType(e) /\ AssemblerType(s) /\ AssemblerType(b)
      BY <2>2, <2>3, <3>1 DEF Good
    <3>3. Grows(a, s)
      BY <1>0, <2>2, <2>3, <3>2, GrowsTransitive
    <3> QED BY <1>0, <2>12, <3>2, <3>3, GrowsTransitive
  <2> QED BY <2>5, <2>6, <2>11, <2>13 DEF b
<1> QED BY <1>1, <1>2, <1>3

\* The message of an open message item is closed.
Sealed(a) == [ Close(a, a.tIdx, a.content) EXCEPT !.tDone = TRUE ]

(***************************************************************************)
(* Closing the message item, field by field.                               *)
(***************************************************************************)
LEMMA SealedFields ==
    ASSUME NEW a, Good(a), Texts(a), a.tIdx # NoIndex, ~a.tDone
    PROVE  LET b == Sealed(a)
           IN  /\ Good(b) /\ Texts(b) /\ Grows(a, b)
               /\ Frame(a, b, { "out", "tDone" }) /\ b.tDone
               /\ b.out[b.tIdx].final = b.content
               /\ \A i \in 0..(a.next - 1) :
                    b.out[i] = IF i = a.tIdx THEN Finished(a.out[i], a.content) ELSE a.out[i]
<1> DEFINE c == Close(a, a.tIdx, a.content)
           b == Sealed(a)
<1>1. a.tIdx \in 0..(a.next - 1) /\ AssemblerType(a) /\ a.content \in Text /\ a.next \in Nat
      /\ a.out \in [ 0..(a.next - 1) -> Item ]
  BY ItemsApart DEF Good, AssemblerType
<1>2. ItemsBut(a, c, a.tIdx, Finished(a.out[a.tIdx], a.content)) /\ Frame(a, c, { "out" })
  BY <1>1, CloseItem, CloseFields
<1>3. Good(b)
  BY CloseMessageGood DEF Sealed
<1> HIDE DEF c
<1>4. DOMAIN b = Fields /\ b.tDone = TRUE /\ \A f \in Fields \ { "tDone" } : b[f] = c[f]
  BY <1>2 DEF Frame, Fields, Sealed, c
<1> HIDE DEF b
<1>5. Frame(a, b, { "out", "tDone" }) /\ b.out = c.out
  BY <1>2, <1>4 DEF Frame, Fields
<1>6. \A i \in 0..(a.next - 1) :
        b.out[i] = IF i = a.tIdx THEN Finished(a.out[i], a.content) ELSE a.out[i]
  BY <1>2, <1>5 DEF ItemsBut
<1>7. /\ b.rIdx = a.rIdx /\ b.tIdx = a.tIdx /\ b.calls = a.calls /\ b.next = a.next
      /\ b.content = a.content /\ b.reasoning = a.reasoning /\ b.finish = a.finish
  BY <1>5 DEF Frame, Fields
<1>8. \A i \in 0..(a.next - 1) :
        /\ Finished(a.out[i], a.content).text = a.out[i].text
        /\ Finished(a.out[i], a.content).final = a.content
        /\ Continues(a.out[i], a.out[i]) /\ Continues(a.out[i], Finished(a.out[i], a.content))
  <2>1. TAKE i \in 0..(a.next - 1)
  <2>2. a.out[i] \in Item
    BY <1>1
  <2> QED BY <1>1, <2>2, ItemsContinue
<1>9. \A i \in 0..(a.next - 1) : b.out[i].text = a.out[i].text
  BY <1>6, <1>8
<1>10. Texts(b)
  <2>1. b.rIdx # NoIndex => b.out[b.rIdx].text = b.reasoning
    BY <1>7, <1>9, ItemsApart DEF Texts
  <2>2. b.tIdx # NoIndex => b.out[b.tIdx].text = b.content
    BY <1>1, <1>7, <1>9 DEF Texts
  <2>3. ASSUME NEW k \in Indices, b.calls[k].added
        PROVE  b.out[b.calls[k].idx].text = Streamed(b.calls[k])
    BY <1>7, <1>9, <2>3, ItemsApart DEF Texts
  <2>4. b.rIdx = NoIndex <=> b.reasoning = << >>
    BY <1>7 DEF Texts
  <2> QED BY <2>1, <2>2, <2>3, <2>4 DEF Texts
<1>11. a.out[a.tIdx].closed = 0
  BY <1>1 DEF Good, OwnIndices, Marked, Marks
<1>12. Grows(a, b)
  <2>1. \A i \in 0..(a.next - 1) :
          /\ Continues(a.out[i], b.out[i])
          /\ a.out[i].closed > 0 => b.out[i] = a.out[i]
    BY <1>6, <1>8, <1>11
  <2> QED BY <1>1, <1>7, <2>1 DEF Grows, Longer
<1>13. b.out[b.tIdx].final = b.content
  BY <1>1, <1>6, <1>7, <1>8
<1> QED BY <1>3, <1>4, <1>5, <1>6, <1>10, <1>12, <1>13 DEF b

(***************************************************************************)
(* A delta that brings a message item its whole text.                      *)
(***************************************************************************)
LEMMA WholeTextFields ==
    ASSUME NEW a, Good(a), a.tIdx # NoIndex, ~a.tDone, a.out[a.tIdx].text = << >>,
           a.rIdx = NoIndex <=> a.reasoning = << >>,
           a.rIdx # NoIndex => a.out[a.rIdx].text = a.reasoning,
           \A k \in Indices : a.calls[k].added =>
             a.out[a.calls[k].idx].text = Streamed(a.calls[k])
    PROVE  LET b == Delta(a, a.tIdx, a.content)
           IN  Good(b) /\ Texts(b) /\ Grows(a, b) /\ Frame(a, b, { "out" })
<1> DEFINE b == Delta(a, a.tIdx, a.content)
<1>1. a.tIdx \in 0..(a.next - 1) /\ AssemblerType(a) /\ a.content \in Text /\ a.next \in Nat
      /\ a.out \in [ 0..(a.next - 1) -> Item ]
  BY ItemsApart DEF Good, AssemblerType
<1>2. /\ ItemsBut(a, b, a.tIdx, Extended(a.out[a.tIdx], a.content))
      /\ Good(b) /\ Frame(a, b, { "out" })
  BY <1>1, DeltaItems, DeltaGood
<1> HIDE DEF b
<1>3. /\ b.rIdx = a.rIdx /\ b.tIdx = a.tIdx /\ b.calls = a.calls /\ b.next = a.next
      /\ b.content = a.content /\ b.reasoning = a.reasoning /\ b.finish = a.finish
  BY <1>2 DEF Frame, Fields
<1>4. \A i \in 0..(a.next - 1) :
        /\ Extended(a.out[i], a.content).text = a.out[i].text \o a.content
        /\ Continues(a.out[i], a.out[i]) /\ Continues(a.out[i], Extended(a.out[i], a.content))
  <2>1. TAKE i \in 0..(a.next - 1)
  <2>2. a.out[i] \in Item
    BY <1>1
  <2> QED BY <1>1, <2>2, ItemsContinue
<1>5. b.out[a.tIdx].text = a.content
  BY <1>1, <1>2, <1>4, TextConcat DEF ItemsBut
<1>6. Texts(b)
  BY <1>2, <1>3, <1>5, ItemsApart, SMTT(30) DEF Texts, ItemsBut
<1>7. a.out[a.tIdx].closed = 0
  BY <1>1 DEF Good, OwnIndices, Marked, Marks
<1>8. Grows(a, b)
  <2>1. \A i \in 0..(a.next - 1) :
          /\ Continues(a.out[i], b.out[i])
          /\ a.out[i].closed > 0 => b.out[i] = a.out[i]
    <3>1. TAKE i \in 0..(a.next - 1)
    <3>2. CASE i = a.tIdx
      <4>1. b.out[i] = Extended(a.out[i], a.content)
        BY <1>2, <3>2 DEF ItemsBut
      <4>2. a.out[i].closed = 0 /\ ~(a.out[i].closed > 0)
        BY <1>7, <3>2
      <4>3. Continues(a.out[i], Extended(a.out[i], a.content))
        BY <1>4
      <4> QED BY <4>1, <4>2, <4>3
    <3>3. CASE i # a.tIdx
      <4>1. b.out[i] = a.out[i]
        BY <1>2, <3>3 DEF ItemsBut
      <4> QED BY <1>4, <4>1
    <3> QED BY <3>2, <3>3
  <2> QED BY <1>1, <1>3, <2>1 DEF Grows, Longer
<1> QED BY <1>2, <1>6, <1>8 DEF b

(***************************************************************************)
(* Closing the message, with its text as one delta if it was held back.    *)
(***************************************************************************)
LEMMA FinishTextTold ==
    ASSUME NEW a, Good(a), Told(a)
    PROVE  LET b == FinishText(a)
           IN  /\ Texts(b) /\ Grows(a, b)
               /\ Frame(a, b, { "out", "rDone", "next", "tIdx", "tDone" })
               /\ ~a.buffered => HeldBack(b)
               /\ a.content = << >> => b = a
               /\ a.content # << >> => b.tDone /\ b.tIdx # NoIndex
               /\ a.content # << >> /\ ~a.tDone => b.out[b.tIdx].final = b.content
<1> DEFINE b == FinishText(a)
           F == { "out", "rDone", "next", "tIdx", "tDone" }
<1>0. AssemblerType(a) /\ DOMAIN a = Fields
  BY DEF Good, AssemblerType
<1>1. CASE a.content = << >> \/ a.tDone
  <2>1. b = a
    BY <1>1 DEF FinishText
  <2>2. a.tDone => a.tIdx # NoIndex
    BY DEF Good, Marked
  <2> HIDE DEF b
  <2> QED BY <1>0, <1>1, <2>1, <2>2, GrowsReflexive DEF Told, Frame, b
<1>2. CASE a.content # << >> /\ ~a.tDone /\ ~a.buffered
  <2>1. a.tIdx # NoIndex
    BY <1>2 DEF Told, HeldBack
  <2>2. b = Sealed(a)
    BY <1>2, <2>1 DEF FinishText, EnsureTextStarted, Sealed
  <2>3. /\ Good(b) /\ Texts(b) /\ Grows(a, b)
        /\ Frame(a, b, { "out", "tDone" }) /\ b.tDone
        /\ b.out[b.tIdx].final = b.content
    BY <1>2, <2>1, <2>2, SealedFields DEF Told
  <2> HIDE DEF b
  <2>4. b.tIdx = a.tIdx /\ b.content = a.content /\ b.buffered = a.buffered /\ Frame(a, b, F)
    BY <2>3 DEF Frame, Fields
  <2> QED BY <1>2, <2>1, <2>3, <2>4 DEF HeldBack, b
<1>3. CASE a.content # << >> /\ ~a.tDone /\ a.buffered
  <2> DEFINE e == Before(a)
             s == Seated(e)
             c == Delta(s, s.tIdx, s.content)
  <2>1. /\ Good(e) /\ Frame(a, e, { "out", "rDone" }) /\ Texts(e) /\ Grows(a, e)
        /\ EnsureTextStarted(a) = s
    BY TextStartsSeated DEF Told
  <2> HIDE DEF e
  <2>2. /\ Good(s) /\ Frame(e, s, { "tIdx", "next", "out" }) /\ Grows(e, s)
        /\ s.tIdx # NoIndex
        /\ s.out[s.tIdx].text = IF e.tIdx = NoIndex THEN << >> ELSE e.out[e.tIdx].text
        /\ \A i \in 0..(e.next - 1) : s.out[i] = e.out[i]
    BY <2>1, SeatedFields, SeatedGrows
  <2> HIDE DEF s
  <2>3. /\ s.rIdx = a.rIdx /\ s.reasoning = a.reasoning /\ s.calls = a.calls
        /\ s.content = a.content /\ s.tDone = a.tDone /\ s.buffered = a.buffered
        /\ e.tIdx = a.tIdx /\ e.rIdx = a.rIdx /\ e.calls = a.calls
        /\ e.reasoning = a.reasoning
    BY <2>1, <2>2 DEF Frame, Fields
  <2>4. s.out[s.tIdx].text = << >>
    BY <1>3, <2>2, <2>3 DEF Told, HeldBack
  <2>5. /\ s.rIdx = NoIndex <=> s.reasoning = << >>
        /\ s.rIdx # NoIndex => s.out[s.rIdx].text = s.reasoning
        /\ \A k \in Indices : s.calls[k].added =>
             s.out[s.calls[k].idx].text = Streamed(s.calls[k])
    <3>1. s.rIdx = NoIndex <=> s.reasoning = << >>
      BY <2>3 DEF Told, Texts
    <3>2. ASSUME s.rIdx # NoIndex
          PROVE  s.out[s.rIdx].text = s.reasoning
      <4>1. e.rIdx \in 0..(e.next - 1) /\ e.out[e.rIdx].text = e.reasoning
        BY <2>1, <2>3, <3>2, ItemsApart DEF Texts
      <4> QED BY <2>2, <2>3, <4>1
    <3>3. ASSUME NEW k \in Indices, s.calls[k].added
          PROVE  s.out[s.calls[k].idx].text = Streamed(s.calls[k])
      <4>1. /\ e.calls[k].idx \in 0..(e.next - 1)
            /\ e.out[e.calls[k].idx].text = Streamed(e.calls[k])
        BY <2>1, <2>3, <3>3, ItemsApart DEF Texts
      <4> QED BY <2>2, <2>3, <4>1
    <3> QED BY <3>1, <3>2, <3>3
  <2>6. Good(c) /\ Texts(c) /\ Grows(s, c) /\ Frame(s, c, { "out" })
    BY <1>3, <2>2, <2>3, <2>4, <2>5, WholeTextFields
  <2>7. b = Sealed(c)
    BY <1>3, <2>1, <2>3 DEF FinishText, Sealed
  <2> HIDE DEF c
  <2>8. c.tIdx # NoIndex /\ ~c.tDone
    BY <1>3, <2>2, <2>3, <2>6 DEF Frame, Fields
  <2> HIDE DEF b
  <2>9. /\ Good(b) /\ Texts(b) /\ Grows(c, b)
        /\ Frame(c, b, { "out", "tDone" }) /\ b.tDone
        /\ b.out[b.tIdx].final = b.content
    BY <2>6, <2>7, <2>8, SealedFields
  <2>10. Frame(a, b, F) /\ b.tIdx = c.tIdx
    BY <2>1, <2>2, <2>6, <2>9 DEF Frame, Fields
  <2>11. Grows(a, b)
    <3>1. AssemblerType(e) /\ AssemblerType(s) /\ AssemblerType(c) /\ AssemblerType(b)
      BY <2>1, <2>2, <2>6, <2>9 DEF Good
    <3>2. Grows(a, s)
      BY <1>0, <2>1, <2>2, <3>1, GrowsTransitive
    <3>3. Grows(a, c)
      BY <1>0, <2>6, <3>1, <3>2, GrowsTransitive
    <3> QED BY <1>0, <2>9, <3>1, <3>3, GrowsTransitive
  <2> QED BY <1>3, <2>8, <2>9, <2>10, <2>11 DEF b
<1> QED BY <1>1, <1>2, <1>3

------------------------------------------------------------------------------
(***************************************************************************)
(* Tool calls.                                                             *)
(***************************************************************************)

\* The texts are right but for those of call k.
TextsBut(a, k) ==
    /\ a.rIdx = NoIndex <=> a.reasoning = << >>
    /\ a.rIdx # NoIndex => a.out[a.rIdx].text = a.reasoning
    /\ a.tIdx # NoIndex => a.out[a.tIdx].text = a.content
    /\ \A j \in Indices \ { k } : a.calls[j].added =>
         a.out[a.calls[j].idx].text = Streamed(a.calls[j])

\* A call that is set changes nothing else.
LEMMA SetCallFields ==
    ASSUME NEW a, Good(a), NEW k \in Indices, NEW call
    PROVE  LET b == [ a EXCEPT !.calls[k] = call ]
           IN  /\ Frame(a, b, { "calls" }) /\ b.calls[k] = call
               /\ \A j \in Indices \ { k } : b.calls[j] = a.calls[j]
<1> DEFINE b == [ a EXCEPT !.calls[k] = call ]
<1>1. a.calls \in [ Indices -> Call ] /\ DOMAIN a = Fields
  BY DEF Good, AssemblerType
<1>2. DOMAIN b = Fields /\ b.calls = [ a.calls EXCEPT ![k] = call ]
      /\ \A f \in Fields \ { "calls" } : b[f] = a[f]
  BY <1>1 DEF Fields
<1> HIDE DEF b
<1>3. b.calls[k] = call /\ \A j \in Indices \ { k } : b.calls[j] = a.calls[j]
  BY <1>1, <1>2
<1> QED BY <1>2, <1>3 DEF b, Frame

(***************************************************************************)
(* The announcement of a call, field by field; its item has no text yet.   *)
(***************************************************************************)
LEMMA StartCallFields ==
    ASSUME NEW a, Good(a), NEW k \in Indices
    PROVE  LET id == a.calls[k].id
               b == [ Announce(a, "call", k, id) EXCEPT
                        !.calls[k] = Announced(a.calls[k], id, a.next) ]
           IN  /\ Frame(a, b, { "next", "out", "calls" })
               /\ b.next = a.next + 1 /\ b.calls[k] = Announced(a.calls[k], id, a.next)
               /\ \A j \in Indices \ { k } : b.calls[j] = a.calls[j]
               /\ b.out[a.next].text = << >>
               /\ \A i \in 0..(a.next - 1) : b.out[i] = a.out[i]
<1> DEFINE id == a.calls[k].id
           c == Announce(a, "call", k, id)
           call == Announced(a.calls[k], id, a.next)
           b == [ c EXCEPT !.calls[k] = call ]
           w == [ kind |-> "call", key |-> k, id |-> id,
                  text |-> << >>, closed |-> 0, final |-> << >> ]
<1>1. /\ AssemblerType(a) /\ a.next \in Nat /\ a.calls \in [ Indices -> Call ]
      /\ a.calls[k].id \in Ids /\ k \in Int
  BY IndicesAssumption DEF Good, AssemblerType, Call
<1> HIDE DEF call
<1>2. Frame(a, c, { "next", "out" }) /\ c.next = a.next + 1
  BY <1>1, AnnounceFields DEF Kinds
<1>3. ItemsBut(a, c, a.next, w)
  BY <1>1, AnnounceItems
<1> HIDE DEF c, w
<1>4. DOMAIN b = Fields /\ b.calls = [ c.calls EXCEPT ![k] = call ]
      /\ \A f \in Fields \ { "calls" } : b[f] = c[f]
  BY <1>2 DEF Frame, Fields
<1> HIDE DEF b
<1>5. c.calls = a.calls /\ b.out = c.out /\ b.next = a.next + 1
      /\ Frame(a, b, { "next", "out", "calls" })
  BY <1>2, <1>4 DEF Frame, Fields
<1>6. b.calls[k] = call /\ \A j \in Indices \ { k } : b.calls[j] = a.calls[j]
  BY <1>1, <1>4, <1>5
<1>7. b.out[a.next] = w /\ \A i \in 0..(a.next - 1) : b.out[i] = a.out[i]
  BY <1>1, <1>3, <1>5 DEF ItemsBut
<1>8. b.out[a.next].text = << >>
  BY <1>7 DEF w
<1> QED BY <1>5, <1>6, <1>7, <1>8 DEF b, c, call, id

(***************************************************************************)
(* The arguments that are missing in the item of a call are told.          *)
(***************************************************************************)
LEMMA EmitTold ==
    ASSUME NEW a, Good(a), NEW k \in Indices, NEW t \in Text, TextsBut(a, k),
           a.calls[k].added,
           a.calls[k].name \in CustomNames => a.out[a.calls[k].idx].text = << >>,
           a.calls[k].name \notin CustomNames =>
             a.out[a.calls[k].idx].text \o t = a.calls[k].args
    PROVE  LET b == EmitArguments(a, k, t)
           IN  /\ Texts(b) /\ Grows(a, b) /\ Frame(a, b, { "out" })
               /\ \A i \in 0..(a.next - 1) : i # a.calls[k].idx => b.out[i] = a.out[i]
<1> DEFINE b == EmitArguments(a, k, t)
           i == a.calls[k].idx
<1>1. /\ AssemblerType(a) /\ a.next \in Nat /\ a.out \in [ 0..(a.next - 1) -> Item ]
      /\ i \in 0..(a.next - 1) /\ a.out[i] \in Item
  BY ItemsApart DEF Good
<1>2. CASE a.calls[k].name \in CustomNames
  <2>1. b = a
    BY <1>2 DEF EmitArguments
  <2>2. a.out[i].text = Streamed(a.calls[k])
    BY <1>2 DEF Streamed
  <2>3. Texts(a)
    BY <2>2, SMTT(30) DEF Texts, TextsBut
  <2> HIDE DEF b
  <2> QED BY <1>1, <2>1, <2>3, GrowsReflexive DEF Frame, AssemblerType, b
<1>3. CASE a.calls[k].name \notin CustomNames
  <2>1. b = Delta(a, i, t)
    BY <1>3 DEF EmitArguments
  <2>2. ItemsBut(a, b, i, Extended(a.out[i], t)) /\ Frame(a, b, { "out" })
    BY <1>1, <2>1, DeltaItems, DeltaGood
  <2> HIDE DEF b
  <2>3. b.out[i] = Extended(a.out[i], t)
        /\ \A j \in 0..(a.next - 1) : j # i => b.out[j] = a.out[j]
    BY <2>2, SMTT(30) DEF ItemsBut
  <2>4. /\ b.rIdx = a.rIdx /\ b.tIdx = a.tIdx /\ b.calls = a.calls /\ b.next = a.next
        /\ b.content = a.content /\ b.reasoning = a.reasoning /\ b.finish = a.finish
    BY <2>2, SMTT(30) DEF Frame, Fields
  <2>5. b.out[i].text = Streamed(b.calls[k])
    <3>1. Extended(a.out[i], t).text = a.out[i].text \o t
      BY <1>1, ItemsContinue
    <3> QED BY <1>3, <2>3, <2>4, <3>1, ZenonT(60) DEF Streamed
  <2>6. Texts(b)
    <3>1. b.rIdx # NoIndex => b.out[b.rIdx].text = b.reasoning
      BY <2>3, <2>4, ItemsApart DEF TextsBut
    <3>2. b.tIdx # NoIndex => b.out[b.tIdx].text = b.content
      BY <2>3, <2>4, ItemsApart DEF TextsBut
    <3>3. ASSUME NEW j \in Indices \ { k }, b.calls[j].added
          PROVE  b.out[b.calls[j].idx].text = Streamed(b.calls[j])
      <4>1. a.calls[j].idx \in 0..(a.next - 1) /\ a.calls[j].idx # i
        BY <2>4, <3>3, ItemsApart
      <4> QED BY <2>3, <2>4, <3>3, <4>1 DEF TextsBut
    <3>4. b.rIdx = NoIndex <=> b.reasoning = << >>
      BY <2>4 DEF TextsBut
    <3> QED BY <2>4, <2>5, <3>1, <3>2, <3>3, <3>4 DEF Texts
  <2>7. a.out[i].closed = 0
    BY <1>1 DEF Good, OwnIndices, Marked, Marks
  <2>8. ASSUME NEW j \in 0..(a.next - 1)
        PROVE  Continues(a.out[j], b.out[j]) /\ (a.out[j].closed > 0 => b.out[j] = a.out[j])
    <3>1. CASE j = i
      <4>1. Continues(a.out[i], Extended(a.out[i], t))
        BY <1>1, ItemsContinue
      <4>2. ~(a.out[i].closed > 0)
        BY <2>7
      <4> QED BY <2>3, <3>1, <4>1, <4>2
    <3>2. CASE j # i
      <4>1. b.out[j] = a.out[j] /\ a.out[j] \in Item
        BY <1>1, <2>3, <3>2
      <4>2. Continues(a.out[j], a.out[j])
        BY <4>1, EmptyText, ItemsContinue
      <4> QED BY <4>1, <4>2
    <3> QED BY <3>1, <3>2, SMTT(30)
  <2>9. Grows(a, b)
    BY <1>1, <2>4, <2>8 DEF Grows, Longer
  <2> QED BY <2>2, <2>3, <2>6, <2>9 DEF b
<1> QED BY <1>2, <1>3

(***************************************************************************)
(* Announcing a call with the arguments it has so far.                     *)
(***************************************************************************)
LEMMA EnsureToolStartedTold ==
    ASSUME NEW a, Good(a), Told(a), NEW k \in Indices
    PROVE  LET b == EnsureToolStarted(a, k)
           IN  /\ Told(b) /\ Grows(a, b)
               /\ Frame(a, b, { "out", "rDone", "next", "tIdx", "tDone", "calls" })
<1> DEFINE x == IF a.buffered THEN a ELSE FinishText(a)
           y == FinishReasoning(x)
           c == [ Announce(y, "call", k, y.calls[k].id)
                  EXCEPT !.calls[k] = Announced(y.calls[k], y.calls[k].id, y.next) ]
           d == EmitArguments(c, k, c.calls[k].args)
           F == { "out", "rDone", "next", "tIdx", "tDone", "calls" }
<1>0. AssemblerType(a)
  BY DEF Good
<1>1. CASE a.calls[k].added \/ a.calls[k].id = NoId \/ a.calls[k].name = Absent
  <2>1. EnsureToolStarted(a, k) = a
    BY <1>1 DEF EnsureToolStarted
  <2> QED BY <1>0, <2>1, GrowsReflexive DEF Frame, AssemblerType
<1>2. CASE ~(a.calls[k].added \/ a.calls[k].id = NoId \/ a.calls[k].name = Absent)
  <2>1. Good(x) /\ Told(x) /\ Grows(a, x)
        /\ Frame(a, x, { "out", "rDone", "next", "tIdx", "tDone" })
    <3>1. CASE a.buffered
      <4>1. x = a
        BY <3>1
      <4> HIDE DEF x
      <4> QED BY <1>0, <4>1, GrowsReflexive DEF Frame, AssemblerType
    <3>2. CASE ~a.buffered
      <4>1. x = FinishText(a)
        BY <3>2
      <4> HIDE DEF x
      <4>2. /\ Texts(x) /\ Grows(a, x) /\ HeldBack(x)
            /\ Frame(a, x, { "out", "rDone", "next", "tIdx", "tDone" })
        BY <3>2, <4>1, FinishTextTold
      <4>3. Good(x)
        BY <4>1, FinishTextGood
      <4> QED BY <4>2, <4>3 DEF Told
    <3> QED BY <3>1, <3>2
  <2> HIDE DEF x
  <2>2. Good(y) /\ Texts(y) /\ HeldBack(y) /\ Grows(x, y) /\ Frame(x, y, { "out", "rDone" })
    BY <2>1, FinishReasoningTold, FinishReasoningGood DEF Told
  <2> HIDE DEF y
  <2>3. Frame(a, y, { "out", "rDone", "next", "tIdx", "tDone" }) /\ y.calls = a.calls
    BY <2>1, <2>2 DEF Frame, Fields
  <2>4. /\ Good(c) /\ Frame(y, c, { "next", "out", "calls" })
        /\ c.next = y.next + 1
        /\ c.calls[k] = Announced(y.calls[k], y.calls[k].id, y.next)
        /\ \A j \in Indices \ { k } : c.calls[j] = y.calls[j]
        /\ c.out[y.next].text = << >>
        /\ \A i \in 0..(y.next - 1) : c.out[i] = y.out[i]
    <3>1. ~y.calls[k].added /\ y.calls[k].id # NoId /\ y.calls[k].name # Absent
      BY <1>2, <2>3
    <3> QED BY <2>2, <3>1, StartCallGood, StartCallFields, SMTT(30)
  <2>5. EnsureToolStarted(a, k) = d
    BY <1>2 DEF EnsureToolStarted, y, x
  <2> HIDE DEF c
  <2>6. /\ c.rIdx = y.rIdx /\ c.tIdx = y.tIdx /\ c.content = y.content
        /\ c.reasoning = y.reasoning /\ c.finish = y.finish
        /\ c.calls[k].added /\ c.calls[k].idx = y.next /\ c.calls[k].args \in Text
        /\ y.next \in Nat /\ c.buffered = y.buffered
    BY <2>2, <2>4 DEF Frame, Fields, Announced, Good, AssemblerType, Call
  <2>7. TextsBut(c, k)
    <3>1. c.rIdx # NoIndex => c.out[c.rIdx].text = c.reasoning
      BY <2>2, <2>4, <2>6, ItemsApart DEF Texts
    <3>2. c.tIdx # NoIndex => c.out[c.tIdx].text = c.content
      BY <2>2, <2>4, <2>6, ItemsApart, SMTT(60) DEF Texts
    <3>3. ASSUME NEW j \in Indices \ { k }, c.calls[j].added
          PROVE  c.out[c.calls[j].idx].text = Streamed(c.calls[j])
      <4>1. y.calls[j].idx \in 0..(y.next - 1)
            /\ y.out[y.calls[j].idx].text = Streamed(y.calls[j])
        BY <2>2, <2>4, <3>3, ItemsApart DEF Texts
      <4> QED BY <2>4, <3>3, <4>1
    <3>4. c.rIdx = NoIndex <=> c.reasoning = << >>
      BY <2>2, <2>6 DEF Texts
    <3> QED BY <3>1, <3>2, <3>3, <3>4 DEF TextsBut
  <2>8. Grows(y, c)
    <3>1. ASSUME NEW i \in 0..(y.next - 1)
          PROVE  Continues(y.out[i], c.out[i]) /\ c.out[i] = y.out[i]
      <4>1. y.out[i] \in Item /\ c.out[i] = y.out[i]
        BY <2>2, <2>4, ItemsApart
      <4>2. Continues(y.out[i], y.out[i])
        BY <4>1, EmptyText, ItemsContinue
      <4> QED BY <4>1, <4>2
    <3> QED BY <2>4, <2>6, <3>1 DEF Grows, Longer
  <2>9. Texts(d) /\ Grows(c, d) /\ Frame(c, d, { "out" })
    <3>1. c.out[c.calls[k].idx].text = << >> /\ << >> \o c.calls[k].args = c.calls[k].args
      BY <2>4, <2>6, TextConcat
    <3>2. c.out[c.calls[k].idx].text \o c.calls[k].args = c.calls[k].args
      BY <3>1
    <3> QED BY <2>4, <2>6, <2>7, <3>1, <3>2, EmitTold
  <2>10. Good(d)
    BY <2>4, <2>6, EmitArgumentsGood
  <2> HIDE DEF d
  <2>11. Frame(a, d, F) /\ d.tIdx = y.tIdx /\ d.content = y.content /\ d.buffered = y.buffered
    BY <2>3, <2>4, <2>6, <2>9 DEF Frame, Fields
  <2>12. Told(d)
    BY <2>2, <2>9, <2>11 DEF Told, HeldBack
  <2>13. Grows(a, d)
    <3>1. AssemblerType(x) /\ AssemblerType(y) /\ AssemblerType(c) /\ AssemblerType(d)
      BY <2>1, <2>2, <2>4, <2>10 DEF Good
    <3>2. Grows(a, y)
      BY <1>0, <2>1, <2>2, <3>1, GrowsTransitive
    <3>3. Grows(a, c)
      BY <1>0, <2>8, <3>1, <3>2, GrowsTransitive
    <3> QED BY <1>0, <2>9, <3>1, <3>3, GrowsTransitive
  <2> QED BY <2>5, <2>11, <2>12, <2>13
<1> QED BY <1>1, <1>2

(***************************************************************************)
(* What a method that handles a part of a chunk does: nothing is lost, and *)
(* neither the outcome nor the finish reason changes.                      *)
(***************************************************************************)
Spoken == { "out", "rDone", "next", "tIdx", "rIdx", "tDone", "reasoning", "content", "buf",
            "think", "calls" }

Tells(a, b) == Good(b) /\ Told(b) /\ Grows(a, b) /\ Frame(a, b, Spoken)

\* One such method after another.
LEMMA TellsTransitive ==
    ASSUME NEW a, NEW b, NEW c, Good(a), Tells(a, b), Tells(b, c)
    PROVE  Tells(a, c)
<1>1. AssemblerType(a) /\ AssemblerType(b) /\ AssemblerType(c)
  BY DEF Tells, Good
<1>2. Grows(a, c)
  BY <1>1, GrowsTransitive DEF Tells
<1>3. Frame(a, c, Spoken)
  BY DEF Tells, Frame
<1> QED BY <1>2, <1>3 DEF Tells

\* So does the one that does nothing.
LEMMA TellsReflexive ==
    ASSUME NEW a, Good(a), Told(a)
    PROVE  Tells(a, a)
  BY GrowsReflexive DEF Tells, Good, Frame, AssemblerType

(***************************************************************************)
(* One element of a tool_calls array.                                      *)
(***************************************************************************)
LEMMA AcceptToolDeltaTold ==
    ASSUME NEW a, Good(a), Told(a), NEW k \in Indices, NEW id \in Ids,
           NEW name \in Names \cup { Absent }, NEW args \in Text
    PROVE  LET b == AcceptToolDelta(a, k, id, name, args)
           IN  /\ Tells(a, b)
               /\ Frame(a, b, { "out", "rDone", "next", "tIdx", "tDone", "calls" })
<1> DEFINE was == a.calls[k]
           now == [ id    |-> IF id # NoId /\ ~was.added THEN id ELSE was.id,
                    name  |-> IF name # Absent /\ ~was.added THEN name ELSE was.name,
                    args  |-> was.args \o args,
                    added |-> was.added,
                    idx   |-> was.idx ]
           c == [ a EXCEPT !.calls[k] = now ]
           b == EnsureToolStarted(c, k)
           d == AcceptToolDelta(a, k, id, name, args)
           F == { "out", "rDone", "next", "tIdx", "tDone", "calls" }
<1>0. AssemblerType(a) /\ a.next \in Nat
  BY DEF Good, AssemblerType
<1>1. was \in Call /\ was.args \in Text
  BY DEF Good, AssemblerType, Call
<1>2. now \in Call /\ now.added = was.added /\ now.idx = was.idx
      /\ now.args = was.args \o args
      /\ (now.added => now.id = was.id /\ now.name = was.name)
  <2>1. was.args \o args \in Text
    BY <1>1, TextConcat
  <2> QED BY <1>1, <2>1 DEF Call
<1>4. d = IF was.added THEN EmitArguments(b, k, args) ELSE b
  BY DEF AcceptToolDelta
<1> HIDE DEF now, d
<1>5. /\ Good(c) /\ Frame(a, c, { "calls" }) /\ c.calls[k] = now
      /\ \A j \in Indices \ { k } : c.calls[j] = a.calls[j]
  BY <1>2, SetCallGood, SetCallFields
<1> HIDE DEF c
<1>6. /\ c.rIdx = a.rIdx /\ c.tIdx = a.tIdx /\ c.content = a.content /\ c.next = a.next
      /\ c.reasoning = a.reasoning /\ c.finish = a.finish /\ c.out = a.out
      /\ c.buffered = a.buffered
  BY <1>5 DEF Frame, Fields
<1>7. Grows(a, c)
  BY <1>0, <1>6, GrowsSilently DEF Longer
<1>8. TextsBut(c, k) /\ HeldBack(c)
  BY <1>5, <1>6 DEF Told, Texts, TextsBut, HeldBack
<1>9. CASE was.added
  <2>1. b = c
    BY <1>2, <1>5, <1>9 DEF EnsureToolStarted
  <2>2. a.out[was.idx].text = Streamed(was)
    BY <1>9 DEF Told, Texts
  <2>3. /\ c.calls[k].added
        /\ c.calls[k].name \in CustomNames => c.out[c.calls[k].idx].text = << >>
        /\ c.calls[k].name \notin CustomNames =>
             c.out[c.calls[k].idx].text \o args = c.calls[k].args
    BY <1>2, <1>5, <1>6, <1>9, <2>2 DEF Streamed
  <2>4. d = EmitArguments(c, k, args)
    BY <1>4, <1>9, <2>1
  <2>5. Texts(d) /\ Grows(c, d) /\ Frame(c, d, { "out" })
    BY <1>5, <1>8, <2>3, <2>4, EmitTold
  <2>6. Good(d)
    BY <1>5, <2>4, EmitArgumentsGood
  <2>7. Frame(a, d, F) /\ d.tIdx = a.tIdx /\ d.content = a.content /\ d.buffered = a.buffered
    BY <1>5, <2>5 DEF Frame, Fields
  <2>8. Told(d)
    BY <2>5, <2>7 DEF Told, HeldBack
  <2>9. Grows(a, d)
    BY <1>0, <1>5, <1>7, <2>5, <2>6, GrowsTransitive DEF Good
  <2>10. Frame(a, d, Spoken)
    BY <2>7 DEF Frame, Spoken
  <2> QED BY <2>6, <2>7, <2>8, <2>9, <2>10 DEF Tells, d
<1>10. CASE ~was.added
  <2>1. Told(c)
    BY <1>2, <1>5, <1>8, <1>10 DEF Told, Texts, TextsBut
  <2>2. Told(b) /\ Grows(c, b) /\ Frame(c, b, F)
    BY <1>5, <2>1, EnsureToolStartedTold
  <2>3. Good(b)
    BY <1>5, EnsureToolStartedGood
  <2> HIDE DEF b
  <2>4. Frame(a, b, F)
    BY <1>5, <2>2 DEF Frame, Fields
  <2>5. Grows(a, b)
    BY <1>0, <1>5, <1>7, <2>2, <2>3, GrowsTransitive DEF Good
  <2>6. Frame(a, b, Spoken)
    BY <2>4 DEF Frame, Spoken
  <2> QED BY <1>4, <1>10, <2>2, <2>3, <2>4, <2>5, <2>6 DEF Tells, d
<1> QED BY <1>9, <1>10

------------------------------------------------------------------------------
(***************************************************************************)
(* The order of the items.  An orderly upstream makes the assembler lay    *)
(* its items out as the response will list them: the reasoning, then the   *)
(* text, or the calls by their keys; and the reasoning item is closed with *)
(* all the reasoning there is.                                             *)
(***************************************************************************)
Added(a) == { k \in Indices : a.calls[k].added }

First(a) == IF a.rIdx = NoIndex THEN 0 ELSE 1

Laid(a) ==
    /\ a.rIdx # NoIndex => a.rIdx = 0
    /\ a.tIdx # NoIndex => a.tIdx = First(a)
    /\ a.next = First(a) + (IF a.tIdx = NoIndex THEN 0 ELSE 1) + Cardinality(Added(a))
    /\ \A k \in Added(a) : a.calls[k].idx = First(a) + Rank(Added(a), k)
    /\ a.rDone => a.out[a.rIdx].final = a.reasoning

Uncalled(a) == \A k \in Indices : ~a.calls[k].added

\* Only the fields that Laid looks at matter.
LEMMA LaidFields ==
    ASSUME NEW a, Laid(a), NEW b, b.calls = a.calls, b.rIdx = a.rIdx, b.tIdx = a.tIdx,
           b.next = a.next, b.rDone => b.out[b.rIdx].final = b.reasoning
    PROVE  Laid(b)
  BY DEF Laid, First, Added

\* Without calls, the next index is the number of the other items.
LEMMA UncalledLaid ==
    ASSUME NEW a, Uncalled(a)
    PROVE  Laid(a) <=>
             /\ a.rIdx # NoIndex => a.rIdx = 0
             /\ a.tIdx # NoIndex => a.tIdx = First(a)
             /\ a.next = First(a) + (IF a.tIdx = NoIndex THEN 0 ELSE 1)
             /\ a.rDone => a.out[a.rIdx].final = a.reasoning
<1>1. Added(a) = {}
  BY DEF Uncalled, Added
<1>2. Cardinality({}) = 0
  BY FS_EmptySet
<1>3. First(a) \in Int
  BY DEF First
<1>4. \A n \in Int : n + Cardinality(Added(a)) = n
  BY <1>1, <1>2
<1>5. First(a) + (IF a.tIdx = NoIndex THEN 0 ELSE 1) \in Int
  BY <1>3
<1>6. First(a) + (IF a.tIdx = NoIndex THEN 0 ELSE 1) + Cardinality(Added(a))
      = First(a) + (IF a.tIdx = NoIndex THEN 0 ELSE 1)
  BY <1>4, <1>5
<1> QED BY <1>1, <1>6 DEF Laid

(***************************************************************************)
(* Reasoning that comes before everything else gets index 0.               *)
(***************************************************************************)
LEMMA PushReasoningLaid ==
    ASSUME NEW a, Good(a), Laid(a), Uncalled(a), a.tIdx = NoIndex, ~a.rDone, NEW t \in Text
    PROVE  Laid(PushReasoning(a, t))
<1> DEFINE b == PushReasoning(a, t)
<1>1. CASE t = << >>
  BY <1>1 DEF PushReasoning
<1>2. CASE t # << >>
  <2>1. /\ Frame(a, b, { "rIdx", "next", "out", "reasoning" })
        /\ b.rIdx = Seat(a, a.rIdx) /\ b.next = Behind(a, a.rIdx)
    BY <1>2, PushReasoningFields
  <2> HIDE DEF b
  <2>2. b.calls = a.calls /\ b.tIdx = a.tIdx /\ b.rDone = a.rDone
    BY <2>1 DEF Frame, Fields
  <2>3. Uncalled(b)
    BY <2>2 DEF Uncalled
  <2>4. /\ a.rIdx # NoIndex => a.rIdx = 0
        /\ a.next = First(a)
    BY UncalledLaid DEF First
  <2>5. b.rIdx = 0 /\ b.next = 1 /\ First(b) = 1
    BY <2>1, <2>4 DEF Seat, Behind, First, NoIndex
  <2> QED BY <2>2, <2>3, <2>5, UncalledLaid DEF b
<1> QED BY <1>1, <1>2

(***************************************************************************)
(* The reasoning item is closed with all the reasoning there is.           *)
(***************************************************************************)
LEMMA FinishReasoningLaid ==
    ASSUME NEW a, Good(a), Laid(a)
    PROVE  Laid(FinishReasoning(a))
<1> DEFINE b == FinishReasoning(a)
<1>1. CASE a.rIdx = NoIndex \/ a.rDone
  BY <1>1 DEF FinishReasoning
<1>2. CASE a.rIdx # NoIndex /\ ~a.rDone
  <2>1. /\ Frame(a, b, { "out", "rDone" })
        /\ \A i \in 0..(a.next - 1) :
             b.out[i] = IF i = a.rIdx /\ ~a.rDone
                        THEN Finished(a.out[i], a.reasoning) ELSE a.out[i]
    BY FinishReasoningFields
  <2> HIDE DEF b
  <2>2. /\ b.calls = a.calls /\ b.rIdx = a.rIdx /\ b.tIdx = a.tIdx /\ b.next = a.next
        /\ b.reasoning = a.reasoning
    BY <2>1 DEF Frame, Fields
  <2>3. a.rIdx \in 0..(a.next - 1) /\ a.out[a.rIdx] \in Item /\ a.reasoning \in Text
    BY <1>2, ItemsApart DEF Good, AssemblerType
  <2>4. b.out[b.rIdx] = Finished(a.out[a.rIdx], a.reasoning)
    BY <1>2, <2>1, <2>2, <2>3
  <2>5. Finished(a.out[a.rIdx], a.reasoning).final = a.reasoning
    BY <2>3, ItemsContinue
  <2> QED BY <2>2, <2>4, <2>5, LaidFields DEF b
<1> QED BY <1>1, <1>2

(***************************************************************************)
(* Text comes behind the reasoning if no call was announced before.        *)
(***************************************************************************)
LEMMA SeatedLaid ==
    ASSUME NEW a, Good(a), Laid(a), Uncalled(a)
    PROVE  Laid(Seated(a))
<1> DEFINE b == Seated(a)
<1>1. CASE a.tIdx # NoIndex
  BY <1>1 DEF Seated
<1>2. CASE a.tIdx = NoIndex
  <2>1. /\ Frame(a, b, { "tIdx", "next", "out" })
        /\ b.tIdx = a.next /\ b.next = a.next + 1 /\ b.tIdx # NoIndex
        /\ \A i \in 0..(a.next - 1) : b.out[i] = a.out[i]
    BY <1>2, SeatedFields DEF Seat, Behind
  <2> HIDE DEF b
  <2>2. /\ b.calls = a.calls /\ b.rIdx = a.rIdx /\ b.rDone = a.rDone
        /\ b.reasoning = a.reasoning
    BY <2>1 DEF Frame, Fields
  <2>3. Uncalled(b) /\ First(b) = First(a) /\ First(a) \in Int
    BY <2>2 DEF Uncalled, First
  <2>4. /\ a.rIdx # NoIndex => a.rIdx = 0
        /\ a.next = First(a)
        /\ a.rDone => a.out[a.rIdx].final = a.reasoning
    BY <1>2, <2>3, UncalledLaid
  <2>5. b.rDone => b.out[b.rIdx].final = b.reasoning
    BY <2>1, <2>2, <2>4, ItemsApart DEF Good, Marked
  <2> QED BY <2>1, <2>2, <2>3, <2>4, <2>5, UncalledLaid DEF b
<1> QED BY <1>1, <1>2

(***************************************************************************)
(* A text delta.                                                           *)
(***************************************************************************)
LEMMA PushTextLaid ==
    ASSUME NEW a, Good(a), Told(a), Laid(a), Uncalled(a), NEW t \in Text
    PROVE  Laid(PushText(a, t))
<1> DEFINE b == PushText(a, t)
<1>1. CASE t = << >>
  BY <1>1 DEF PushText
<1>2. CASE t # << >> /\ a.buffered
  <2>1. b = [ a EXCEPT !.content = @ \o t ]
    BY <1>2 DEF PushText
  <2>2. /\ b.calls = a.calls /\ b.rIdx = a.rIdx /\ b.tIdx = a.tIdx /\ b.next = a.next
        /\ b.reasoning = a.reasoning /\ b.rDone = a.rDone /\ b.out = a.out
    BY <2>1 DEF Good, AssemblerType, Fields
  <2> HIDE DEF b
  <2>3. b.rDone => b.out[b.rIdx].final = b.reasoning
    BY <2>2 DEF Laid
  <2> QED BY <2>2, <2>3, LaidFields DEF b
<1>3. CASE t # << >> /\ ~a.buffered
  <2> DEFINE e == Before(a)
             s == Seated(e)
             d == [ Delta(s, s.tIdx, t) EXCEPT !.content = @ \o t ]
  <2>1. b = d
    <3>1. EnsureTextStarted(a) = s
      BY TextStartsSeated
    <3> QED BY <1>3, <3>1 DEF PushText
  <2>2. Good(e) /\ Frame(a, e, { "out", "rDone" })
    BY TextStartsSeated
  <2>3. Laid(e)
    BY FinishReasoningLaid DEF Before
  <2> HIDE DEF e
  <2>4. Uncalled(e)
    BY <2>2 DEF Frame, Fields, Uncalled
  <2>5. Laid(s) /\ Good(s) /\ s.tIdx # NoIndex
    BY <2>2, <2>3, <2>4, SeatedLaid, SeatedFields
  <2> HIDE DEF s
  <2>6. /\ Frame(s, d, { "out", "content" })
        /\ \A i \in 0..(s.next - 1) :
             d.out[i] = IF i = s.tIdx THEN Extended(s.out[i], t) ELSE s.out[i]
    BY <2>5, TextDeltaFields
  <2> HIDE DEF d, b
  <2>7. /\ d.calls = s.calls /\ d.rIdx = s.rIdx /\ d.tIdx = s.tIdx /\ d.next = s.next
        /\ d.reasoning = s.reasoning /\ d.rDone = s.rDone
    BY <2>6 DEF Frame, Fields
  <2>8. d.rDone => d.out[d.rIdx].final = d.reasoning
    <3>1. s.rDone => s.rIdx \in 0..(s.next - 1) /\ s.rIdx # s.tIdx
      BY <2>5, ItemsApart DEF Good, Marked
    <3> QED BY <2>5, <2>6, <2>7, <3>1 DEF Laid
  <2>9. Laid(d)
    BY <2>5, <2>7, <2>8, LaidFields
  <2> QED BY <2>1, <2>9 DEF b
<1> QED BY <1>1, <1>2, <1>3

------------------------------------------------------------------------------
(***************************************************************************)
(* The methods that handle content and reasoning.                          *)
(***************************************************************************)

\* What a method does that knows of no tool calls.
Says(a, b) ==
    /\ Tells(a, b)
    /\ b.calls = a.calls /\ b.tDone = a.tDone
    /\ Laid(a) /\ Uncalled(a) => Laid(b)

\* One such method after another.
LEMMA SaysTransitive ==
    ASSUME NEW a, NEW b, NEW c, Good(a), Says(a, b), Says(b, c)
    PROVE  Says(a, c)
<1>1. Tells(a, c)
  BY TellsTransitive DEF Says
<1>2. Uncalled(a) => Uncalled(b)
  BY DEF Says, Uncalled
<1> QED BY <1>1, <1>2 DEF Says

(***************************************************************************)
(* The think buffer and the state of the detection are not shown.          *)
(***************************************************************************)
LEMMA SetSays ==
    ASSUME NEW a, Good(a), Told(a), NEW b, Good(b), Frame(a, b, { "buf", "think" })
    PROVE  Says(a, b)
<1>1. /\ b.out = a.out /\ b.next = a.next /\ b.finish = a.finish /\ b.rIdx = a.rIdx
      /\ b.tIdx = a.tIdx /\ b.reasoning = a.reasoning /\ b.calls = a.calls
      /\ b.buffered = a.buffered /\ b.content = a.content /\ b.tDone = a.tDone
      /\ b.rDone = a.rDone
  BY DEF Frame, Fields
<1>2. Told(b)
  BY <1>1 DEF Told, Texts, HeldBack
<1>3. Grows(a, b)
  BY <1>1, GrowsSilently DEF Longer, Good
<1>4. Frame(a, b, Spoken)
  BY DEF Frame, Spoken
<1>5. Laid(a) => Laid(b)
  BY <1>1, LaidFields DEF Laid
<1> QED BY <1>1, <1>2, <1>3, <1>4, <1>5 DEF Says, Tells

\* A text delta.
LEMMA PushTextSays ==
    ASSUME NEW a, Good(a), Told(a), NEW t \in Text
    PROVE  Says(a, PushText(a, t)) /\ PushText(a, t).think = a.think
<1> DEFINE b == PushText(a, t)
<1>1. /\ Told(b) /\ Grows(a, b)
      /\ Frame(a, b, { "out", "rDone", "next", "tIdx", "content" })
  BY PushTextTold
<1>2. Good(b) /\ (Laid(a) /\ Uncalled(a) => Laid(b))
  BY PushTextGood, PushTextLaid
<1> HIDE DEF b
<1>3. b.calls = a.calls /\ b.tDone = a.tDone /\ b.think = a.think /\ Frame(a, b, Spoken)
  BY <1>1 DEF Frame, Fields, Spoken
<1> QED BY <1>1, <1>2, <1>3 DEF Says, Tells, b

(***************************************************************************)
(* Reasoning of the content, which is not over yet.                        *)
(***************************************************************************)
LEMMA PushReasoningSays ==
    ASSUME NEW a, Good(a), Told(a), NEW t \in Text
    PROVE  LET b == PushReasoning(a, t)
           IN  /\ Tells(a, b) /\ Frame(a, b, { "rIdx", "next", "out", "reasoning" })
               /\ a.content = << >> /\ ~a.rDone => Says(a, b)
<1> DEFINE b == PushReasoning(a, t)
<1>1. Told(b) /\ Grows(a, b) /\ Frame(a, b, { "rIdx", "next", "out", "reasoning" })
  BY PushReasoningTold
<1>2. Good(b)
  BY PushReasoningGood
<1>3. a.content = << >> => a.tIdx = NoIndex
  BY DEF Told, HeldBack
<1>4. a.content = << >> /\ ~a.rDone /\ Laid(a) /\ Uncalled(a) => Laid(b)
  BY <1>3, PushReasoningLaid
<1> HIDE DEF b
<1>5. b.calls = a.calls /\ b.tDone = a.tDone /\ Frame(a, b, Spoken)
  BY <1>1 DEF Frame, Fields, Spoken
<1> QED BY <1>1, <1>2, <1>4, <1>5 DEF Says, Tells, b

(***************************************************************************)
(* The block is over.                                                      *)
(***************************************************************************)
LEMMA LeaveThinkSays ==
    ASSUME NEW a, Good(a), Told(a), a.content = << >>, ~a.rDone, NEW r \in Text, NEW t \in Text
    PROVE  Says(a, LeaveThink(a, r, t)) /\ LeaveThink(a, r, t).think = "Done"
<1> DEFINE b == PushReasoning(a, r)
           c == [ b EXCEPT !.buf = << >>, !.think = "Done" ]
<1>1. Says(a, b) /\ Good(b)
  BY PushReasoningSays, PushReasoningGood
<1> HIDE DEF b
<1>2. Good(c)
  BY <1>1, SetThinkGood, EmptyText DEF Thinking
<1>3. Frame(b, c, { "buf", "think" }) /\ c.think = "Done"
  BY <1>1 DEF Frame, Fields, Good, AssemblerType
<1> HIDE DEF c
<1>4. Says(b, c) /\ Told(c)
  BY <1>1, <1>2, <1>3, SetSays DEF Says, Tells
<1>5. Says(c, PushText(c, t)) /\ PushText(c, t).think = "Done"
  BY <1>2, <1>3, <1>4, PushTextSays
<1>6. Says(a, PushText(c, t))
  BY <1>1, <1>4, <1>5, SaysTransitive
<1> QED BY <1>5, <1>6 DEF LeaveThink, b, c

(***************************************************************************)
(* Text inside an open block.                                              *)
(***************************************************************************)
LEMMA AcceptInThinkSays ==
    ASSUME NEW a, Good(a), Told(a), Thought(a), a.think = "InThink", NEW t \in Text
    PROVE  Says(a, AcceptInThink(a, t)) /\ Thought(AcceptInThink(a, t))
<1> DEFINE s == a.buf \o t
           b == PushReasoning(a, Settled(s))
           c == [ b EXCEPT !.buf = Held(s) ]
<1>0. a.content = << >> /\ ~a.rDone
  BY DEF Thought
<1>1. s \in Text
  BY TextConcat DEF Good, AssemblerType
<1> HIDE DEF s
<1>2. CASE HasClose(s)
  <2>1. BeforeClose(s) \in Text /\ AfterClose(s) \in Text
    BY <1>1, <1>2, CloseTypes
  <2>2. AcceptInThink(a, t) = LeaveThink(a, BeforeClose(s), AfterClose(s))
    BY <1>2 DEF AcceptInThink, s
  <2> QED BY <1>0, <2>1, <2>2, LeaveThinkSays DEF Thought
<1>3. CASE ~HasClose(s)
  <2>1. Held(s) \in Text /\ Settled(s) \in Text
    BY <1>1, HeldTypes
  <2>2. Good(b) /\ Says(a, b) /\ Frame(a, b, { "rIdx", "next", "out", "reasoning" })
    BY <1>0, <2>1, PushReasoningSays, PushReasoningGood
  <2>3. AcceptInThink(a, t) = c
    BY <1>3 DEF AcceptInThink, s
  <2> HIDE DEF b
  <2>4. Good(c)
    BY <2>1, <2>2, SetBufferGood
  <2>5. Frame(b, c, { "buf", "think" }) /\ c.think = b.think
    BY <2>2 DEF Frame, Fields, Good, AssemblerType
  <2> HIDE DEF c
  <2>6. Says(b, c)
    BY <2>2, <2>4, <2>5, SetSays DEF Says, Tells
  <2>7. Says(a, c)
    BY <2>2, <2>6, SaysTransitive
  <2>8. c.think = "InThink" /\ c.content = << >> /\ ~c.rDone
    BY <1>0, <2>2, <2>5 DEF Frame, Fields
  <2> QED BY <2>3, <2>7, <2>8 DEF Thought
<1> QED BY <1>2, <1>3

(***************************************************************************)
(* The first text, which may open a block.                                 *)
(***************************************************************************)
LEMMA DetectThinkSays ==
    ASSUME NEW a, Good(a), Told(a), Thought(a), a.think = "Detecting", NEW s \in Text
    PROVE  Says(a, DetectThink(a, s)) /\ Thought(DetectThink(a, s))
<1>0. a.content = << >> /\ ~a.rDone /\ a.rIdx = NoIndex /\ DOMAIN a = Fields
  BY DEF Thought, Good, AssemblerType
<1>1. CASE HasBlock(s)
  <2>1. BlockReasoning(s) \in Text /\ BlockAnswer(s) \in Text
    BY <1>1, BlockTypes
  <2>2. DetectThink(a, s) = LeaveThink(a, BlockReasoning(s), BlockAnswer(s))
    BY <1>1 DEF DetectThink
  <2> QED BY <1>0, <2>1, <2>2, LeaveThinkSays DEF Thought
<1>2. CASE ~HasBlock(s) /\ HasOpen(s)
  <2> DEFINE b == [ a EXCEPT !.buf = << >>, !.think = "InThink" ]
             c == AcceptInThink(b, Trim(AfterOpen(s)))
  <2>1. Trim(AfterOpen(s)) \in Text
    BY AfterOpenType, TrimTypes
  <2>2. Good(b)
    BY SetThinkGood, EmptyText DEF Thinking
  <2>3. DetectThink(a, s) = c
    BY <1>2 DEF DetectThink
  <2>4. Frame(a, b, { "buf", "think" }) /\ b.think = "InThink"
    BY <1>0 DEF Frame, Fields
  <2> HIDE DEF b
  <2>5. Says(a, b) /\ Told(b)
    BY <2>2, <2>4, SetSays DEF Says, Tells
  <2>6. Thought(b)
    BY <1>0, <2>4 DEF Frame, Fields, Thought
  <2>7. Says(b, c) /\ Thought(c)
    BY <2>1, <2>2, <2>4, <2>5, <2>6, AcceptInThinkSays
  <2> HIDE DEF c
  <2> QED BY <2>3, <2>5, <2>7, SaysTransitive
<1>3. CASE ~HasBlock(s) /\ ~HasOpen(s) /\ MayBecomeOpen(s)
  <2> DEFINE b == [ a EXCEPT !.buf = s ]
  <2>1. DetectThink(a, s) = b
    BY <1>3 DEF DetectThink
  <2>2. Good(b)
    BY SetBufferGood
  <2>3. Frame(a, b, { "buf", "think" }) /\ b.think = a.think
    BY <1>0 DEF Frame, Fields
  <2> HIDE DEF b
  <2>4. Says(a, b)
    BY <2>2, <2>3, SetSays
  <2>5. Thought(b)
    BY <1>0, <2>3 DEF Frame, Fields, Thought
  <2> QED BY <2>1, <2>4, <2>5
<1>4. CASE ~HasBlock(s) /\ ~HasOpen(s) /\ ~MayBecomeOpen(s)
  <2> DEFINE b == [ a EXCEPT !.buf = << >>, !.think = "Done" ]
  <2>1. Good(b)
    BY SetThinkGood, EmptyText DEF Thinking
  <2>2. DetectThink(a, s) = PushText(b, s)
    BY <1>4 DEF DetectThink
  <2>3. Frame(a, b, { "buf", "think" }) /\ b.think = "Done"
    BY <1>0 DEF Frame, Fields
  <2> HIDE DEF b
  <2>4. Says(a, b) /\ Told(b)
    BY <2>1, <2>3, SetSays DEF Says, Tells
  <2>5. Says(b, PushText(b, s)) /\ PushText(b, s).think = "Done"
    BY <2>1, <2>3, <2>4, PushTextSays
  <2>6. Says(a, PushText(b, s))
    BY <2>4, <2>5, SaysTransitive
  <2> QED BY <2>2, <2>5, <2>6 DEF Thought
<1> QED BY <1>1, <1>2, <1>3, <1>4

(***************************************************************************)
(* A content delta.                                                        *)
(***************************************************************************)
LEMMA AcceptContentSays ==
    ASSUME NEW a, Good(a), Told(a), Thought(a), NEW t \in Text
    PROVE  LET b == AcceptContent(a, t)
           IN  /\ Says(a, b) /\ Thought(b)
               /\ a.rDone => b.reasoning = a.reasoning
<1> DEFINE b == AcceptContent(a, t)
<1>1. a.buf \o t \in Text /\ a.think \in Thinking
  BY TextConcat DEF Good, AssemblerType
<1>2. CASE a.think = "Detecting"
  <2>1. b = DetectThink(a, a.buf \o t)
    BY <1>2 DEF AcceptContent
  <2> HIDE DEF b
  <2> QED BY <1>1, <1>2, <2>1, DetectThinkSays DEF Thought, b
<1>3. CASE a.think = "InThink"
  <2>1. b = AcceptInThink(a, t)
    BY <1>3 DEF AcceptContent
  <2> HIDE DEF b
  <2> QED BY <1>3, <2>1, AcceptInThinkSays DEF Thought, b
<1>4. CASE a.think = "Done"
  <2>1. b = PushText(a, t)
    BY <1>4 DEF AcceptContent
  <2>2. Says(a, PushText(a, t)) /\ PushText(a, t).think = "Done"
        /\ PushText(a, t).reasoning = a.reasoning
    BY <1>4, PushTextSays, PushTextTold DEF Frame, Fields
  <2> HIDE DEF b
  <2> QED BY <2>1, <2>2 DEF Thought, b
<1> QED BY <1>1, <1>2, <1>3, <1>4 DEF Thinking

(***************************************************************************)
(* Flushing moves the held back text on, as text or as reasoning.          *)
(***************************************************************************)
LEMMA FlushSays ==
    ASSUME NEW a, Good(a), Told(a), Thought(a)
    PROVE  LET b == FlushThinkBuffer(a)
           IN  /\ Says(a, b) /\ Thought(b)
               /\ b.think # "InThink" /\ (b.think = "Detecting" => b.buf = << >>)
               /\ a.think = "Done" \/ (a.think = "Detecting" /\ a.buf = << >>) => b = a
<1> DEFINE b == FlushThinkBuffer(a)
           c == [ a EXCEPT !.buf = << >>, !.think = "Done" ]
<1>1. a.think \in Thinking /\ a.buf \in Text /\ DOMAIN a = Fields
  BY DEF Good, AssemblerType
<1>2. Good(c)
  BY SetThinkGood, EmptyText DEF Thinking
<1>3. Frame(a, c, { "buf", "think" }) /\ c.think = "Done"
  BY <1>1 DEF Frame, Fields
<1>4. CASE a.think = "Done" \/ (a.think = "Detecting" /\ a.buf = << >>)
  <2>1. b = a
    BY <1>4 DEF FlushThinkBuffer
  <2>2. Says(a, a)
    BY TellsReflexive DEF Says
  <2> HIDE DEF b
  <2> QED BY <1>4, <2>1, <2>2 DEF b
<1>5. CASE a.think = "Detecting" /\ a.buf # << >>
  <2>1. b = PushText(c, a.buf)
    BY <1>5 DEF FlushThinkBuffer
  <2> HIDE DEF c
  <2>2. Says(a, c) /\ Told(c)
    BY <1>2, <1>3, SetSays DEF Says, Tells
  <2>3. Says(c, PushText(c, a.buf)) /\ PushText(c, a.buf).think = "Done"
    BY <1>1, <1>2, <1>3, <2>2, PushTextSays
  <2> HIDE DEF b
  <2>4. Says(a, b) /\ b.think = "Done"
    BY <2>1, <2>2, <2>3, SaysTransitive
  <2> QED BY <1>5, <2>4 DEF Thought, b
<1>6. CASE a.think = "InThink"
  <2>1. b = PushReasoning(c, a.buf)
    BY <1>6 DEF FlushThinkBuffer
  <2> HIDE DEF c
  <2>2. Says(a, c) /\ Told(c)
    BY <1>2, <1>3, SetSays DEF Says, Tells
  <2>3. c.content = << >> /\ ~c.rDone
    BY <1>3, <1>6 DEF Thought, Frame, Fields
  <2> HIDE DEF b
  <2>4. Says(c, b) /\ Frame(c, b, { "rIdx", "next", "out", "reasoning" })
    BY <1>1, <1>2, <2>1, <2>2, <2>3, PushReasoningSays
  <2>5. Says(a, b) /\ b.think = "Done"
    BY <1>3, <2>2, <2>4, SaysTransitive DEF Frame, Fields
  <2> QED BY <1>6, <2>5 DEF Thought, b
<1> QED BY <1>1, <1>4, <1>5, <1>6 DEF Thinking

(***************************************************************************)
(* A reasoning delta of the upstream.                                      *)
(***************************************************************************)
LEMMA AcceptReasoningTells ==
    ASSUME NEW a, Good(a), Told(a), Thought(a), NEW t \in Text
    PROVE  LET b == AcceptReasoning(a, t)
           IN  /\ Tells(a, b) /\ Thought(b)
               /\ a.content = << >> /\ a.buf = << >> /\ a.think # "InThink" /\ ~a.rDone =>
                    Says(a, b) /\ b.content = << >> /\ b.buf = << >> /\ b.think = "Done" /\ ~b.rDone
<1> DEFINE b == FlushThinkBuffer(a)
           c == [ b EXCEPT !.think = "Done" ]
           d == PushReasoning(c, t)
<1>1. Good(b) /\ Says(a, b)
      /\ (a.think = "Done" \/ (a.think = "Detecting" /\ a.buf = << >>) => b = a)
  BY FlushGood, FlushSays
<1>2. a.think \in Thinking
  BY DEF Good, AssemblerType
<1> HIDE DEF b
<1>3. Good(c)
  BY <1>1, SetStateGood DEF Thinking
<1>4. Frame(b, c, { "buf", "think" }) /\ c.think = "Done" /\ c.buf = b.buf
  BY <1>1 DEF Frame, Fields, Good, AssemblerType
<1> HIDE DEF c
<1>5. Says(b, c) /\ Told(c)
  BY <1>1, <1>3, <1>4, SetSays DEF Says, Tells
<1>6. /\ Tells(c, d) /\ Frame(c, d, { "rIdx", "next", "out", "reasoning" })
      /\ c.content = << >> /\ ~c.rDone => Says(c, d)
  BY <1>3, <1>5, PushReasoningSays
<1>7. AcceptReasoning(a, t) = d
  BY DEF AcceptReasoning, DisableThinkDetection, b, c
<1> HIDE DEF d
<1>8. Says(a, c)
  BY <1>1, <1>5, SaysTransitive
<1>9. Tells(a, d)
  BY <1>6, <1>8, TellsTransitive DEF Says
<1>10. d.think = "Done" /\ d.content = c.content /\ d.buf = c.buf /\ d.rDone = c.rDone
  BY <1>4, <1>6 DEF Frame, Fields
<1>11. ASSUME a.content = << >>, a.buf = << >>, a.think # "InThink", ~a.rDone
       PROVE  Says(a, d) /\ d.content = << >> /\ d.buf = << >> /\ ~d.rDone
  <2>1. b = a
    BY <1>1, <1>2, <1>11 DEF Thinking
  <2>2. c.content = << >> /\ c.buf = << >> /\ ~c.rDone
    BY <1>4, <1>11, <2>1 DEF Frame, Fields
  <2>3. Says(a, d)
    BY <1>6, <1>8, <2>2, SaysTransitive
  <2> QED BY <1>10, <2>2, <2>3
<1> QED BY <1>7, <1>9, <1>10, <1>11 DEF Thought

(***************************************************************************)
(* What a tool_calls array does first: the buffer is empty and the         *)
(* reasoning is closed.                                                    *)
(***************************************************************************)
LEMMA BeginToolsTells ==
    ASSUME NEW a, Good(a), Told(a), Thought(a)
    PROVE  LET b == BeginTools(a)
           IN  /\ Tells(a, b) /\ Thought(b) /\ b.calls = a.calls /\ b.tDone = a.tDone
               /\ b.think # "InThink" /\ (b.think = "Detecting" => b.buf = << >>)
               /\ b.rIdx # NoIndex => b.rDone
               /\ a.think = "Done" => b.reasoning = a.reasoning /\ b.content = a.content
               /\ Laid(a) /\ (\/ Uncalled(a) \/ a.think = "Done"
                              \/ a.think = "Detecting" /\ a.buf = << >>) => Laid(b)
<1> DEFINE b == FlushThinkBuffer(a)
           c == FinishReasoning(b)
<1>1. /\ Good(b) /\ Says(a, b) /\ Thought(b)
      /\ b.think # "InThink" /\ (b.think = "Detecting" => b.buf = << >>)
      /\ a.think = "Done" \/ (a.think = "Detecting" /\ a.buf = << >>) => b = a
  BY FlushGood, FlushSays
<1>2. BeginTools(a) = c
  BY DEF BeginTools
<1> HIDE DEF b
<1>3. /\ Good(c) /\ Texts(c) /\ HeldBack(c) /\ Grows(b, c)
      /\ Frame(b, c, { "out", "rDone" })
      /\ b.rIdx # NoIndex => c.rDone
      /\ b.rIdx = NoIndex => c.rDone = b.rDone
      /\ Laid(b) => Laid(c)
  BY <1>1, FinishReasoningGood, FinishReasoningTold, FinishReasoningFields,
     FinishReasoningLaid DEF Says, Tells, Told
<1> HIDE DEF c
<1>4. /\ c.rIdx = b.rIdx /\ c.calls = b.calls /\ c.tDone = b.tDone /\ c.think = b.think
      /\ c.buf = b.buf /\ c.reasoning = b.reasoning /\ c.content = b.content
      /\ Frame(b, c, Spoken)
  BY <1>3 DEF Frame, Fields, Spoken
<1>5. Tells(a, c)
  BY <1>1, <1>3, <1>4, TellsTransitive DEF Says, Tells, Told
<1>6. Thought(c)
  <2>1. b.think \in Thinking
    BY <1>1 DEF Good, AssemblerType
  <2>2. CASE b.rIdx = NoIndex
    BY <1>1, <1>3, <1>4, <2>2 DEF Thought
  <2>3. CASE b.rIdx # NoIndex
    BY <1>1, <1>4, <2>1, <2>3 DEF Thought, Thinking
  <2> QED BY <2>2, <2>3
<1> QED BY <1>1, <1>2, <1>3, <1>4, <1>5, <1>6 DEF Says

(***************************************************************************)
(* The calls of a tool_calls array come after the reasoning.               *)
(***************************************************************************)
LEMMA AcceptToolDeltaThought ==
    ASSUME NEW a, Good(a), Told(a), Thought(a), a.think # "InThink", NEW k \in Indices,
           NEW id \in Ids, NEW name \in Names \cup { Absent }, NEW args \in Text
    PROVE  Thought(AcceptToolDelta(a, k, id, name, args))
<1> DEFINE b == AcceptToolDelta(a, k, id, name, args)
<1>1. Good(b) /\ Frame(a, b, { "out", "rDone", "next", "tIdx", "tDone", "calls" })
  BY AcceptToolDeltaTold DEF Tells
<1> HIDE DEF b
<1>2. b.rIdx = a.rIdx /\ b.think = a.think /\ b.content = a.content
      /\ (b.rDone => b.rIdx # NoIndex) /\ a.think \in Thinking
  BY <1>1 DEF Frame, Fields, Good, Marked, AssemblerType
<1> QED BY <1>2 DEF Thought, Thinking, b

(***************************************************************************)
(* A call that follows all the others gets the next index.                 *)
(***************************************************************************)
LEMMA NextRank ==
    ASSUME NEW S \in SUBSET Indices, NEW k \in Indices, \A j \in S : j < k
    PROVE  /\ Cardinality(S) \in Nat
           /\ Cardinality(S \cup { k }) = Cardinality(S) + 1
           /\ Rank(S \cup { k }, k) = Cardinality(S)
           /\ \A j \in S : Rank(S \cup { k }, j) = Rank(S, j)
<1>1. Indices \subseteq Nat /\ IsFiniteSet(S)
  BY IndicesAssumption, FS_Subset
<1>2. k \notin S
  BY <1>1
<1>3. Cardinality(S) \in Nat /\ Cardinality(S \cup { k }) = Cardinality(S) + 1
  BY <1>1, <1>2, FS_CardinalityType, FS_AddElement
<1>4. { j \in S \cup { k } : j < k } = S
  <2>1. ~(k < k)
    BY <1>1
  <2> QED BY <2>1
<1>5. \A j \in S : { i \in S \cup { k } : i < j } = { i \in S : i < j }
  BY <1>1
<1> QED BY <1>3, <1>4, <1>5 DEF Rank

(***************************************************************************)
(* Argument deltas do not move anything.                                   *)
(***************************************************************************)
LEMMA EmitLaid ==
    ASSUME NEW a, Good(a), Laid(a), NEW k \in Indices, a.calls[k].added, NEW t \in Text
    PROVE  Laid(EmitArguments(a, k, t)) /\ EmitArguments(a, k, t).calls = a.calls
<1> DEFINE b == EmitArguments(a, k, t)
           i == a.calls[k].idx
<1>1. i \in 0..(a.next - 1) /\ AssemblerType(a) /\ i # a.rIdx
  BY ItemsApart DEF Good
<1>2. CASE a.calls[k].name \in CustomNames
  BY <1>2 DEF EmitArguments
<1>3. CASE a.calls[k].name \notin CustomNames
  <2>1. b = Delta(a, i, t)
    BY <1>3 DEF EmitArguments
  <2>2. ItemsBut(a, b, i, Extended(a.out[i], t)) /\ Frame(a, b, { "out" })
    BY <1>1, <2>1, DeltaItems, DeltaGood
  <2> HIDE DEF b, i
  <2>3. /\ b.calls = a.calls /\ b.rIdx = a.rIdx /\ b.tIdx = a.tIdx /\ b.next = a.next
        /\ b.reasoning = a.reasoning /\ b.rDone = a.rDone
    BY <2>2 DEF Frame, Fields
  <2>4. a.rDone => a.rIdx \in 0..(a.next - 1)
    BY ItemsApart DEF Good, Marked
  <2>5. b.rDone => b.out[b.rIdx].final = b.reasoning
    BY <1>1, <2>2, <2>3, <2>4 DEF Laid, ItemsBut
  <2> QED BY <2>3, <2>5, LaidFields DEF b
<1> QED BY <1>2, <1>3

(***************************************************************************)
(* Announcing calls in the order of their keys lays them out in it.        *)
(***************************************************************************)
LEMMA EnsureToolStartedLaid ==
    ASSUME NEW a, Good(a), Told(a), Laid(a), a.buffered, NEW k \in Indices,
           ~a.calls[k].added => \A j \in Added(a) : j < k
    PROVE  LET b == EnsureToolStarted(a, k)
           IN  /\ Laid(b)
               /\ \A j \in Indices \ { k } : b.calls[j] = a.calls[j]
               /\ a.calls[k].added => b.calls[k].added
<1> DEFINE y == FinishReasoning(a)
           c == [ Announce(y, "call", k, y.calls[k].id)
                  EXCEPT !.calls[k] = Announced(y.calls[k], y.calls[k].id, y.next) ]
           d == EmitArguments(c, k, c.calls[k].args)
<1>1. CASE a.calls[k].added \/ a.calls[k].id = NoId \/ a.calls[k].name = Absent
  BY <1>1 DEF EnsureToolStarted
<1>2. CASE ~(a.calls[k].added \/ a.calls[k].id = NoId \/ a.calls[k].name = Absent)
  <2>1. EnsureToolStarted(a, k) = d
    BY <1>2 DEF EnsureToolStarted
  <2>2. Good(y) /\ Laid(y) /\ Frame(a, y, { "out", "rDone" })
    BY FinishReasoningGood, FinishReasoningLaid
  <2> HIDE DEF y
  <2>3. /\ y.calls = a.calls /\ y.next = a.next /\ y.rIdx = a.rIdx /\ y.tIdx = NoIndex
        /\ y.reasoning = a.reasoning
    BY <2>2 DEF Frame, Fields, Told, HeldBack
  <2>4. /\ Good(c) /\ Frame(y, c, { "next", "out", "calls" })
        /\ c.next = y.next + 1
        /\ c.calls[k] = Announced(y.calls[k], y.calls[k].id, y.next)
        /\ \A j \in Indices \ { k } : c.calls[j] = y.calls[j]
        /\ \A i \in 0..(y.next - 1) : c.out[i] = y.out[i]
    <3>1. ~y.calls[k].added /\ y.calls[k].id # NoId /\ y.calls[k].name # Absent
      BY <1>2, <2>3
    <3> QED BY <2>2, <3>1, StartCallGood, StartCallFields, ZenonT(60)
  <2> HIDE DEF c
  <2>5. /\ c.rIdx = y.rIdx /\ c.tIdx = NoIndex /\ c.reasoning = y.reasoning /\ c.rDone = y.rDone
        /\ c.calls[k].added /\ c.calls[k].idx = y.next /\ c.calls[k].args \in Text
        /\ y.next \in Nat
    BY <2>2, <2>3, <2>4 DEF Frame, Fields, Announced, Good, AssemblerType, Call
  <2> DEFINE S == Added(a)
  <2>6. S \in SUBSET Indices /\ \A j \in S : j < k
    BY <1>2 DEF Added
  <2>7. Added(y) = S /\ Added(c) = S \cup { k }
    BY <2>3, <2>4, <2>5 DEF Added
  <2>8. k \notin S
    BY <1>2 DEF Added
  <2>9. /\ Cardinality(S) \in Nat /\ Cardinality(S \cup { k }) = Cardinality(S) + 1
        /\ Rank(S \cup { k }, k) = Cardinality(S)
        /\ \A j \in S : Rank(S \cup { k }, j) = Rank(S, j)
    BY <2>6, NextRank
  <2> HIDE DEF S
  <2>10. First(y) \in Int /\ First(c) = First(y) /\ y.next = First(y) + Cardinality(S)
    <3>1. First(y) \in Int /\ First(c) = First(y)
      BY <2>5 DEF First
    <3>2. y.next = First(y) + 0 + Cardinality(S)
      BY <2>2, <2>3, <2>7 DEF Laid
    <3> QED BY <2>9, <3>1, <3>2
  <2>11. c.next = First(c) + 0 + Cardinality(Added(c))
    BY <2>4, <2>7, <2>9, <2>10
  <2>12. ASSUME NEW j \in Added(c)
         PROVE  c.calls[j].idx = First(c) + Rank(Added(c), j)
    <3>1. CASE j = k
      BY <2>5, <2>7, <2>9, <2>10, <3>1
    <3>2. CASE j # k
      <4>1. j \in S /\ j \in Added(y) /\ c.calls[j] = y.calls[j]
        BY <2>4, <2>6, <2>7, <3>2
      <4>2. y.calls[j].idx = First(y) + Rank(S, j)
        BY <2>2, <2>7, <4>1 DEF Laid
      <4> QED BY <2>7, <2>9, <2>10, <4>1, <4>2
    <3> QED BY <3>1, <3>2
  <2>13. c.rDone => c.rIdx \in 0..(y.next - 1) /\ c.out[c.rIdx].final = c.reasoning
    <3>1. y.rDone => y.rIdx \in 0..(y.next - 1) /\ y.out[y.rIdx].final = y.reasoning
      BY <2>2, ItemsApart DEF Good, Marked, Laid
    <3> QED BY <2>4, <2>5, <3>1
  <2>14. Laid(c)
    BY <2>2, <2>5, <2>11, <2>12, <2>13 DEF Laid
  <2>15. Laid(d) /\ d.calls = c.calls
    BY <2>4, <2>5, <2>14, EmitLaid
  <2> QED BY <1>2, <2>1, <2>3, <2>4, <2>15
<1> QED BY <1>1, <1>2, SMTT(30)

(***************************************************************************)
(* One element of a tool_calls array of an orderly upstream.               *)
(***************************************************************************)
LEMMA AcceptToolDeltaLaid ==
    ASSUME NEW a, Good(a), Told(a), Laid(a), a.buffered, NEW k \in Indices,
           ~a.calls[k].added => \A j \in Added(a) : j < k,
           NEW id \in Ids, NEW name \in Names \cup { Absent }, NEW args \in Text
    PROVE  LET b == AcceptToolDelta(a, k, id, name, args)
           IN  /\ Laid(b)
               /\ \A j \in Indices \ { k } : b.calls[j] = a.calls[j]
               /\ a.calls[k].added => b.calls[k].added
<1> DEFINE was == a.calls[k]
           now == [ id    |-> IF id # NoId /\ ~was.added THEN id ELSE was.id,
                    name  |-> IF name # Absent /\ ~was.added THEN name ELSE was.name,
                    args  |-> was.args \o args,
                    added |-> was.added,
                    idx   |-> was.idx ]
           c == [ a EXCEPT !.calls[k] = now ]
           b == EnsureToolStarted(c, k)
           d == AcceptToolDelta(a, k, id, name, args)
<1>1. was \in Call /\ was.args \in Text
  BY DEF Good, AssemblerType, Call
<1>2. now \in Call /\ now.added = was.added /\ now.idx = was.idx
      /\ (now.added => now.id = was.id /\ now.name = was.name)
  <2>1. was.args \o args \in Text
    BY <1>1, TextConcat
  <2> QED BY <1>1, <2>1 DEF Call
<1>3. d = IF was.added THEN EmitArguments(b, k, args) ELSE b
  BY DEF AcceptToolDelta
<1> HIDE DEF now, d
<1>4. /\ Good(c) /\ Frame(a, c, { "calls" }) /\ c.calls[k] = now
      /\ \A j \in Indices \ { k } : c.calls[j] = a.calls[j]
  BY <1>2, SetCallGood, SetCallFields
<1> HIDE DEF c
<1>5. /\ c.rIdx = a.rIdx /\ c.tIdx = a.tIdx /\ c.content = a.content /\ c.next = a.next
      /\ c.reasoning = a.reasoning /\ c.out = a.out /\ c.buffered = a.buffered
      /\ c.rDone = a.rDone
  BY <1>4 DEF Frame, Fields
<1>6. \A j \in Indices : c.calls[j].added = a.calls[j].added /\ c.calls[j].idx = a.calls[j].idx
  BY <1>2, <1>4
<1>7. Added(c) = Added(a) /\ First(c) = First(a)
  BY <1>5, <1>6 DEF Added, First
<1>8. Laid(c)
  <2>1. \A j \in Added(c) : c.calls[j].idx = First(c) + Rank(Added(c), j)
    BY <1>6, <1>7 DEF Laid, Added
  <2> QED BY <1>5, <1>7, <2>1 DEF Laid
<1>9. CASE was.added
  <2>1. b = c
    BY <1>2, <1>4, <1>9 DEF EnsureToolStarted
  <2>2. d = EmitArguments(c, k, args)
    BY <1>3, <1>9, <2>1
  <2>3. c.calls[k].added
    BY <1>6, <1>9
  <2> QED BY <1>4, <1>8, <2>2, <2>3, EmitLaid DEF d
<1>10. CASE ~was.added
  <2>1. Told(c)
    BY <1>2, <1>4, <1>5, <1>10 DEF Told, Texts, HeldBack
  <2>2. c.buffered /\ \A j \in Added(c) : j < k
    BY <1>5, <1>7, <1>10
  <2>3. /\ Laid(b) /\ \A j \in Indices \ { k } : b.calls[j] = c.calls[j]
    BY <1>4, <1>8, <2>1, <2>2, EnsureToolStartedLaid
  <2> HIDE DEF b
  <2> QED BY <1>3, <1>4, <1>10, <2>3 DEF d
<1> QED BY <1>9, <1>10

------------------------------------------------------------------------------
(***************************************************************************)
(* The end of a stream.                                                    *)
(***************************************************************************)

\* What a client may rely on after finalize has closed the items.
Shut(a) ==
    /\ \A i \in DOMAIN a.out :
         \/ a.out[i].closed > 0
         \/ a.out[i].kind = "message" /\ ~a.buffered /\ HasToolOutput(a)
    /\ \A i \in DOMAIN a.out : a.out[i].kind = "message" => ~a.buffered \/ ~HasToolOutput(a)
    /\ \A i \in DOMAIN a.out : a.out[i].kind = "call" =>
         /\ a.out[i].closed > 0 /\ a.out[i].key \in Named(a)
         /\ a.out[i].final = FinalArguments(a.calls[a.out[i].key])
         /\ a.out[i].text = << >> \/ Canonical(a.out[i].text) = a.out[i].final

\* Everything but the calls is closed, or left open as it should.
CallsLeft(a) ==
    \A i \in 0..(a.next - 1) :
        /\ a.out[i].kind = "reasoning" => a.out[i].closed > 0
        /\ a.out[i].kind = "message" =>
             IF HasToolOutput(a) THEN ~a.buffered ELSE a.out[i].closed > 0

(***************************************************************************)
(* The input of a custom tool is what a client makes of it.                *)
(***************************************************************************)
LEMMA CustomInputCanonical ==
    ASSUME NEW call \in Call, call.name \in CustomNames
    PROVE  FinalArguments(call) = << >> \/ Canonical(FinalArguments(call)) = FinalArguments(call)
<1> DEFINE c == Canonical(call.args)
           w == << "input" >>
<1>1. FinalArguments(call) = CustomInput(c)
  BY DEF FinalArguments
<1>2. Canonical(c) = c
  BY DEF Canonical
<1>3. ~Parses(w)
  <2>1. Ink(w) \subseteq { 1 }
    BY DEF Ink
  <2> QED BY <2>1 DEF Parses
<1> HIDE DEF c, w
<1>4. CustomInput(c) = << >> \/ CustomInput(c) = w \/ CustomInput(c) = c
  BY DEF CustomInput, w
<1>5. Canonical(w) = w
  BY <1>3 DEF Canonical
<1> QED BY <1>1, <1>2, <1>4, <1>5

(***************************************************************************)
(* The item of a call after finalize: its deltas and its done event agree. *)
(***************************************************************************)
LEMMA ClosedCallTexts ==
    ASSUME NEW a, Good(a), Texts(a), NEW k \in Named(a)
    PROVE  LET c == ClosedCall(a, k)
           IN  /\ c.final = FinalArguments(a.calls[k])
               /\ c.text = << >> \/ Canonical(c.text) = c.final
               /\ a.calls[k].added => Continues(a.out[a.calls[k].idx], c)
<1> DEFINE c == ClosedCall(a, k)
           call == a.calls[k]
           told == IF call.added THEN a.out[call.idx].text ELSE << >>
           final == FinalArguments(call)
<1>1. k \in Indices /\ call \in Call
  BY DEF Named, Good, AssemblerType
<1>2. final \in Text /\ << >> \o final = final
  BY <1>1, FinalArgumentsType, TextConcat
<1>3. told = << >> \/ (told = Streamed(call) /\ call.added)
  BY <1>1 DEF Texts
<1>4. c.final = final /\ c.text = (IF call.name \in CustomNames THEN told \o final ELSE told)
  BY DEF ClosedCall
<1>5. c.kind = "call" /\ c.key = k
  BY DEF ClosedCall
<1> HIDE DEF c
<1>6. c.text = << >> \/ Canonical(c.text) = c.final
  <2>1. CASE call.name \in CustomNames
    <3>1. told = << >>
      BY <1>3, <2>1 DEF Streamed
    <3>2. c.text = final
      BY <1>2, <1>4, <2>1, <3>1
    <3>3. final = << >> \/ Canonical(final) = final
      BY <1>1, <2>1, CustomInputCanonical
    <3> QED BY <1>4, <3>2, <3>3
  <2>2. CASE call.name \notin CustomNames
    <3>1. told = << >> \/ told = call.args
      BY <1>3, <2>2 DEF Streamed
    <3>2. final = Canonical(call.args)
      BY <2>2, SMTT(30) DEF FinalArguments
    <3> QED BY <1>4, <2>2, <3>1, <3>2
  <2> QED BY <2>1, <2>2
<1>7. ASSUME call.added
      PROVE  Continues(a.out[call.idx], c)
  <2>1. /\ a.out[call.idx].kind = "call" /\ a.out[call.idx].key = k
        /\ a.out[call.idx] \in Item
    BY <1>1, <1>7, ItemsApart DEF Good, OwnIndices
  <2>2. told = a.out[call.idx].text /\ told \in Text /\ told \o << >> = told
    BY <1>7, <2>1, TextConcat, SMTT(30) DEF Item
  <2>3. \E u \in Text : c.text = told \o u
    BY <1>2, <1>4, <2>2, EmptyText
  <2> HIDE DEF told
  <2> QED BY <1>5, <2>1, <2>2, <2>3 DEF Continues
<1> QED BY <1>4, <1>6, <1>7 DEF c

(***************************************************************************)
(* The calls are closed last.                                              *)
(***************************************************************************)
LEMMA FinishToolsShut ==
    ASSUME NEW a, Good(a), Texts(a), CallsLeft(a)
    PROVE  Shut(FinishTools(a)) /\ Grows(a, FinishTools(a))
<1> DEFINE b == FinishTools(a)
<1>1. /\ Frame(a, b, { "next", "calls", "out" })
      /\ b.next = a.next + Cardinality(Unannounced(a))
      /\ DOMAIN b.out = 0..(b.next - 1)
      /\ b.calls = [ k \in Indices |->
                      IF k \in Named(a)
                      THEN Announced(a.calls[k], FinalId(a, k), Place(a, k))
                      ELSE a.calls[k] ]
      /\ \A k \in Named(a) : /\ Place(a, k) \in 0..(b.next - 1)
                              /\ b.out[Place(a, k)] = ClosedCall(a, k)
      /\ \A i \in 0..(b.next - 1) :
           \/ \E k \in Named(a) : i = Place(a, k) /\ b.out[i] = ClosedCall(a, k)
           \/ i \in 0..(a.next - 1) /\ a.out[i].kind # "call" /\ b.out[i] = a.out[i]
      /\ \A i \in 0..(a.next - 1) :
           a.out[i].kind # "call" => i \in 0..(b.next - 1) /\ b.out[i] = a.out[i]
  BY FinishToolsFields
<1>2. b.next \in Nat /\ a.next \in Nat /\ a.next =< b.next
      /\ a.out \in [ 0..(a.next - 1) -> Item ]
  BY <1>1, Places DEF Good, AssemblerType
<1> HIDE DEF b
<1>3. /\ b.buffered = a.buffered /\ b.finish = a.finish
      /\ b.reasoning = a.reasoning /\ b.content = a.content
  BY <1>1 DEF Frame, Fields
<1>4. ASSUME NEW k \in Indices
      PROVE  /\ b.calls[k].name = a.calls[k].name
             /\ FinalArguments(b.calls[k]) = FinalArguments(a.calls[k])
  <2>1. b.calls[k].name = a.calls[k].name /\ b.calls[k].args = a.calls[k].args
    BY <1>1, <1>4 DEF Announced
  <2> QED BY <2>1 DEF FinalArguments
<1>5. Named(b) = Named(a) /\ (HasToolOutput(b) <=> HasToolOutput(a))
  BY <1>4 DEF Named, HasToolOutput
<1>6. ASSUME NEW i \in 0..(b.next - 1)
      PROVE  /\ \/ b.out[i].closed > 0
                \/ b.out[i].kind = "message" /\ ~b.buffered /\ HasToolOutput(b)
             /\ b.out[i].kind = "message" => ~b.buffered \/ ~HasToolOutput(b)
             /\ b.out[i].kind = "call" =>
                 /\ b.out[i].closed > 0 /\ b.out[i].key \in Named(b)
                 /\ b.out[i].final = FinalArguments(b.calls[b.out[i].key])
                 /\ b.out[i].text = << >> \/ Canonical(b.out[i].text) = b.out[i].final
  <2>1. CASE \E k \in Named(a) : i = Place(a, k) /\ b.out[i] = ClosedCall(a, k)
    <3>1. PICK k \in Named(a) : b.out[i] = ClosedCall(a, k)
      BY <2>1
    <3>2. ClosedCall(a, k).closed = 1 /\ ClosedCall(a, k).kind = "call" /\ ClosedCall(a, k).key = k
      BY ClosedCallFields
    <3>3. /\ ClosedCall(a, k).final = FinalArguments(a.calls[k])
          /\ \/ ClosedCall(a, k).text = << >>
             \/ Canonical(ClosedCall(a, k).text) = ClosedCall(a, k).final
      BY ClosedCallTexts
    <3>4. k \in Indices
      BY DEF Named
    <3> QED BY <1>4, <1>5, <3>1, <3>2, <3>3, <3>4
  <2>2. CASE i \in 0..(a.next - 1) /\ a.out[i].kind # "call" /\ b.out[i] = a.out[i]
    <3>1. a.out[i] \in Item
      BY <1>2, <2>2
    <3>2. a.out[i].kind \in { "reasoning", "message" }
      BY <2>2, <3>1 DEF Item, Kinds
    <3>3. /\ a.out[i].kind = "reasoning" => a.out[i].closed > 0
          /\ a.out[i].kind = "message" =>
               IF HasToolOutput(a) THEN ~a.buffered ELSE a.out[i].closed > 0
      BY <2>2 DEF CallsLeft
    <3> QED BY <1>3, <1>5, <2>2, <3>2, <3>3
  <2> QED BY <1>1, <2>1, <2>2
<1>7. Shut(b)
  BY <1>1, <1>6 DEF Shut
<1>8. ASSUME NEW i \in 0..(a.next - 1)
      PROVE  Continues(a.out[i], b.out[i]) /\ (a.out[i].closed > 0 => b.out[i] = a.out[i])
  <2>0. a.out[i] \in Item /\ i \in DOMAIN a.out
    BY <1>2
  <2>1. CASE a.out[i].kind # "call"
    <3>1. b.out[i] = a.out[i]
      BY <1>1, <2>1
    <3>2. Continues(a.out[i], a.out[i])
      BY <2>0, EmptyText, ItemsContinue
    <3> QED BY <3>1, <3>2
  <2>2. CASE a.out[i].kind = "call"
    <3> DEFINE k == a.out[i].key
    <3>1. k \in Indices /\ a.calls[k].added /\ a.calls[k].idx = i
      BY <2>0, <2>2 DEF Good, OwnIndices, OwnedBy
    <3>2. k \in Named(a) /\ Place(a, k) = i
      BY <3>1 DEF Good, CallsKnown, Named, Place
    <3>3. a.out[i].closed = 0
      BY <2>0, <2>2 DEF Good, Marked, Marks
    <3> HIDE DEF k
    <3>4. b.out[i] = ClosedCall(a, k)
      BY <1>1, <3>2
    <3>5. Continues(a.out[i], ClosedCall(a, k))
      BY <3>1, <3>2, ClosedCallTexts
    <3> QED BY <3>3, <3>4, <3>5
  <2> QED BY <2>1, <2>2
<1>9. Grows(a, b)
  BY <1>2, <1>3, <1>8 DEF Grows, Longer
<1> QED BY <1>7, <1>9 DEF b

\* The assembler before finalize closes the calls.
Ready(a) == LET b == BeginTools(a) IN IF HasToolOutput(b) THEN b ELSE FinishText(b)

(***************************************************************************)
(* When the calls are about to be closed everything else is closed, but    *)
(* for a message that the response leaves out.                             *)
(***************************************************************************)
LEMMA ReadyTold ==
    ASSUME NEW a, Good(a), Told(a), Thought(a)
    PROVE  LET x == Ready(a)
           IN  /\ Good(x) /\ Texts(x) /\ CallsLeft(x) /\ Grows(a, x) /\ Frame(a, x, Spoken)
               /\ x.calls = a.calls
<1> DEFINE b == BeginTools(a)
           x == Ready(a)
<1>1. /\ Tells(a, b) /\ b.calls = a.calls
      /\ b.rIdx # NoIndex => b.rDone
  BY BeginToolsTells
<1> HIDE DEF b
<1>2. Good(b) /\ Told(b) /\ Texts(b) /\ Grows(a, b) /\ Frame(a, b, Spoken)
  BY <1>1 DEF Tells, Told
<1>3. /\ AssemblerType(b) /\ OwnIndices(b) /\ Marked(b)
      /\ \A i \in 0..(b.next - 1) : i \in DOMAIN b.out
  BY <1>2 DEF Good, AssemblerType
<1>4. CASE HasToolOutput(b)
  <2>1. x = b
    BY <1>4 DEF Ready, b
  <2>2. ASSUME NEW i \in 0..(b.next - 1)
        PROVE  /\ b.out[i].kind = "reasoning" => b.out[i].closed > 0
               /\ b.out[i].kind = "message" => ~b.buffered
    <3>1. CASE b.out[i].kind = "reasoning"
      <4>1. b.rIdx = i /\ i # NoIndex
        BY <1>3, <3>1 DEF OwnIndices, OwnedBy, NoIndex
      <4>2. b.out[i].closed = 1
        BY <1>1, <1>3, <3>1, <4>1 DEF Marked, Marks
      <4> QED BY <3>1, <4>2
    <3>2. CASE b.out[i].kind = "message"
      <4>1. b.tIdx = i /\ i # NoIndex
        BY <1>3, <3>2 DEF OwnIndices, OwnedBy, NoIndex
      <4> QED BY <1>2, <3>2, <4>1 DEF Told, HeldBack
    <3> QED BY <3>1, <3>2
  <2>3. CallsLeft(b)
    BY <1>4, <2>2 DEF CallsLeft
  <2> HIDE DEF x
  <2> QED BY <1>1, <1>2, <2>1, <2>3 DEF x
<1>5. CASE ~HasToolOutput(b)
  <2>1. x = FinishText(b)
    BY <1>5 DEF Ready, b
  <2> HIDE DEF x
  <2>2. /\ Texts(x) /\ Grows(b, x)
        /\ Frame(b, x, { "out", "rDone", "next", "tIdx", "tDone" })
        /\ b.content = << >> => x = b
        /\ b.content # << >> => x.tDone /\ x.tIdx # NoIndex
    BY <1>2, <2>1, FinishTextTold
  <2>3. Good(x)
    BY <1>2, <2>1, FinishTextGood
  <2>4. /\ x.calls = b.calls /\ x.rIdx = b.rIdx /\ x.reasoning = b.reasoning
        /\ x.content = b.content
    BY <2>2 DEF Frame, Fields
  <2>5. /\ AssemblerType(x) /\ OwnIndices(x) /\ Marked(x) /\ ~HasToolOutput(x)
        /\ \A i \in 0..(x.next - 1) : i \in DOMAIN x.out
    BY <1>5, <2>3, <2>4 DEF Good, AssemblerType, HasToolOutput, Named
  <2>6. ASSUME NEW i \in 0..(x.next - 1)
        PROVE  x.out[i].kind \in { "reasoning", "message" } => x.out[i].closed > 0
    <3>1. CASE x.out[i].kind = "reasoning"
      <4>1. x.rIdx = i /\ i # NoIndex
        BY <2>5, <3>1 DEF OwnIndices, OwnedBy, NoIndex
      <4>2. i \in 0..(b.next - 1) /\ b.out[i].kind = "reasoning" /\ b.rDone
        BY <1>1, <1>2, <2>4, <4>1, ItemsApart DEF Good, OwnIndices
      <4>3. b.out[i].closed = 1
        BY <1>3, <4>2 DEF Marked, Marks
      <4>4. x.out[i] = b.out[i]
        BY <2>2, <2>4, <4>2, <4>3 DEF Grows, Reworded
      <4> QED BY <4>3, <4>4
    <3>2. CASE x.out[i].kind = "message"
      <4>1. x.tIdx = i /\ i # NoIndex
        BY <2>5, <3>2 DEF OwnIndices, OwnedBy, NoIndex
      <4>2. b.content # << >>
        BY <1>2, <2>2, <4>1 DEF Told, HeldBack
      <4>3. x.out[i].closed = 1
        BY <2>2, <2>5, <3>2, <4>2 DEF Marked, Marks
      <4> QED BY <4>3
    <3> QED BY <3>1, <3>2
  <2>7. CallsLeft(x)
    BY <2>5, <2>6 DEF CallsLeft
  <2>8. Grows(a, x)
    BY <1>2, <1>3, <2>2, <2>5, GrowsTransitive DEF Good
  <2>9. Frame(a, x, Spoken)
    BY <1>2, <2>2 DEF Frame, Spoken
  <2> QED BY <1>1, <2>2, <2>3, <2>4, <2>7, <2>8, <2>9 DEF x
<1> QED BY <1>4, <1>5

(***************************************************************************)
(* What finalize leaves behind.                                            *)
(***************************************************************************)
LEMMA CloseItemsShut ==
    ASSUME NEW a, Good(a), Told(a), Thought(a)
    PROVE  LET b == CloseItems(a)
           IN  Shut(b) /\ Grows(a, b) /\ Delivered(b) /\ Frame(a, b, Spoken)
<1> DEFINE x == Ready(a)
           b == FinishTools(x)
<1>1. CloseItems(a) = b
  BY DEF CloseItems, Ready
<1>2. /\ Good(x) /\ Texts(x) /\ CallsLeft(x) /\ Grows(a, x) /\ Frame(a, x, Spoken)
  BY ReadyTold
<1>3. Delivered(CloseItems(a))
  BY CloseItemsDelivered
<1> HIDE DEF x
<1>4. Shut(b) /\ Grows(x, b)
  BY <1>2, FinishToolsShut
<1>5. Frame(x, b, { "next", "calls", "out" })
  BY <1>2, FinishToolsFields
<1> HIDE DEF b
<1>6. Frame(a, b, Spoken)
  BY <1>2, <1>5 DEF Frame, Spoken
<1>7. AssemblerType(a) /\ AssemblerType(x) /\ AssemblerType(b)
  BY <1>1, <1>2, <1>3 DEF Good, Delivered
<1>8. Grows(a, b)
  BY <1>2, <1>4, <1>7, GrowsTransitive
<1> QED BY <1>1, <1>3, <1>4, <1>6, <1>8

------------------------------------------------------------------------------
(***************************************************************************)
(* The end of an orderly stream.                                           *)
(***************************************************************************)

\* What changes only the message item does not move anything.
LEMMA MessageLaid ==
    ASSUME NEW a, Good(a), Laid(a), a.tIdx # NoIndex, NEW b, NEW w,
           ItemsBut(a, b, a.tIdx, w), Frame(a, b, { "out", "tDone" })
    PROVE  Laid(b) /\ b.calls = a.calls /\ b.tIdx = a.tIdx
<1>1. /\ b.calls = a.calls /\ b.rIdx = a.rIdx /\ b.tIdx = a.tIdx /\ b.next = a.next
      /\ b.reasoning = a.reasoning /\ b.rDone = a.rDone
  BY DEF Frame, Fields
<1>2. a.rDone => a.rIdx \in 0..(a.next - 1) /\ a.rIdx # a.tIdx
  BY ItemsApart DEF Good, Marked
<1>3. b.rDone => b.out[b.rIdx].final = b.reasoning
  BY <1>1, <1>2 DEF Laid, ItemsBut
<1> QED BY <1>1, <1>3, LaidFields

(***************************************************************************)
(* The message is closed where it was announced, or behind the reasoning.  *)
(***************************************************************************)
LEMMA FinishTextLaid ==
    ASSUME NEW a, Good(a), Laid(a), Uncalled(a)
    PROVE  Laid(FinishText(a))
<1> DEFINE b == FinishText(a)
           e == Before(a)
           s == Seated(e)
           c == IF s.buffered THEN Delta(s, s.tIdx, s.content) ELSE s
           d == Close(c, c.tIdx, c.content)
           f == [ d EXCEPT !.tDone = TRUE ]
<1>1. CASE a.content = << >> \/ a.tDone
  BY <1>1 DEF FinishText
<1>2. CASE ~(a.content = << >> \/ a.tDone)
  <2>1. b = f
    <3>1. EnsureTextStarted(a) = s
      BY TextStartsSeated
    <3> QED BY <1>2, <3>1 DEF FinishText
  <2>2. Good(e) /\ Frame(a, e, { "out", "rDone" })
    BY TextStartsSeated
  <2>3. Laid(e)
    BY FinishReasoningLaid DEF Before
  <2> HIDE DEF e
  <2>4. Uncalled(e)
    BY <2>2 DEF Frame, Fields, Uncalled
  <2>5. Laid(s) /\ Good(s) /\ s.tIdx # NoIndex
    BY <2>2, <2>3, <2>4, SeatedLaid, SeatedFields
  <2> HIDE DEF s
  <2>6. s.tIdx \in 0..(s.next - 1) /\ s.content \in Text /\ AssemblerType(s)
    BY <2>5, ItemsApart DEF Good, AssemblerType
  <2>7. Laid(c) /\ Good(c) /\ c.tIdx # NoIndex
    <3>1. CASE s.buffered
      <4> DEFINE x == Delta(s, s.tIdx, s.content)
      <4>1. ItemsBut(s, x, s.tIdx, Extended(s.out[s.tIdx], s.content)) /\ Frame(s, x, { "out" })
            /\ Good(x)
        BY <2>5, <2>6, DeltaItems, DeltaGood
      <4> HIDE DEF x
      <4>2. Frame(s, x, { "out", "tDone" })
        BY <4>1 DEF Frame
      <4>3. Laid(x) /\ x.tIdx = s.tIdx
        BY <2>5, <4>1, <4>2, MessageLaid
      <4> QED BY <2>5, <3>1, <4>1, <4>3 DEF x
    <3>2. CASE ~s.buffered
      BY <2>5, <3>2
    <3> QED BY <3>1, <3>2
  <2> HIDE DEF c
  <2>8. c.tIdx \in 0..(c.next - 1) /\ c.content \in Text /\ AssemblerType(c)
    BY <2>7, ItemsApart DEF Good, AssemblerType
  <2>9. ItemsBut(c, d, c.tIdx, Finished(c.out[c.tIdx], c.content)) /\ Frame(c, d, { "out" })
    BY <2>8, CloseItem, CloseFields
  <2> HIDE DEF d
  <2>10. DOMAIN f = Fields /\ \A g \in Fields \ { "tDone" } : f[g] = d[g]
    BY <2>9 DEF Frame, Fields
  <2> HIDE DEF f
  <2>11. Frame(c, f, { "out", "tDone" }) /\ f.out = d.out
    BY <2>9, <2>10 DEF Frame, Fields
  <2>12. ItemsBut(c, f, c.tIdx, Finished(c.out[c.tIdx], c.content))
    BY <2>9, <2>11 DEF ItemsBut
  <2>13. Laid(f)
    BY <2>7, <2>11, <2>12, MessageLaid
  <2> QED BY <2>1, <2>13 DEF b
<1> QED BY <1>1, <1>2

\* No call has a name of white space only.
Proper(a) == \A k \in Indices : a.calls[k].name \notin BlankNames

\* Then the two tests of a name agree.
LEMMA ProperToolOutput ==
    ASSUME NEW a, Proper(a)
    PROVE  HasToolOutput(a) <=> Named(a) # {}
BY DEF Proper, HasToolOutput, Named

\* A missing name is not blank.
LEMMA NewCallProper == Absent \notin BlankNames /\ NewCall.name = Absent
BY NamesAssumption, AbsentAssumption DEF NewCall

(***************************************************************************)
(* A call is mentioned only after the calls with smaller keys were         *)
(* announced, and its name is not blank.                                   *)
(***************************************************************************)
InTurn(a) ==
    /\ \A k \in Indices : a.calls[k] # NewCall => \A j \in Indices : j < k => a.calls[j].added
    /\ Proper(a)

\* Nothing that is held back for the think detection can come before a call.
Quiet(a) == Uncalled(a) \/ a.think = "Done" \/ (a.think = "Detecting" /\ a.buf = << >>)

\* The reasoning and the message that were closed got all the text there is.
Complete(a) ==
    /\ a.rDone => a.out[a.rIdx].final = a.reasoning
    /\ a.tDone => a.out[a.tIdx].final = a.content

\* The client sees a message exactly if there is text and no call, and all reasoning is over.
Sorted(a) ==
    /\ a.tIdx # NoIndex <=> a.content # << >> /\ ~HasToolOutput(a)
    /\ a.rIdx # NoIndex => a.rDone
    /\ a.tIdx # NoIndex => a.tDone

(***************************************************************************)
(* An orderly stream before its calls are closed.                          *)
(***************************************************************************)
LEMMA ReadyLaid ==
    ASSUME NEW a, Good(a), Told(a), Thought(a), Laid(a), Quiet(a), ~a.tDone, InTurn(a),
           HasToolOutput(a) => a.buffered
    PROVE  LET x == Ready(a)
           IN  Laid(x) /\ Complete(x) /\ Sorted(x)
<1> DEFINE b == BeginTools(a)
           x == Ready(a)
<1>1. /\ Tells(a, b) /\ b.calls = a.calls /\ b.tDone = a.tDone
      /\ b.rIdx # NoIndex => b.rDone
      /\ Laid(b)
  BY BeginToolsTells DEF Quiet
<1>2. Good(x) /\ CallsLeft(x) /\ x.calls = a.calls
  BY ReadyTold
<1> HIDE DEF b
<1>3. /\ Good(b) /\ Told(b) /\ b.buffered = a.buffered
      /\ (HasToolOutput(b) <=> HasToolOutput(a))
  BY <1>1 DEF Tells, Frame, Fields, Spoken, HasToolOutput, Named
<1>4. CASE HasToolOutput(b)
  <2>1. x = b
    BY <1>4 DEF Ready, b
  <2>2. b.tIdx = NoIndex
    BY <1>3, <1>4 DEF Told, HeldBack
  <2> HIDE DEF x
  <2>3. Complete(b) /\ Sorted(b)
    BY <1>1, <1>4, <2>2 DEF Laid, Complete, Sorted
  <2> QED BY <1>1, <2>1, <2>3 DEF x
<1>5. CASE ~HasToolOutput(b)
  <2>1. x = FinishText(b)
    BY <1>5 DEF Ready, b
  <2> HIDE DEF x
  <2>2. Uncalled(b)
    <3>1. Proper(b)
      BY <1>1 DEF InTurn, Proper
    <3>2. Named(b) = {}
      BY <1>5, <3>1, ProperToolOutput
    <3> QED BY <1>3, <3>2 DEF Named, Good, CallsKnown, Uncalled
  <2>3. Laid(x)
    BY <1>1, <1>3, <2>1, <2>2, FinishTextLaid
  <2>4. /\ Frame(b, x, { "out", "rDone", "next", "tIdx", "tDone" })
        /\ b.content = << >> => x = b
        /\ b.content # << >> => x.tDone /\ x.tIdx # NoIndex
        /\ b.content # << >> => x.out[x.tIdx].final = x.content
    BY <1>1, <1>3, <2>1, FinishTextTold
  <2>5. x.calls = b.calls /\ x.content = b.content /\ ~HasToolOutput(x)
    BY <1>5, <2>4 DEF Frame, Fields, HasToolOutput, Named
  <2>6. x.rIdx # NoIndex => x.rDone
    <3>1. SUFFICES ASSUME x.rIdx # NoIndex, ~x.rDone PROVE FALSE
      BY <1>2 DEF Good, AssemblerType
    <3>2. x.rIdx \in 0..(x.next - 1) /\ x.rIdx \in DOMAIN x.out /\ x.out[x.rIdx].kind = "reasoning"
      BY <1>2, <3>1 DEF Good, OwnIndices, AssemblerType
    <3>3. x.out[x.rIdx].closed > 0 /\ x.out[x.rIdx].closed = 0
      BY <1>2, <3>1, <3>2 DEF CallsLeft, Good, Marked, Marks
    <3> QED BY <3>3
  <2>7. x.content = << >> => x.tIdx = NoIndex
    BY <1>3, <2>4, <2>5 DEF Told, HeldBack
  <2>8. x.tDone => x.content # << >>
    BY <1>1, <2>4, <2>5
  <2>9. Complete(x) /\ Sorted(x)
    BY <2>3, <2>4, <2>5, <2>6, <2>7, <2>8 DEF Laid, Complete, Sorted
  <2> QED BY <2>3, <2>9 DEF x
<1> QED BY <1>4, <1>5

(***************************************************************************)
(* The calls that finalize announces come behind the others, where the     *)
(* response lists them.                                                    *)
(***************************************************************************)
LEMMA PlacesInTurn ==
    ASSUME NEW a, Good(a), Laid(a), InTurn(a), HasToolOutput(a) => a.tIdx = NoIndex
    PROVE  /\ \A k \in Named(a) : Place(a, k) = First(a) + Rank(Named(a), k)
           /\ a.next + Cardinality(Unannounced(a))
              = First(a) + (IF a.tIdx = NoIndex THEN 0 ELSE 1) + Cardinality(Named(a))
<1> DEFINE S == Added(a)
           U == Unannounced(a)
           m == IF a.tIdx = NoIndex THEN 0 ELSE 1
<1>1. /\ S \in SUBSET Indices /\ U \in SUBSET Indices /\ Named(a) = S \cup U
      /\ \A k \in S : k \in Named(a) /\ a.calls[k].added
      /\ \A k \in U : k \in Named(a) /\ ~a.calls[k].added
  BY DEF Added, Unannounced, Named, Good, CallsKnown
<1>2. /\ a.next = First(a) + m + Cardinality(S)
      /\ \A k \in S : a.calls[k].idx = First(a) + Rank(S, k)
  BY DEF Laid
<1>3. First(a) \in Int /\ m \in Int /\ Indices \subseteq Nat
  BY IndicesAssumption DEF First
<1>4. Cardinality({}) = 0 /\ {} \in SUBSET Indices
  BY FS_EmptySet
<1>5. Cardinality(S) \in Nat
  BY <1>1, RankNumbers
<1> HIDE DEF S, U, m
<1>6. CASE U = {}
  <2>1. Named(a) = S /\ \A k \in S : Place(a, k) = a.calls[k].idx
    BY <1>1, <1>6 DEF Place
  <2>2. a.next + Cardinality(U) = First(a) + m + Cardinality(S)
    BY <1>2, <1>3, <1>4, <1>5, <1>6
  <2> QED BY <1>2, <2>1, <2>2 DEF U, m
<1>7. CASE U # {}
  <2>1. PICK k \in U : TRUE
    BY <1>7
  <2>2. k \in Indices /\ k \in Named(a) /\ ~a.calls[k].added
    BY <1>1, <2>1
  <2>3. \A j \in Named(a) : a.calls[j] # NewCall
    BY DEF Named, NewCall
  <2>4. \A j \in Indices : j < k => a.calls[j].added
    BY <2>2, <2>3 DEF InTurn
  <2>5. \A j \in Indices : k < j => a.calls[j] = NewCall
    BY <2>2 DEF InTurn
  <2>6. U = { k }
    <3>1. ASSUME NEW j \in U PROVE j = k
      <4>1. ~(j < k) /\ ~(k < j)
        BY <1>1, <2>3, <2>4, <2>5
      <4>2. j \in Nat /\ k \in Nat
        BY <1>1, <1>3, <2>2
      <4> QED BY <4>1, <4>2
    <3> QED BY <2>1, <3>1
  <2>7. \A j \in S : j < k
    <3>1. TAKE j \in S
    <3>2. ~(k < j) /\ j # k
      BY <1>1, <2>2, <2>3, <2>5
    <3> QED BY <1>1, <1>3, <2>2, <3>2
  <2>8. /\ Cardinality(S \cup { k }) = Cardinality(S) + 1
        /\ Rank(S \cup { k }, k) = Cardinality(S)
        /\ \A j \in S : Rank(S \cup { k }, j) = Rank(S, j)
    BY <1>1, <2>2, <2>7, NextRank
  <2>9. Cardinality(U) = 1 /\ Rank(U, k) = 0
    <3>1. {} \cup { k } = U
      BY <2>6
    <3>2. Cardinality({} \cup { k }) = Cardinality({}) + 1
          /\ Rank({} \cup { k }, k) = Cardinality({})
      BY <1>4, <2>2, NextRank
    <3> QED BY <1>4, <3>1, <3>2
  <2>10. Named(a) = S \cup { k }
    BY <1>1, <2>6
  <2>11. m = 0
    BY <2>2, ProperToolOutput DEF m, InTurn
  <2>12. a.next = First(a) + Cardinality(S)
    BY <1>2, <1>3, <1>5, <2>11
  <2>13. ASSUME NEW j \in Named(a)
         PROVE  Place(a, j) = First(a) + Rank(Named(a), j)
    <3>1. CASE j = k
      <4>1. Place(a, j) = a.next + 0
        BY <2>2, <2>9, <3>1 DEF Place, U
      <4> QED BY <1>3, <1>5, <2>8, <2>10, <2>12, <3>1, <4>1
    <3>2. CASE j # k
      <4>1. j \in S /\ Place(a, j) = a.calls[j].idx
        BY <1>1, <2>10, <3>2 DEF Place
      <4> QED BY <1>2, <2>8, <2>10, <4>1
    <3> QED BY <3>1, <3>2
  <2>14. a.next + Cardinality(U) = First(a) + m + Cardinality(Named(a))
    BY <1>3, <1>5, <2>8, <2>9, <2>10, <2>11, <2>12
  <2> QED BY <2>13, <2>14 DEF U, m
<1> QED BY <1>6, <1>7

\* The place of the first call in the response.
CallsFrom(a) ==
    LET first == IF a.reasoning # << >> THEN 1 ELSE 0
    IN  IF a.content # << >> /\ ~HasToolOutput(a) THEN first + 1 ELSE first

\* The items of the response.
LEMMA OutputItems ==
    ASSUME NEW a, NEW r
    PROVE  r \in Output(a) <=>
             \/ /\ a.reasoning # << >>
                /\ r = [ kind |-> "reasoning", key |-> NoKey, text |-> a.reasoning, pos |-> 0 ]
             \/ /\ a.content # << >> /\ ~HasToolOutput(a)
                /\ r = [ kind |-> "message", key |-> NoKey, text |-> a.content,
                         pos |-> IF a.reasoning # << >> THEN 1 ELSE 0 ]
             \/ \E k \in Named(a) :
                  r = [ kind |-> "call", key |-> k, text |-> FinalArguments(a.calls[k]),
                        pos |-> CallsFrom(a) + Rank(Named(a), k) ]
<1> DEFINE first == IF a.reasoning # << >> THEN 1 ELSE 0
           calls == CallsFrom(a)
           R == [ kind |-> "reasoning", key |-> NoKey, text |-> a.reasoning, pos |-> 0 ]
           M == [ kind |-> "message", key |-> NoKey, text |-> a.content, pos |-> first ]
           C(k) == [ kind |-> "call", key |-> k, text |-> FinalArguments(a.calls[k]),
                     pos |-> calls + Rank(Named(a), k) ]
<1>1. Output(a) = (IF a.reasoning = << >> THEN {} ELSE { R })
                  \cup (IF ~(a.content # << >> /\ ~HasToolOutput(a)) THEN {} ELSE { M })
                  \cup { C(k) : k \in Named(a) }
  BY DEF Output, CallsFrom
<1>2. (\E k \in Named(a) : r = C(k)) <=> r \in { C(k) : k \in Named(a) }
  OBVIOUS
<1>3. r \in Output(a) <=> \/ a.reasoning # << >> /\ r = R
                          \/ a.content # << >> /\ ~HasToolOutput(a) /\ r = M
                          \/ \E k \in Named(a) : r = C(k)
  <2> HIDE DEF R, M, C
  <2> QED BY <1>1, <1>2
<1> QED BY <1>3 DEF calls

\* Item n of the response is the item that was announced with index n.
Mirrors(a) ==
    /\ DOMAIN a.out = { r.pos : r \in Output(a) }
    /\ \A r \in Output(a) : /\ a.out[r.pos].kind = r.kind /\ a.out[r.pos].key = r.key
                            /\ a.out[r.pos].final = r.text

\* Reasoning and text that were closed are what the client adds up.
TextsExact(a) ==
    \A i \in DOMAIN a.out :
        a.out[i].closed > 0 /\ a.out[i].kind # "call" => a.out[i].text = a.out[i].final

(***************************************************************************)
(* The calls are closed where the response lists them.                     *)
(***************************************************************************)
LEMMA FinishToolsMirrors ==
    ASSUME NEW a, Good(a), Texts(a), Laid(a), Complete(a), Sorted(a), InTurn(a)
    PROVE  Mirrors(FinishTools(a)) /\ TextsExact(FinishTools(a))
<1> DEFINE b == FinishTools(a)
           m == IF a.tIdx = NoIndex THEN 0 ELSE 1
<1>1. /\ Frame(a, b, { "next", "calls", "out" })
      /\ b.next = a.next + Cardinality(Unannounced(a))
      /\ DOMAIN b.out = 0..(b.next - 1)
      /\ b.calls = [ k \in Indices |->
                      IF k \in Named(a)
                      THEN Announced(a.calls[k], FinalId(a, k), Place(a, k))
                      ELSE a.calls[k] ]
      /\ \A k \in Named(a) : /\ Place(a, k) \in 0..(b.next - 1)
                              /\ b.out[Place(a, k)] = ClosedCall(a, k)
      /\ \A i \in 0..(b.next - 1) :
           \/ \E k \in Named(a) : i = Place(a, k) /\ b.out[i] = ClosedCall(a, k)
           \/ i \in 0..(a.next - 1) /\ a.out[i].kind # "call" /\ b.out[i] = a.out[i]
      /\ \A i \in 0..(a.next - 1) :
           a.out[i].kind # "call" => i \in 0..(b.next - 1) /\ b.out[i] = a.out[i]
  BY FinishToolsFields
<1>2. \A k \in Named(a) : Place(a, k) = First(a) + Rank(Named(a), k)
  BY PlacesInTurn DEF Sorted
<1> HIDE DEF b
<1>3. b.content = a.content /\ b.reasoning = a.reasoning
  BY <1>1 DEF Frame, Fields
<1>4. ASSUME NEW k \in Indices
      PROVE  /\ b.calls[k].name = a.calls[k].name
             /\ FinalArguments(b.calls[k]) = FinalArguments(a.calls[k])
  <2>1. b.calls[k].name = a.calls[k].name /\ b.calls[k].args = a.calls[k].args
    BY <1>1, <1>4 DEF Announced
  <2> QED BY <2>1 DEF FinalArguments
<1>5. /\ Named(b) = Named(a) /\ (HasToolOutput(b) <=> HasToolOutput(a))
      /\ Named(a) \subseteq Indices
  BY <1>4 DEF Named, HasToolOutput
<1>6. (IF b.reasoning # << >> THEN 1 ELSE 0) = First(a)
  BY <1>3 DEF Texts, First
<1> DEFINE R == [ kind |-> "reasoning", key |-> NoKey, text |-> a.reasoning, pos |-> 0 ]
           M == [ kind |-> "message", key |-> NoKey, text |-> a.content, pos |-> First(a) ]
           C(k) == [ kind |-> "call", key |-> k, text |-> FinalArguments(a.calls[k]),
                     pos |-> First(a) + Rank(Named(a), k) ]
<1>7. ASSUME NEW r
      PROVE  r \in Output(b) <=> \/ a.rIdx # NoIndex /\ r = R
                                 \/ a.tIdx # NoIndex /\ r = M
                                 \/ \E k \in Named(a) : r = C(k)
  <2> DEFINE D(k) == [ kind |-> "call", key |-> k, text |-> FinalArguments(b.calls[k]),
                       pos |-> CallsFrom(b) + Rank(Named(b), k) ]
  <2>1. r \in Output(b) <=>
             \/ b.reasoning # << >> /\ r = R
             \/ b.content # << >> /\ ~HasToolOutput(b) /\ r = M
             \/ \E k \in Named(b) : r = D(k)
    BY <1>3, <1>6, OutputItems
  <2>2. \A k \in Named(a) : D(k) = C(k)
    <3>1. TAKE k \in Named(a)
    <3>2. HasToolOutput(b)
      BY <1>5, ProperToolOutput DEF InTurn
    <3>3. CallsFrom(b) = First(a)
      BY <1>6, <3>2 DEF CallsFrom
    <3> QED BY <1>4, <1>5, <3>3
  <2>3. (b.reasoning # << >> <=> a.rIdx # NoIndex)
        /\ (b.content # << >> /\ ~HasToolOutput(b) <=> a.tIdx # NoIndex)
    BY <1>3, <1>5 DEF Texts, Sorted
  <2> HIDE DEF R, M, C, D
  <2> QED BY <1>5, <2>1, <2>2, <2>3
<1>8. /\ a.rIdx # NoIndex =>
           /\ a.rIdx = 0 /\ 0 \in 0..(b.next - 1) /\ b.out[0] = a.out[0]
           /\ a.out[0].kind = "reasoning" /\ a.out[0].key = NoKey
           /\ a.out[0].final = a.reasoning /\ a.out[0].text = a.reasoning
      /\ a.tIdx # NoIndex =>
           /\ a.tIdx = First(a) /\ First(a) \in 0..(b.next - 1)
           /\ b.out[First(a)] = a.out[First(a)]
           /\ a.out[First(a)].kind = "message" /\ a.out[First(a)].key = NoKey
           /\ a.out[First(a)].final = a.content /\ a.out[First(a)].text = a.content
  <2>1. a.rIdx # NoIndex => a.rIdx \in 0..(a.next - 1)
        /\ a.out[a.rIdx].kind = "reasoning" /\ a.out[a.rIdx].key = NoKey /\ a.rIdx = 0
        /\ a.out[a.rIdx].final = a.reasoning /\ a.out[a.rIdx].text = a.reasoning
    BY ItemsApart DEF Good, OwnIndices, Laid, Sorted, Complete, Texts
  <2>2. a.tIdx # NoIndex => a.tIdx \in 0..(a.next - 1)
        /\ a.out[a.tIdx].kind = "message" /\ a.out[a.tIdx].key = NoKey /\ a.tIdx = First(a)
        /\ a.out[a.tIdx].final = a.content /\ a.out[a.tIdx].text = a.content
    BY ItemsApart DEF Good, OwnIndices, Laid, Sorted, Complete, Texts
  <2> QED BY <1>1, <2>1, <2>2
<1>9. ASSUME NEW r \in Output(b)
      PROVE  /\ r.pos \in DOMAIN b.out
             /\ b.out[r.pos].kind = r.kind /\ b.out[r.pos].key = r.key
             /\ b.out[r.pos].final = r.text
  <2>1. CASE a.rIdx # NoIndex /\ r = R
    BY <1>1, <1>8, <2>1
  <2>2. CASE a.tIdx # NoIndex /\ r = M
    BY <1>1, <1>8, <2>2
  <2>3. ASSUME NEW k \in Named(a), r = C(k)
        PROVE  /\ r.pos \in DOMAIN b.out
               /\ b.out[r.pos].kind = r.kind /\ b.out[r.pos].key = r.key
               /\ b.out[r.pos].final = r.text
    <3>1. r.pos = Place(a, k) /\ r.kind = "call" /\ r.key = k
          /\ r.text = FinalArguments(a.calls[k])
      BY <1>2, <2>3
    <3>2. b.out[r.pos] = ClosedCall(a, k) /\ r.pos \in DOMAIN b.out
      BY <1>1, <3>1
    <3>3. ClosedCall(a, k).kind = "call" /\ ClosedCall(a, k).key = k
          /\ ClosedCall(a, k).final = FinalArguments(a.calls[k])
      BY ClosedCallFields, ClosedCallTexts
    <3> QED BY <3>1, <3>2, <3>3
  <2> HIDE DEF R, M, C
  <2> QED BY <1>7, <2>1, <2>2, <2>3
<1>10. ASSUME NEW i \in DOMAIN b.out
       PROVE  /\ \E r \in Output(b) : r.pos = i
              /\ b.out[i].kind # "call" => b.out[i].text = b.out[i].final
  <2>1. ASSUME NEW k \in Named(a), i = Place(a, k), b.out[i] = ClosedCall(a, k)
        PROVE  b.out[i].kind = "call" /\ \E r \in Output(b) : r.pos = i
    <3>1. C(k).pos = i
      BY <1>2, <2>1
    <3>2. C(k) \in Output(b)
      <4> HIDE DEF C
      <4> QED BY <1>7
    <3>3. b.out[i].kind = "call"
      BY <2>1, ClosedCallFields
    <3> HIDE DEF C
    <3> QED BY <3>1, <3>2, <3>3
  <2>2. CASE i \in 0..(a.next - 1) /\ a.out[i].kind # "call" /\ b.out[i] = a.out[i]
    <3>1. a.out[i] \in Item /\ OwnedBy(a, i) /\ i # NoIndex
      BY <2>2 DEF Good, AssemblerType, OwnIndices, NoIndex
    <3>2. CASE a.out[i].kind = "reasoning"
      <4>1. a.rIdx = i /\ i = 0 /\ R.pos = i /\ b.out[i].text = b.out[i].final
        BY <1>8, <2>2, <3>1, <3>2 DEF OwnedBy
      <4>2. R \in Output(b)
        <5> HIDE DEF R
        <5> QED BY <1>7, <3>1, <4>1
      <4> HIDE DEF R
      <4> QED BY <4>1, <4>2
    <3>3. CASE a.out[i].kind = "message"
      <4>1. a.tIdx = i /\ M.pos = i /\ b.out[i].text = b.out[i].final
        BY <1>8, <2>2, <3>1, <3>3 DEF OwnedBy
      <4>2. M \in Output(b)
        <5> HIDE DEF M
        <5> QED BY <1>7, <3>1, <4>1
      <4> HIDE DEF M
      <4> QED BY <4>1, <4>2
    <3> QED BY <2>2, <3>1, <3>2, <3>3 DEF Item, Kinds
  <2> QED BY <1>1, <2>1, <2>2
<1>11. Mirrors(b)
  BY <1>9, <1>10 DEF Mirrors
<1>12. TextsExact(b)
  BY <1>10 DEF TextsExact
<1> QED BY <1>11, <1>12 DEF b

------------------------------------------------------------------------------
(***************************************************************************)
(* finalize and fail.                                                      *)
(***************************************************************************)

\* What the last step of a stream sets.
Verdict == { "terminal", "stored", "response" }

\* No message is shown beside a call, unless the call has a blank name.
Unmixed(a) ==
    \A i, j \in DOMAIN a.out :
        a.out[i].kind = "message" /\ a.out[j].kind = "call" =>
            a.calls[a.out[j].key].name \in BlankNames

\* Calls that were closed were closed with what the client adds up.
CallsExact(a) ==
    \A i \in DOMAIN a.out : a.out[i].closed > 0 /\ a.out[i].kind = "call" =>
        a.out[i].text = << >> \/ Canonical(a.out[i].text) = a.out[i].final

\* The end of a stream, and what a success means.
Concluded(a) ==
    /\ CallsExact(a)
    /\ a.buffered => Unmixed(a)
    /\ a.terminal \in { "completed", "incomplete" } =>
         Shut(a) /\ Delivered(a) /\ a.response = Output(a)

(***************************************************************************)
(* The verdict does not change what the client was told before.            *)
(***************************************************************************)
LEMMA VerdictFields ==
    ASSUME NEW b, NEW c, Frame(b, c, Verdict)
    PROVE  /\ c.out = b.out /\ c.calls = b.calls /\ c.buffered = b.buffered
           /\ c.reasoning = b.reasoning /\ c.content = b.content /\ c.finish = b.finish
           /\ c.next = b.next
           /\ Output(c) = Output(b)
           /\ Shut(b) => Shut(c)
           /\ Mirrors(b) => Mirrors(c)
           /\ TextsExact(b) => TextsExact(c)
           /\ \A a : Grows(a, b) => Grows(a, c)
<1>1. /\ c.out = b.out /\ c.calls = b.calls /\ c.buffered = b.buffered
      /\ c.reasoning = b.reasoning /\ c.content = b.content /\ c.finish = b.finish
      /\ c.next = b.next
  BY DEF Frame, Fields, Verdict
<1>2. Named(c) = Named(b) /\ (HasToolOutput(c) <=> HasToolOutput(b))
  BY <1>1 DEF Named, HasToolOutput
<1>3. Output(c) = Output(b)
  BY <1>1, <1>2 DEF Output
<1>4. Shut(b) => Shut(c)
  BY <1>1, <1>2 DEF Shut
<1>5. (Mirrors(b) => Mirrors(c)) /\ (TextsExact(b) => TextsExact(c))
  BY <1>1, <1>3 DEF Mirrors, TextsExact
<1>6. \A a : Grows(a, b) => Grows(a, c)
  BY <1>1 DEF Grows, Reworded
<1> QED BY <1>1, <1>3, <1>4, <1>5, <1>6

(***************************************************************************)
(* finalize closes the items, then gives its verdict.                      *)
(***************************************************************************)
LEMMA FinalizeFields ==
    ASSUME NEW a, Good(a), a.terminal = Absent, a.stored = {}, NEW ok \in BOOLEAN
    PROVE  LET b == CloseItems(a)
               c == Finalize(a, ok)
           IN  /\ Frame(b, c, Verdict)
               /\ c.terminal \in { "completed", "incomplete" } =>
                    c.terminal = Status(b.finish) /\ c.response = Output(b)
<1> DEFINE b == CloseItems(a)
           c == [ b EXCEPT !.stored = @ \cup { Record(b) }, !.response = Output(b),
                           !.terminal = Status(b.finish) ]
           d == Fail(b)
<1>0. a.terminal = Absent
  OBVIOUS
<1>1. DOMAIN b = Fields /\ b.terminal = Absent
  BY CloseItemsDelivered DEF Delivered, AssemblerType, Keeps, Outcomes
<1>2. Finalize(a, ok) = IF ok THEN c ELSE d
  BY <1>0 DEF Finalize
<1> HIDE DEF b
<1>3. Frame(b, c, Verdict) /\ c.terminal = Status(b.finish) /\ c.response = Output(b)
  BY <1>1 DEF Frame, Fields, Verdict
<1>4. Frame(b, d, Verdict) /\ d.terminal = "failed"
  BY <1>1 DEF Fail, Frame, Fields, Verdict
<1> HIDE DEF c, d
<1>5. CASE ok
  BY <1>2, <1>3, <1>5 DEF b
<1>6. CASE ~ok
  BY <1>2, <1>4, <1>6 DEF b
<1> QED BY <1>5, <1>6

(***************************************************************************)
(* fail closes nothing.                                                    *)
(***************************************************************************)
LEMMA FailConcludes ==
    ASSUME NEW a, Good(a), Told(a), a.terminal = Absent
    PROVE  Concluded(Fail(a)) /\ Frame(a, Fail(a), Verdict) /\ Fail(a).terminal = "failed"
<1> DEFINE b == Fail(a)
<1>1. DOMAIN b = Fields /\ b.terminal = "failed"
      /\ \A f \in Fields \ { "terminal" } : b[f] = a[f]
  BY DEF Fail, Good, AssemblerType, Fields
<1> HIDE DEF b
<1>2. Frame(a, b, Verdict)
  BY <1>1 DEF Frame, Verdict
<1>3. b.out = a.out /\ b.buffered = a.buffered
  BY <1>1 DEF Fields
<1>4. CallsExact(b)
  BY <1>3 DEF CallsExact, Good, Marked, Marks
<1>5. ASSUME b.buffered PROVE Unmixed(b)
  <2>1. a.tIdx = NoIndex
    BY <1>3, <1>5 DEF Told, HeldBack
  <2>2. \A i \in DOMAIN a.out : i # NoIndex
    BY DEF Good, AssemblerType, NoIndex
  <2>3. \A i \in DOMAIN a.out : a.out[i].kind # "message"
    BY <2>1, <2>2 DEF Good, OwnIndices, OwnedBy
  <2> QED BY <1>3, <2>3 DEF Unmixed
<1> QED BY <1>1, <1>2, <1>4, <1>5 DEF b, Concluded

(***************************************************************************)
(* finalize closes all there is to close.                                  *)
(***************************************************************************)
LEMMA FinalizeConcludes ==
    ASSUME NEW a, Good(a), Told(a), Thought(a), a.terminal = Absent, a.stored = {},
           NEW ok \in BOOLEAN
    PROVE  LET c == Finalize(a, ok)
           IN  /\ Concluded(c) /\ Grows(a, c) /\ Frame(a, c, Spoken \cup Verdict)
               /\ c.terminal \in { "completed", "incomplete" } => c.terminal = Status(a.finish)
<1> DEFINE b == CloseItems(a)
           c == Finalize(a, ok)
<1>1. Shut(b) /\ Grows(a, b) /\ Delivered(b) /\ Frame(a, b, Spoken)
  BY CloseItemsShut
<1>2. /\ Frame(b, c, Verdict)
      /\ c.terminal \in { "completed", "incomplete" } =>
           c.terminal = Status(b.finish) /\ c.response = Output(b)
  BY FinalizeFields
<1>3. AssemblerType(c)
  BY FinalizeEnds DEF Ending
<1> HIDE DEF b, c
<1>4. /\ Shut(c) /\ Grows(a, c) /\ Output(c) = Output(b)
      /\ c.out = b.out /\ c.finish = b.finish
  BY <1>1, <1>2, VerdictFields
<1>5. Frame(b, c, Loose)
  BY <1>2 DEF Frame, Loose, Verdict
<1>6. Delivered(c)
  BY <1>1, <1>3, <1>5, LooseDelivered
<1>7. Frame(a, c, Spoken \cup Verdict) /\ b.finish = a.finish
  BY <1>1, <1>2 DEF Frame, Spoken, Verdict, Fields
<1>8. CallsExact(c)
  BY <1>4 DEF CallsExact, Shut
<1>9. c.buffered => Unmixed(c)
  BY <1>4 DEF Unmixed, Shut, HasToolOutput
<1> QED BY <1>2, <1>4, <1>6, <1>7, <1>8, <1>9 DEF Concluded, c

------------------------------------------------------------------------------
(***************************************************************************)
(* The beginning, and the finish reason.                                   *)
(***************************************************************************)

\* A new assembler has told nothing.
LEMMA NewTold ==
    ASSUME NEW buffered \in BOOLEAN
    PROVE  LET a == NewAssembler(buffered)
           IN  /\ Told(a) /\ Thought(a) /\ Laid(a) /\ InTurn(a)
               /\ a.finish = Absent /\ ~a.tDone /\ ~a.rDone /\ a.think = "Detecting"
               /\ a.content = << >> /\ a.buf = << >> /\ a.buffered = buffered
               /\ \A k \in Indices : a.calls[k] = NewCall
<1> DEFINE a == NewAssembler(buffered)
<1>1. /\ a.content = << >> /\ a.reasoning = << >> /\ a.buf = << >>
      /\ a.calls = [ k \in Indices |-> NewCall ]
      /\ a.finish = Absent /\ a.next = 0 /\ a.tIdx = NoIndex /\ a.rIdx = NoIndex
      /\ a.tDone = FALSE /\ a.rDone = FALSE /\ a.think = "Detecting"
      /\ a.buffered = buffered
  BY DEF NewAssembler
<1> HIDE DEF a
<1>2. \A k \in Indices : a.calls[k] = NewCall /\ ~a.calls[k].added
  BY <1>1 DEF NewCall
<1>3. Told(a) /\ Thought(a) /\ InTurn(a)
  <2>1. Proper(a)
    BY <1>2, NewCallProper DEF Proper
  <2> QED BY <1>1, <1>2, <2>1 DEF Told, Texts, HeldBack, Thought, InTurn
<1>4. Laid(a)
  <2>1. Uncalled(a)
    BY <1>2 DEF Uncalled
  <2> QED BY <1>1, <2>1, UncalledLaid DEF First
<1> QED BY <1>1, <1>2, <1>3, <1>4 DEF a

\* A finish reason is not shown.
LEMMA FinishTold ==
    ASSUME NEW a, Good(a), Told(a), Thought(a), NEW b, Frame(a, b, { "finish" })
    PROVE  Told(b) /\ Thought(b)
<1>1. /\ b.rIdx = a.rIdx /\ b.tIdx = a.tIdx /\ b.calls = a.calls /\ b.out = a.out
      /\ b.reasoning = a.reasoning /\ b.content = a.content /\ b.buffered = a.buffered
      /\ b.think = a.think /\ b.rDone = a.rDone
  BY DEF Frame, Fields
<1> QED BY <1>1 DEF Told, Texts, HeldBack, Thought

------------------------------------------------------------------------------
(***************************************************************************)
(* Closed items.                                                           *)
(***************************************************************************)

\* No item that was closed changes.
Still(a, b) == \A i \in 0..(a.next - 1) : a.out[i].closed > 0 => b.out[i] = a.out[i]

(***************************************************************************)
(* Items stay closed as long as no reasoning comes after the reasoning     *)
(* item was closed; the message is closed only at the end.                 *)
(***************************************************************************)
LEMMA StillGrows ==
    ASSUME NEW a, Good(a), ~a.tDone, NEW b, Grows(a, b), a.rDone => b.reasoning = a.reasoning
    PROVE  Still(a, b)
<1>1. SUFFICES ASSUME NEW i \in 0..(a.next - 1), a.out[i].closed > 0
               PROVE  b.out[i] = a.out[i]
  BY DEF Still
<1>2. a.out[i] \in Item /\ i \in DOMAIN a.out
  BY DEF Good, AssemblerType
<1>3. a.out[i].closed = Marks(a, i)
  BY <1>2 DEF Good, Marked
<1>4. a.out[i].kind = "reasoning" /\ a.rDone
  BY <1>1, <1>2, <1>3 DEF Marks, Item, Kinds
<1>5. b.out[i] = a.out[i] \/ Reworded(a, b, a.out[i].kind)
  BY <1>1 DEF Grows
<1> QED BY <1>4, <1>5 DEF Reworded

(***************************************************************************)
(* What was closed before the end has all its text.                        *)
(***************************************************************************)
LEMMA OpenTextsExact ==
    ASSUME NEW a, Good(a), Told(a), Laid(a), ~a.tDone
    PROVE  TextsExact(a)
<1>1. SUFFICES ASSUME NEW i \in DOMAIN a.out, a.out[i].closed > 0, a.out[i].kind # "call"
               PROVE  a.out[i].text = a.out[i].final
  BY DEF TextsExact
<1>2. a.out[i] \in Item /\ i # NoIndex
  BY DEF Good, AssemblerType, NoIndex
<1>3. a.out[i].closed = Marks(a, i) /\ OwnedBy(a, i)
  BY DEF Good, Marked, OwnIndices
<1>4. a.out[i].kind = "reasoning" /\ a.rDone
  BY <1>1, <1>2, <1>3 DEF Marks, Item, Kinds
<1>5. a.rIdx = i
  BY <1>3, <1>4 DEF OwnedBy
<1> QED BY <1>2, <1>4, <1>5 DEF Told, Texts, Laid

(***************************************************************************)
(* Without held back text a tool_calls array only closes the reasoning.    *)
(***************************************************************************)
LEMMA BeginToolsQuietly ==
    ASSUME NEW a, Good(a), a.think # "InThink", a.buf = << >>
    PROVE  Frame(a, BeginTools(a), { "out", "rDone" })
<1>1. a.think \in Thinking
  BY DEF Good, AssemblerType
<1>2. FlushThinkBuffer(a) = a
  BY <1>1 DEF FlushThinkBuffer, Thinking
<1> QED BY <1>2, FinishReasoningGood DEF BeginTools

(***************************************************************************)
(* The end of an orderly stream: the response mirrors what was shown, and  *)
(* no item that was closed before changes.                                 *)
(***************************************************************************)
LEMMA FinalizeMirrors ==
    ASSUME NEW a, Good(a), Told(a), Thought(a), a.terminal = Absent, a.stored = {},
           Laid(a), InTurn(a), Quiet(a), ~a.tDone, HasToolOutput(a) => a.buffered,
           NEW ok \in BOOLEAN
    PROVE  LET c == Finalize(a, ok)
           IN  Mirrors(c) /\ TextsExact(c) /\ Proper(c) /\ Still(a, c)
<1> DEFINE x == Ready(a)
           b == FinishTools(x)
           c == Finalize(a, ok)
           y == BeginTools(a)
<1>1. /\ Good(x) /\ Texts(x) /\ x.calls = a.calls
      /\ Laid(x) /\ Complete(x) /\ Sorted(x)
  BY ReadyTold, ReadyLaid
<1>2. b = CloseItems(a)
  BY DEF CloseItems, Ready
<1>3. a.rDone => x.reasoning = a.reasoning
  <2>1. /\ Good(y) /\ Told(y)
        /\ a.think = "Done" => y.reasoning = a.reasoning
    BY BeginToolsTells DEF Tells
  <2>2. x = IF HasToolOutput(y) THEN y ELSE FinishText(y)
    BY DEF Ready
  <2> HIDE DEF y
  <2>3. FinishText(y).reasoning = y.reasoning
    <3>1. Frame(y, FinishText(y), { "out", "rDone", "next", "tIdx", "tDone" })
      BY <2>1, FinishTextTold
    <3> QED BY <3>1 DEF Frame, Fields
  <2>4. a.rDone => a.think = "Done"
    BY DEF Thought
  <2> HIDE DEF x
  <2> QED BY <2>1, <2>2, <2>3, <2>4
<1> HIDE DEF x
<1>4. InTurn(x)
  BY <1>1 DEF InTurn, Proper
<1>5. Mirrors(b) /\ TextsExact(b)
  BY <1>1, <1>4, FinishToolsMirrors
<1>6. b.reasoning = x.reasoning /\ Proper(b)
  <2>1. /\ Frame(x, b, { "next", "calls", "out" })
        /\ b.calls = [ k \in Indices |->
                         IF k \in Named(x)
                         THEN Announced(x.calls[k], FinalId(x, k), Place(x, k))
                         ELSE x.calls[k] ]
    BY <1>1, FinishToolsFields
  <2>2. \A k \in Indices : b.calls[k].name = x.calls[k].name
    BY <2>1 DEF Announced
  <2> QED BY <1>4, <2>1, <2>2 DEF Frame, Fields, InTurn, Proper
<1> HIDE DEF b
<1>7. Frame(b, c, Verdict)
  BY <1>2, FinalizeFields
<1>8. Grows(a, c)
  BY FinalizeConcludes
<1> HIDE DEF c
<1>9. Mirrors(c) /\ TextsExact(c) /\ Proper(c) /\ c.reasoning = b.reasoning
  BY <1>5, <1>6, <1>7, VerdictFields DEF Proper
<1>10. Still(a, c)
  BY <1>3, <1>6, <1>8, <1>9, StillGrows
<1> QED BY <1>9, <1>10 DEF c
==============================================================================
