------------------------ MODULE RequestLifecycleProofs ------------------------
(***************************************************************************)
(* For any number of requests, permits and projects: the semaphore counts  *)
(* the requests that hold a permit, and so the server implements Admission;*)
(* a client that is told of a completed response finds it in the store;    *)
(* and a request without a valid token learns and does nothing.            *)
(***************************************************************************)
EXTENDS RequestLifecycle, FiniteSetTheorems, TLAPS

Verdicts == { "busy", "listed", "completed", "failed" }

\* what is known of one request: it is untouched until it is sent, it is worked on
\* only if nothing is wrong with it, and what it was sent agrees with that
Consistent(r) ==
    /\ client[r] = "idle" => phase[r] = "idle" /\ r \notin stored
    /\ phase[r] \notin { "closing", "done" } => sent[r] = Unsent
    /\ phase[r] \notin { "idle", "done" } => Sound(r)
    /\ phase[r] \in { "spawned", "closing" } => kind[r] = "stream"
    /\ phase[r] = "asking" => kind[r] # "models"
    /\ phase[r] = "listing" => left[r] >= 1
    /\ phase[r] = "stored" => r \in stored
    /\ r \in stored => Sound(r)
    /\ sent[r] = "completed" => r \in stored
    /\ sent[r] # Unsent => IF Sound(r) THEN sent[r] \in Verdicts ELSE sent[r] = FirstFlaw(r)

Accounted == free + Cardinality(Holders) = Capacity

IInv == TypeOK /\ Accounted /\ \A r \in Requests : Consistent(r)

Holds(k, p) ==
    \/ p = "asking"
    \/ k = "stream" /\ p \in { "building", "stored", "closing" }

------------------------------------------------------------------------------
(* The checks *)

\* a nonempty set of checks has a first one
LEMMA FirstExists ==
    ASSUME NEW S \in SUBSET (1 .. 9), S # {}
    PROVE  \E i \in S : \A j \in S : i <= j
<1> SUFFICES ASSUME \A i \in S : \E j \in S : j < i
             PROVE  FALSE
  OBVIOUS
<1>1. 1 \notin S /\ 2 \notin S /\ 3 \notin S
  OBVIOUS
<1>2. 4 \notin S /\ 5 \notin S /\ 6 \notin S
  BY <1>1
<1>3. 7 \notin S /\ 8 \notin S /\ 9 \notin S
  BY <1>1, <1>2
<1>4. PICK i \in S : TRUE
  OBVIOUS
<1>5. i \in 1 .. 3 \/ i \in 4 .. 6 \/ i \in 7 .. 9
  OBVIOUS
<1> QED
  BY <1>1, <1>2, <1>3, <1>5

\* the flaw a request is told of is one it has, and none that comes before it
LEMMA FirstFlawIs ==
    ASSUME NEW r \in Requests, ~Sound(r)
    PROVE  \E i \in DOMAIN Order :
              /\ FirstFlaw(r) = Order[i] /\ Order[i] \in flaws[r] \cap Looked(r)
              /\ \A j \in DOMAIN Order : Order[j] \in flaws[r] \cap Looked(r) => i <= j
<1> DEFINE wrong == { i \in DOMAIN Order : Order[i] \in flaws[r] \cap Looked(r) }
<1>1. DOMAIN Order = 1 .. 9
  BY DEF Order
<1>2. Looked(r) \subseteq Checks
  BY <1>1 DEF Looked, Checks, Order
<1>3. wrong # {} /\ wrong \in SUBSET (1 .. 9)
  BY <1>1, <1>2 DEF Sound, Checks
<1>4. \E i \in wrong : \A j \in wrong : i <= j
  BY <1>3, FirstExists
<1>5. FirstFlaw(r) = Order[CHOOSE i \in wrong : \A j \in wrong : i <= j]
  BY DEF FirstFlaw
<1>6. PICK i \in wrong : FirstFlaw(r) = Order[i] /\ \A j \in wrong : i <= j
  BY <1>4, <1>5
<1> QED
  BY <1>6

\* a bad token is told, or a flaw of the text that is looked at before it
LEMMA TokenIsEarly ==
    ASSUME NEW r \in Requests, "token" \in flaws[r]
    PROVE  ~Sound(r) /\ FirstFlaw(r) \in { "body", "model", "route", "token" }
<1>1. DOMAIN Order = 1 .. 9 /\ Order[4] = "token"
  BY DEF Order
<1>2. "token" \in Looked(r)
  BY <1>1 DEF Looked, Checks
<1>3. ~Sound(r)
  BY <1>2 DEF Sound
<1>4. PICK i \in 1 .. 9 : FirstFlaw(r) = Order[i] /\ i <= 4
  BY <1>1, <1>2, <1>3, FirstFlawIs
<1>5. i = 1 \/ i = 2 \/ i = 3 \/ i = 4
  BY <1>4
<1> QED
  BY <1>3, <1>4, <1>5 DEF Order

\* what a request with a flaw is told is a check
LEMMA FlawIsCheck ==
    ASSUME NEW r \in Requests, ~Sound(r)
    PROVE  FirstFlaw(r) \in Checks
BY FirstFlawIs DEF Checks

------------------------------------------------------------------------------
(* The permits *)

\* a move of one request gives it a permit, takes it away, or neither
LEMMA HoldersMove ==
    ASSUME TypeOK, NEW r \in Requests, NEW p, Goto(r, p), UNCHANGED kind
    PROVE  /\ Holds(kind[r], p) => Holders' = Holders \cup { r }
           /\ ~Holds(kind[r], p) => Holders' = Holders \ { r }
           /\ r \in Holders <=> Holds(kind[r], phase[r])
<1>1. \A q \in Requests : q \in Holders <=> Holds(kind[q], phase[q])
  BY DEF Holders, Holds
<1>2. \A q \in Requests : q \in Holders' <=> Holds(kind[q], phase'[q])
  BY DEF Holders, Holds
<1>3. \A q \in Requests : phase'[q] = IF q = r THEN p ELSE phase[q]
  BY DEF TypeOK, Goto
<1>4. Holders \subseteq Requests /\ Holders' \subseteq Requests
  BY DEF Holders
<1>5. \A q \in Requests \ { r } : q \in Holders' <=> q \in Holders
  BY <1>1, <1>2, <1>3
<1>6. r \in Holders' <=> Holds(kind[r], p)
  BY <1>2, <1>3
<1> QED
  BY <1>1, <1>4, <1>5, <1>6

\* the number of permits that are out
LEMMA HoldersCount ==
    /\ IsFiniteSet(Holders) /\ Cardinality(Holders) \in Nat
    /\ \A r \in Requests \ Holders : Cardinality(Holders \cup { r }) = Cardinality(Holders) + 1
    /\ \A r \in Holders : Cardinality(Holders \ { r }) = Cardinality(Holders) - 1
<1>1. IsFiniteSet(Holders)
  BY LifecycleAssumption, FS_Subset DEF Holders
<1> QED
  BY <1>1, FS_CardinalityType, FS_AddElement, FS_RemoveElement

\* when the process has ended nobody holds a permit
LEMMA EndedHolders ==
    ASSUME Ended
    PROVE  Holders' = {}
BY DEF Ended, Holders, Halt

------------------------------------------------------------------------------
(* The inductive invariant *)

\* nothing that is said of a request depends on what happens to the others
LEMMA Untouched ==
    ASSUME NEW q \in Requests, Consistent(q),
           kind'[q] = kind[q], flaws'[q] = flaws[q], phase'[q] = phase[q], left'[q] = left[q],
           client'[q] = client[q], sent'[q] = sent[q], q \in stored' <=> q \in stored
    PROVE  Consistent(q)'
BY DEF Consistent, Sound, FirstFlaw, Looked

\* whether a request is sound does not depend on how far it is
LEMMA SameVerdict ==
    ASSUME NEW q \in Requests, kind'[q] = kind[q], flaws'[q] = flaws[q]
    PROVE  (Sound(q)' <=> Sound(q)) /\ FirstFlaw(q)' = FirstFlaw(q)
BY DEF Sound, FirstFlaw, Looked

LEMMA InitInvariant ==
    ASSUME Init
    PROVE  IInv
<1>1. TypeOK
  BY LifecycleAssumption DEF Init, TypeOK, Kinds, Phases, Answers
<1>2. Holders = {}
  BY DEF Init, Holders
<1>3. Accounted
  BY <1>2, FS_EmptySet, LifecycleAssumption DEF Accounted, Init
<1>4. ASSUME NEW r \in Requests PROVE Consistent(r)
  BY DEF Init, Consistent, Unsent
<1> QED
  BY <1>1, <1>3, <1>4 DEF IInv

\* the permits add up after every step that keeps them
LEMMA AccountKept ==
    ASSUME Accounted, UNCHANGED free, Holders' = Holders
    PROVE  Accounted'
BY DEF Accounted

LEMMA AccountTaken ==
    ASSUME TypeOK, Accounted, NEW r \in Requests \ Holders, Acquire, Holders' = Holders \cup { r }
    PROVE  Accounted'
BY HoldersCount, LifecycleAssumption DEF Accounted, Acquire, TypeOK

LEMMA AccountReturned ==
    ASSUME TypeOK, Accounted, NEW r \in Holders, Release, Holders' = Holders \ { r }
    PROVE  Accounted' /\ free < Capacity
<1>1. r \in Requests
  BY DEF Holders
<1>2. Cardinality(Holders) >= 1
  <2>1. Cardinality(Holders \ { r }) \in Nat
    BY HoldersCount, FS_RemoveElement, FS_CardinalityType
  <2> QED
    BY <2>1, HoldersCount
<1> QED
  BY <1>2, HoldersCount, LifecycleAssumption DEF Accounted, Release, TypeOK

------------------------------------------------------------------------------
(* One lemma for each part of the invariant *)

LEMMA TypeStep ==
    ASSUME IInv, [Next]_vars
    PROVE  TypeOK'
<1> USE LifecycleAssumption DEF IInv, TypeOK
<1>1. ASSUME NEW r \in Requests, NEW k \in Kinds, NEW f \in FlawSets, SendRequest(r, k, f)
      PROVE  TypeOK'
  BY <1>1 DEF SendRequest
<1>2. ASSUME NEW r \in Requests, Deliver(r) \/ Disconnect(r)
      PROVE  TypeOK'
  BY <1>2 DEF Deliver, Disconnect
<1>3. ASSUME NEW r \in Requests, Cancel(r)
      PROVE  TypeOK'
  <2>1. free' \in 0 .. Capacity
    <3>1. CASE kind[r] = "whole" /\ phase[r] = "asking" /\ Release
      <4>1. r \in Holders /\ Holders' = Holders \ { r }
        BY <1>3, <3>1, HoldersMove DEF Cancel, Holds
      <4> QED
        BY <3>1, <4>1, AccountReturned DEF Release
    <3>2. CASE UNCHANGED free
      BY <3>2
    <3> QED
      BY <1>3, <3>1, <3>2 DEF Cancel
  <2> QED
    BY <1>3, <2>1 DEF Cancel, Goto, Phases
<1>4. ASSUME NEW r \in Requests, Reject(r)
      PROVE  TypeOK'
  BY <1>4, FlawIsCheck DEF Reject, Answer, Goto, Phases, Answers
<1>5. ASSUME NEW r \in Requests, Models(r) \/ Spawn(r)
      PROVE  TypeOK'
  BY <1>5 DEF Models, Spawn, Goto, Phases
<1>6. ASSUME NEW r \in Requests, TryAcquire(r) \/ LimitReached(r)
      PROVE  TypeOK'
  BY <1>6 DEF TryAcquire, LimitReached, Acquire, Goto, Answer, Phases, Answers
<1>7. ASSUME NEW r \in Requests, UpstreamAnswers(r) \/ UpstreamFails(r)
      PROVE  TypeOK'
  <2>1. free' \in 0 .. Capacity
    <3>1. CASE kind[r] = "whole"
      <4>1. r \in Holders /\ Holders' = Holders \ { r } /\ Release
        BY <1>7, <3>1, HoldersMove DEF UpstreamAnswers, UpstreamFails, Holds, After
      <4> QED
        BY <4>1, AccountReturned DEF Release
    <3>2. CASE kind[r] # "whole"
      BY <1>7, <3>2 DEF UpstreamAnswers, UpstreamFails
    <3> QED
      BY <3>1, <3>2
  <2> QED
    BY <1>7, <2>1 DEF UpstreamAnswers, UpstreamFails, Goto, Answer, After, Phases, Answers
<1>8. ASSUME NEW r \in Requests, Put(r) \/ PutFails(r) \/ Complete(r)
      PROVE  TypeOK'
  BY <1>8 DEF Put, PutFails, Complete, Goto, Answer, After, Phases, Answers
<1>9. ASSUME NEW r \in Requests, TaskReturns(r)
      PROVE  TypeOK'
  <2>1. r \in Holders /\ Holders' = Holders \ { r }
    BY <1>9, HoldersMove DEF TaskReturns, Holds, Consistent
  <2>2. free' \in 0 .. Capacity
    BY <1>9, <2>1, AccountReturned DEF TaskReturns, Release
  <2> QED
    BY <1>9, <2>2 DEF TaskReturns, Goto, Phases
<1>10. ASSUME NEW r \in Requests, ListProject(r) \/ ListFails(r)
       PROVE  TypeOK'
  <2>1. left[r] >= 1
    BY <1>10 DEF ListProject, ListFails, Consistent
  <2> QED
    BY <1>10, <2>1 DEF ListProject, ListFails, Goto, Answer, Phases, Answers
<1>11. ASSUME CtrlC \/ Stop \/ Crash \/ Start
       PROVE  TypeOK'
  <2>1. CASE CtrlC \/ Start
    BY <2>1 DEF CtrlC, Start
  <2>2. CASE Stop \/ Crash
    BY <2>2 DEF Stop, Crash, Ended, Halt, Phases
  <2> QED
    BY <1>11, <2>1, <2>2
<1>12. CASE UNCHANGED vars
  BY <1>12 DEF vars
<1> QED
  BY <1>1, <1>2, <1>3, <1>4, <1>5, <1>6, <1>7, <1>8, <1>9, <1>10, <1>11, <1>12 DEF Next, Handle

\* what a step does to the permits: nothing, give one out, take one back, or, at the
\* end of the process, take them all back
PermitsKept        == Holders' = Holders /\ free' = free
PermitTaken(r)     == r \notin Holders /\ Holders' = Holders \cup { r } /\ Acquire
PermitReturned(r)  == r \in Holders /\ Holders' = Holders \ { r } /\ Release
AllReturned        == Holders' = {} /\ free' = Capacity

\* the requests that were refused for lack of a permit
Refused == { r \in Requests : sent[r] = "busy" }

\* an answer other than "busy" to a request that had none changes nothing there
LEMMA OtherAnswer ==
    ASSUME TypeOK, NEW r \in Requests, sent[r] = Unsent, NEW a, a # "busy", Answer(r, a)
    PROVE  Refused' = Refused
BY DEF TypeOK, Refused, Answer, Unsent

LEMMA PermitStep ==
    ASSUME IInv, [Next]_vars
    PROVE  \/ PermitsKept /\ Refused' = Refused
           \/ \E r \in Requests :
                 \/ PermitTaken(r) /\ Refused' = Refused
                 \/ PermitReturned(r) /\ Refused' = Refused
                 \/ free = 0 /\ PermitsKept /\ Refused' = Refused \cup { r }
           \/ AllReturned /\ Refused' = Refused
<1> DEFINE Outcome ==
           \/ PermitsKept /\ Refused' = Refused
           \/ \E r \in Requests :
                 \/ PermitTaken(r) /\ Refused' = Refused
                 \/ PermitReturned(r) /\ Refused' = Refused
                 \/ free = 0 /\ PermitsKept /\ Refused' = Refused \cup { r }
           \/ AllReturned /\ Refused' = Refused
<1> SUFFICES Outcome
  OBVIOUS
<1>0. TypeOK /\ \A r \in Requests : Consistent(r)
  BY DEF IInv
<1>1. ASSUME NEW r \in Requests, NEW k \in Kinds, NEW f \in FlawSets, SendRequest(r, k, f)
      PROVE  Outcome
  <2>1. phase[r] = "idle" /\ phase' = phase /\ kind' = [ kind EXCEPT ![r] = k ]
    BY <1>0, <1>1 DEF SendRequest, Consistent
  <2>2. \A q \in Requests : q \in Holders' <=> q \in Holders
    BY <1>0, <2>1 DEF Holders, TypeOK
  <2>3. Holders' = Holders
    BY <2>2 DEF Holders
  <2> QED
    BY <1>1, <2>3 DEF SendRequest, PermitsKept, Refused
<1>2. ASSUME NEW r \in Requests, Deliver(r) \/ Disconnect(r)
      PROVE  Outcome
  BY <1>2 DEF Deliver, Disconnect, PermitsKept, Refused, Holders
<1>3. ASSUME NEW r \in Requests, Cancel(r)
      PROVE  Outcome
  <2>1. Refused' = Refused
    BY <1>3 DEF Cancel, Refused
  <2>2. CASE phase[r] = "asking" /\ Release
    BY <1>0, <1>3, <2>1, <2>2, HoldersMove DEF Cancel, Holds, PermitReturned
  <2>3. CASE phase[r] = "listing" /\ UNCHANGED free
    BY <1>0, <1>3, <2>1, <2>3, HoldersMove DEF Cancel, Holds, PermitsKept
  <2> QED
    BY <1>3, <2>2, <2>3 DEF Cancel
<1>4. ASSUME NEW r \in Requests, Reject(r)
      PROVE  Outcome
  <2>1. FirstFlaw(r) # "busy"
    BY <1>4, FlawIsCheck DEF Reject, Checks, Order
  <2>2. Refused' = Refused
    BY <1>0, <1>4, <2>1, OtherAnswer DEF Reject, Arrived, Consistent
  <2> QED
    BY <1>0, <1>4, <2>2, HoldersMove DEF Reject, Arrived, Holds, PermitsKept
<1>5. ASSUME NEW r \in Requests, Models(r) \/ Spawn(r)
      PROVE  Outcome
  <2>1. PermitsKept
    BY <1>0, <1>5, HoldersMove DEF Models, Spawn, Arrived, Holds, PermitsKept
  <2> QED
    BY <1>5, <2>1 DEF Models, Spawn, Refused
<1>6. ASSUME NEW r \in Requests, TryAcquire(r)
      PROVE  Outcome
  <2>1. phase[r] \in { "idle", "spawned" }
    BY <1>6 DEF TryAcquire, AtLimit, Arrived
  <2>2. PermitTaken(r)
    BY <1>0, <1>6, <2>1, HoldersMove DEF TryAcquire, Holds, PermitTaken
  <2> QED
    BY <1>6, <2>2 DEF TryAcquire, Refused
<1>7. ASSUME NEW r \in Requests, LimitReached(r)
      PROVE  Outcome
  <2>1. phase[r] \in { "idle", "spawned" }
    BY <1>7 DEF LimitReached, AtLimit, Arrived
  <2>2. PermitsKept
    BY <1>0, <1>7, <2>1, HoldersMove DEF LimitReached, Holds, PermitsKept
  <2>3. Refused' = Refused \cup { r }
    BY <1>0, <1>7 DEF LimitReached, Answer, Refused, TypeOK
  <2> QED
    BY <1>7, <2>2, <2>3 DEF LimitReached
<1>8. ASSUME NEW r \in Requests, UpstreamAnswers(r) \/ UpstreamFails(r)
      PROVE  Outcome
  <2>1. Refused' = Refused
    <3>1. CASE UpstreamAnswers(r)
      BY <3>1 DEF UpstreamAnswers, Refused
    <3>2. CASE UpstreamFails(r)
      BY <1>0, <3>2, OtherAnswer DEF UpstreamFails, Consistent
    <3> QED
      BY <1>8, <3>1, <3>2
  <2>2. PICK p \in { "building", "closing", "done" } :
           /\ phase[r] = "asking" /\ Goto(r, p) /\ UNCHANGED kind
           /\ IF kind[r] = "whole" THEN Release ELSE UNCHANGED free
           /\ p \in { "building", "closing" } \/ kind[r] # "stream"
           /\ p \in { "building", "done" } \/ kind[r] = "stream"
    BY <1>8 DEF UpstreamAnswers, UpstreamFails, After
  <2>3. CASE kind[r] = "whole"
    BY <1>0, <2>1, <2>2, <2>3, HoldersMove DEF Holds, PermitReturned
  <2>4. CASE kind[r] = "stream"
    <3>1. r \in Holders /\ Holders' = Holders \cup { r }
      BY <1>0, <2>2, <2>4, HoldersMove DEF Holds
    <3> QED
      BY <2>1, <2>2, <2>4, <3>1 DEF PermitsKept
  <2>5. kind[r] # "models"
    BY <1>0, <2>2 DEF Consistent
  <2> QED
    BY <1>0, <2>3, <2>4, <2>5 DEF TypeOK, Kinds
<1>9. ASSUME NEW r \in Requests, Put(r) \/ PutFails(r) \/ Complete(r)
      PROVE  Outcome
  <2>1. Refused' = Refused
    <3>1. CASE Put(r)
      BY <3>1 DEF Put, Refused
    <3>2. CASE PutFails(r) \/ Complete(r)
      BY <1>0, <3>2, OtherAnswer DEF PutFails, Complete, Consistent
    <3> QED
      BY <1>9, <3>1, <3>2
  <2>2. PICK p \in { "stored", "closing", "done" } :
           /\ phase[r] \in { "building", "stored" } /\ Goto(r, p) /\ UNCHANGED << kind, free >>
           /\ p # "done" <=> p = "stored" \/ kind[r] = "stream"
           /\ p = "closing" => kind[r] = "stream"
    BY <1>9 DEF Put, PutFails, Complete, After
  <2>3. Holders' = Holders
    <3>1. CASE kind[r] = "stream"
      <4>1. r \in Holders /\ Holders' = Holders \cup { r }
        BY <1>0, <2>2, <3>1, HoldersMove DEF Holds
      <4> QED
        BY <4>1
    <3>2. CASE kind[r] # "stream"
      <4>1. r \notin Holders /\ Holders' = Holders \ { r }
        BY <1>0, <2>2, <3>2, HoldersMove DEF Holds
      <4> QED
        BY <4>1
    <3> QED
      BY <3>1, <3>2
  <2> QED
    BY <2>1, <2>2, <2>3 DEF PermitsKept
<1>10. ASSUME NEW r \in Requests, TaskReturns(r)
       PROVE  Outcome
  <2>1. PermitReturned(r)
    BY <1>0, <1>10, HoldersMove DEF TaskReturns, Holds, Consistent, PermitReturned
  <2> QED
    BY <1>10, <2>1 DEF TaskReturns, Refused
<1>11. ASSUME NEW r \in Requests, ListProject(r) \/ ListFails(r)
       PROVE  Outcome
  <2>1. CASE UNCHANGED << phase, sent >>
    BY <1>11, <2>1 DEF ListProject, ListFails, PermitsKept, Refused, Holders
  <2>2. CASE Goto(r, "done") /\ (Answer(r, "listed") \/ Answer(r, "failed"))
    <3>1. Refused' = Refused
      BY <1>0, <1>11, <2>2, OtherAnswer DEF ListProject, ListFails, Consistent
    <3>2. PermitsKept
      BY <1>0, <1>11, <2>2, HoldersMove DEF ListProject, ListFails, Holds, PermitsKept
    <3> QED
      BY <3>1, <3>2
  <2> QED
    BY <1>11, <2>1, <2>2 DEF ListProject, ListFails
<1>12. CASE CtrlC \/ Start
  BY <1>12 DEF CtrlC, Start, PermitsKept, Refused, Holders
<1>13. CASE Stop \/ Crash
  BY <1>13, EndedHolders DEF Stop, Crash, Ended, AllReturned, Refused
<1>14. CASE UNCHANGED vars
  BY <1>14 DEF vars, PermitsKept, Refused, Holders
<1> QED
  BY <1>1, <1>2, <1>3, <1>4, <1>5, <1>6, <1>7, <1>8, <1>9, <1>10, <1>11, <1>12, <1>13, <1>14
  DEF Next, Handle

LEMMA AccountStep ==
    ASSUME IInv, [Next]_vars
    PROVE  Accounted'
<1>1. CASE PermitsKept
  BY <1>1, AccountKept DEF PermitsKept, IInv
<1>2. ASSUME NEW r \in Requests, PermitTaken(r)
      PROVE  Accounted'
  BY <1>2, AccountTaken DEF PermitTaken, IInv
<1>3. ASSUME NEW r \in Requests, PermitReturned(r)
      PROVE  Accounted'
  BY <1>3, AccountReturned DEF PermitReturned, IInv
<1>4. CASE AllReturned
  BY <1>4, FS_EmptySet, LifecycleAssumption DEF AllReturned, Accounted
<1> QED
  BY <1>1, <1>2, <1>3, <1>4, PermitStep

\* a step of request r leaves what is known of the others alone
LEMMA ConsistentStep ==
    ASSUME IInv, [Next]_vars, NEW q \in Requests
    PROVE  Consistent(q)'
<1>0. TypeOK /\ Consistent(q)
  BY DEF IInv
<1>1. ASSUME NEW r \in Requests, NEW k \in Kinds, NEW f \in FlawSets, SendRequest(r, k, f)
      PROVE  Consistent(q)'
  <2>1. CASE q = r
    BY <1>0, <1>1, <2>1 DEF SendRequest, Consistent, TypeOK, Unsent
  <2>2. CASE q # r
    BY <1>0, <1>1, <2>2, Untouched DEF SendRequest, TypeOK
  <2> QED
    BY <2>1, <2>2
<1>2. ASSUME NEW r \in Requests, Deliver(r) \/ Disconnect(r)
      PROVE  Consistent(q)'
  <2>1. CASE q = r
    BY <1>0, <1>2, <2>1, SameVerdict DEF Deliver, Disconnect, Consistent, TypeOK
  <2>2. CASE q # r
    BY <1>0, <1>2, <2>2, Untouched DEF Deliver, Disconnect, TypeOK
  <2> QED
    BY <2>1, <2>2
<1>3. ASSUME NEW r \in Requests, Cancel(r)
      PROVE  Consistent(q)'
  <2>1. CASE q = r
    BY <1>0, <1>3, <2>1, SameVerdict DEF Cancel, Goto, Consistent, TypeOK
  <2>2. CASE q # r
    BY <1>0, <1>3, <2>2, Untouched DEF Cancel, Goto, TypeOK
  <2> QED
    BY <2>1, <2>2
<1>4. ASSUME NEW r \in Requests, Handle(r) \/ UpstreamAnswers(r), q # r
      PROVE  Consistent(q)'
  <2>1. /\ UNCHANGED << kind, flaws, client >> /\ (q \in stored' <=> q \in stored)
        /\ phase' = phase \/ \E p : Goto(r, p)
        /\ sent' = sent \/ \E a : Answer(r, a)
        /\ left' = left \/ \E n : left' = [ left EXCEPT ![r] = n ]
    BY <1>4 DEF Handle, UpstreamAnswers, Reject, Models, Spawn, TryAcquire, LimitReached,
       UpstreamFails, Put, PutFails, Complete, TaskReturns, ListProject, ListFails
  <2>2. phase'[q] = phase[q] /\ sent'[q] = sent[q] /\ left'[q] = left[q]
    BY <1>0, <1>4, <2>1 DEF TypeOK, Goto, Answer
  <2> QED
    BY <1>0, <2>1, <2>2, Untouched
<1>5. CASE Reject(q)
  BY <1>0, <1>5, SameVerdict, FlawIsCheck
  DEF Reject, Arrived, Answer, Goto, Consistent, TypeOK, Checks, Order, Unsent
<1>6. CASE Models(q) \/ Spawn(q)
  BY <1>0, <1>6, SameVerdict, LifecycleAssumption
  DEF Models, Spawn, Arrived, Goto, Consistent, TypeOK, Unsent
<1>7. CASE TryAcquire(q) \/ LimitReached(q)
  BY <1>0, <1>7, SameVerdict
  DEF TryAcquire, LimitReached, AtLimit, Arrived, Answer, Goto, Consistent, TypeOK, Unsent, Verdicts
<1>8. CASE UpstreamAnswers(q) \/ UpstreamFails(q)
  BY <1>0, <1>8, SameVerdict
  DEF UpstreamAnswers, UpstreamFails, After, Answer, Goto, Consistent, TypeOK, Unsent, Verdicts
<1>9. CASE Put(q) \/ PutFails(q) \/ Complete(q)
  BY <1>0, <1>9, SameVerdict
  DEF Put, PutFails, Complete, After, Answer, Goto, Consistent, TypeOK, Unsent, Verdicts
<1>10. CASE TaskReturns(q)
  BY <1>0, <1>10, SameVerdict DEF TaskReturns, Goto, Consistent, TypeOK
<1>11. CASE ListProject(q) \/ ListFails(q)
  BY <1>0, <1>11, SameVerdict
  DEF ListProject, ListFails, Answer, Goto, Consistent, TypeOK, Unsent, Verdicts
<1>12. CASE CtrlC \/ Start
  BY <1>0, <1>12, SameVerdict DEF CtrlC, Start, Consistent
<1>13. CASE Stop \/ Crash
  BY <1>0, <1>13, SameVerdict DEF Stop, Crash, Ended, Halt, Consistent, TypeOK
<1>14. CASE UNCHANGED vars
  BY <1>0, <1>14, SameVerdict DEF vars, Consistent
<1> QED
  BY <1>1, <1>2, <1>3, <1>4, <1>5, <1>6, <1>7, <1>8, <1>9, <1>10, <1>11, <1>12, <1>13, <1>14
  DEF Next, Handle

------------------------------------------------------------------------------
(* The theorems *)

THEOREM Invariant == Spec => []IInv
<1>1. IInv /\ [Next]_vars => IInv'
  BY TypeStep, AccountStep, ConsistentStep DEF IInv
<1> QED
  BY InitInvariant, <1>1, PTL DEF Spec

\* Every variable keeps its type: in particular the semaphore (AppState.capacity)
\* never gets back a permit it did not give out
THEOREM TypeCorrect == Spec => []TypeOK
<1>1. IInv => TypeOK
  BY DEF IInv
<1> QED
  BY <1>1, Invariant, PTL

\* A client that is told of a completed response, by complete_response or by the
\* task of stream_response, finds it in the store, whenever the process ends
THEOREM ToldAfterStored == Spec => []ToldIsStored
<1>1. IInv => ToldIsStored
  BY DEF IInv, Consistent, ToldIsStored
<1> QED
  BY <1>1, Invariant, PTL

\* A request without a valid token (authorize_adapter) learns only what is wrong
\* with its own text, and reaches neither the store nor an upstream
THEOREM TokenComesFirst == Spec => []OnlyAuthorised
<1>1. ASSUME IInv, NEW r \in Requests, "token" \in flaws[r]
      PROVE  /\ sent[r] \in { Unsent, "body", "model", "route", "token" }
             /\ phase[r] \in { "idle", "done" } /\ r \notin stored
  BY <1>1, TokenIsEarly DEF IInv, Consistent
<1>2. IInv => OnlyAuthorised
  BY <1>1 DEF OnlyAuthorised
<1> QED
  BY <1>2, Invariant, PTL

LEMMA AdmissionInit ==
    ASSUME Init
    PROVE  Limiter!Init
BY DEF Init, Limiter!Init, Holders, Unsent

\* Admission counts as FiniteSets does
LEMMA SameCount == Limiter!Full <=> Cardinality(Holders) >= Capacity
BY DEF Limiter!Full, Limiter!Cardinality, Cardinality

\* each step of the server is a step of the abstract limiter, or none
LEMMA AdmissionStep ==
    ASSUME IInv, [Next]_vars
    PROVE  [Limiter!Next]_<< Holders, Refused >>
<1> USE DEF Refused
<1>1. CASE PermitsKept /\ Refused' = Refused
  BY <1>1 DEF PermitsKept
<1>2. ASSUME NEW r \in Requests, PermitTaken(r), Refused' = Refused
      PROVE  Limiter!Next
  <2>1. ~Limiter!Full
    BY <1>2, SameCount, HoldersCount, LifecycleAssumption
    DEF PermitTaken, Acquire, IInv, Accounted, TypeOK
  <2> QED
    BY <1>2, <2>1 DEF PermitTaken, Limiter!Next, Limiter!Admit
<1>3. ASSUME NEW r \in Requests, PermitReturned(r), Refused' = Refused
      PROVE  Limiter!Next
  BY <1>3 DEF PermitReturned, Limiter!Next, Limiter!Leave
<1>4. ASSUME NEW r \in Requests, free = 0, PermitsKept, Refused' = Refused \cup { r }
      PROVE  Limiter!Next
  <2>1. Limiter!Full
    BY <1>4, SameCount, HoldersCount, LifecycleAssumption DEF IInv, Accounted, TypeOK
  <2> QED
    BY <1>4, <2>1 DEF PermitsKept, Limiter!Next, Limiter!Refuse
<1>5. CASE AllReturned /\ Refused' = Refused
  BY <1>5 DEF AllReturned, Limiter!Next, Limiter!LeaveAll
<1> QED
  BY <1>1, <1>2, <1>3, <1>4, <1>5, PermitStep

\* The server implements the limiter: with any number of requests and permits, no
\* more requests hold a permit than there are, and one is refused only if all are
\* out, whatever clients, upstreams and the process do
THEOREM Refinement == Spec => ImplementsAdmission
<1>1. IInv /\ [Next]_vars => [Limiter!Next]_<< Holders, Refused >>
  BY AdmissionStep
<1> QED
  BY AdmissionInit, <1>1, Invariant, PTL DEF Spec, ImplementsAdmission, Limiter!Spec, Refused
==============================================================================
