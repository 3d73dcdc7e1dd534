------------------------------ MODULE Admission ------------------------------
(***************************************************************************)
(* What the concurrency limit of the adapter promises: at most Capacity    *)
(* requests are in the hands of the upstream at a time, and a request is   *)
(* refused for lack of room only when there is none.  Requests leave one   *)
(* by one, or all at once when the process ends.                           *)
(***************************************************************************)
EXTENDS Naturals, FiniteSets

CONSTANTS Requests, Capacity

VARIABLES
    busy,     \* the requests that were admitted and have not left
    refused   \* the requests that were refused

Full == Cardinality(busy) >= Capacity

Init == busy = {} /\ refused = {}

Admit(r)  == ~Full /\ busy' = busy \cup { r } /\ UNCHANGED refused
Refuse(r) == Full /\ refused' = refused \cup { r } /\ UNCHANGED busy
Leave(r)  == busy' = busy \ { r } /\ UNCHANGED refused
LeaveAll  == busy' = {} /\ UNCHANGED refused

Next == LeaveAll \/ \E r \in Requests : Admit(r) \/ Refuse(r) \/ Leave(r)

Spec == Init /\ [][Next]_<< busy, refused >>
==============================================================================
