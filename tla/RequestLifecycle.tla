--------------------------- MODULE RequestLifecycle ---------------------------
(***************************************************************************)
(* Requests at the server: the handlers of src/server.rs from the arrival  *)
(* of a request to the last thing its client hears, several at a time,     *)
(* with the semaphore they share, clients that go away, and the end of the *)
(* process (run_server of src/main.rs).                                    *)
(*                                                                         *)
(* A request is of one of three kinds.  A "whole" request is answered by   *)
(* its handler, which the HTTP library drops at its await when the client  *)
(* goes away.  The handler of a "stream" request answers at once with an   *)
(* event stream and leaves the work to a task of its own, which nobody     *)
(* stops: it ignores that nobody listens.  A "models" request asks every   *)
(* loaded project's upstream in turn, without a permit.                    *)
(*                                                                         *)
(* What an upstream says is left to StreamTask and ResponseBuilder: here   *)
(* it answers or it fails.  A client is done with a request when it has    *)
(* the answer, or the terminal event of the stream.                        *)
(***************************************************************************)
EXTENDS Naturals, FiniteSets

CONSTANTS
    Requests,   \* bound: the requests that are sent
    Capacity,   \* permits of the semaphore
    Projects,   \* number of loaded projects
    FlawSets,   \* what may be wrong with a request: sets of Checks
    MaxStarts   \* bound: how often the server is started

\* mutant: the project is looked up before the token
OrderProjectFirst == << "body", "model", "route", "project", "token", "size",
                        "history", "payload", "media" >>

\* what the handlers look at, in this order; "token" alone for a models request
Order == << "body", "model", "route", "token", "project", "size",
            "history", "payload", "media" >>

Checks == { Order[i] : i \in DOMAIN Order }

ASSUME LifecycleAssumption ==
    /\ IsFiniteSet(Requests)
    /\ Capacity \in Nat \ { 0 }
    /\ Projects \in Nat \ { 0 }
    /\ FlawSets \subseteq SUBSET Checks
    /\ MaxStarts \in Nat \ { 0 }

Kinds == { "whole", "stream", "models" }

VARIABLES
    server,   \* "running", "stopping" (Ctrl-C was seen) or "stopped"
    starts,   \* how often it was started
    free,     \* permits left in the semaphore
    kind,     \* the kind of each request
    flaws,    \* what is wrong with it
    phase,    \* where its handler or its task is
    left,     \* upstreams a models request has yet to ask
    client,   \* the client: "idle", "waiting", "answered", "gone" or "cut"
    sent,     \* the answer or terminal event it was sent
    stored    \* the requests whose response is in the store

vars == << server, starts, free, kind, flaws, phase, left, client, sent, stored >>

Unsent  == "unsent"
Answers == Checks \cup { Unsent, "busy", "listed", "completed", "failed" }
Phases  == { "idle", "spawned", "asking", "building", "stored", "closing", "listing", "done" }

\* the requests that have a permit: a stream keeps it until its task returns,
\* a whole answer gives it back as soon as the upstream has answered
Holders == { r \in Requests :
                \/ phase[r] = "asking"
                \/ kind[r] = "stream" /\ phase[r] \in { "building", "stored", "closing" } }

Init ==
    /\ server = "running" /\ starts = 1
    /\ free = Capacity
    /\ kind = [ r \in Requests |-> "whole" ]
    /\ flaws = [ r \in Requests |-> {} ]
    /\ phase = [ r \in Requests |-> "idle" ]
    /\ left = [ r \in Requests |-> 0 ]
    /\ client = [ r \in Requests |-> "idle" ]
    /\ sent = [ r \in Requests |-> Unsent ]
    /\ stored = {}

Goto(r, p)    == phase' = [ phase EXCEPT ![r] = p ]
Answer(r, a)  == sent' = [ sent EXCEPT ![r] = a ]
Acquire       == free > 0 /\ free' = free - 1
Release       == free' = free + 1

------------------------------------------------------------------------------
(* The client *)

SendRequest(r, k, f) ==
    /\ client[r] = "idle" /\ server = "running"
    /\ kind' = [ kind EXCEPT ![r] = k ]
    /\ flaws' = [ flaws EXCEPT ![r] = f ]
    /\ client' = [ client EXCEPT ![r] = "waiting" ]
    /\ UNCHANGED << server, starts, free, phase, left, sent, stored >>

Deliver(r) ==
    /\ client[r] = "waiting" /\ sent[r] # Unsent
    /\ client' = [ client EXCEPT ![r] = "answered" ]
    /\ UNCHANGED << server, starts, free, kind, flaws, phase, left, sent, stored >>

Disconnect(r) ==
    /\ client[r] = "waiting"
    /\ client' = [ client EXCEPT ![r] = "gone" ]
    /\ UNCHANGED << server, starts, free, kind, flaws, phase, left, sent, stored >>

\* the HTTP library drops the handler of a client that has gone, at its await
Cancel(r) ==
    /\ client[r] = "gone"
    /\ \/ kind[r] = "whole" /\ phase[r] = "asking" /\ Release
       \/ phase[r] = "listing" /\ UNCHANGED free
    /\ Goto(r, "done")
    /\ UNCHANGED << server, starts, kind, flaws, left, client, sent, stored >>

------------------------------------------------------------------------------
(* The handlers *)

Looked(r) == IF kind[r] = "models" THEN { "token" } ELSE Checks

\* the first thing wrong with a request
FirstFlaw(r) ==
    LET wrong == { i \in DOMAIN Order : Order[i] \in flaws[r] \cap Looked(r) }
    IN  Order[CHOOSE i \in wrong : \A j \in wrong : i <= j]

Sound(r) == flaws[r] \cap Looked(r) = {}

Arrived(r) == client[r] \in { "waiting", "gone" } /\ phase[r] = "idle"

Reject(r) ==
    /\ Arrived(r) /\ ~Sound(r)
    /\ Answer(r, FirstFlaw(r)) /\ Goto(r, "done")
    /\ UNCHANGED << server, starts, free, kind, flaws, left, client, stored >>

Models(r) ==
    /\ Arrived(r) /\ Sound(r) /\ kind[r] = "models"
    /\ left' = [ left EXCEPT ![r] = Projects ]
    /\ Goto(r, "listing")
    /\ UNCHANGED << server, starts, free, kind, flaws, client, sent, stored >>

Spawn(r) ==
    /\ Arrived(r) /\ Sound(r) /\ kind[r] = "stream"
    /\ Goto(r, "spawned")
    /\ UNCHANGED << server, starts, free, kind, flaws, left, client, sent, stored >>

\* the handler of a whole answer, or the task of a stream
AtLimit(r) ==
    \/ Arrived(r) /\ Sound(r) /\ kind[r] = "whole"
    \/ phase[r] = "spawned"

TryAcquire(r) ==
    /\ AtLimit(r) /\ Acquire /\ Goto(r, "asking")
    /\ UNCHANGED << server, starts, kind, flaws, left, client, sent, stored >>

\* mutant: the last permit is not given out
LimitReachedEarly(r) ==
    /\ AtLimit(r) /\ free <= 1 /\ Answer(r, "busy") /\ Goto(r, "done")
    /\ UNCHANGED << server, starts, free, kind, flaws, left, client, stored >>

\* mutant: a refused stream just ends
LimitReachedSilently(r) ==
    /\ AtLimit(r) /\ free = 0 /\ Goto(r, "done")
    /\ UNCHANGED << server, starts, free, kind, flaws, left, client, sent, stored >>

LimitReached(r) ==
    /\ AtLimit(r) /\ free = 0 /\ Answer(r, "busy") /\ Goto(r, "done")
    /\ UNCHANGED << server, starts, free, kind, flaws, left, client, stored >>

\* mutant: the permit of a stream, too, is dropped when the upstream has answered
UpstreamAnswersRelease(r) ==
    /\ phase[r] = "asking" /\ Goto(r, "building") /\ Release
    /\ UNCHANGED << server, starts, kind, flaws, left, client, sent, stored >>

\* the upstream has answered: in full, or up to the end of the stream
UpstreamAnswers(r) ==
    /\ phase[r] = "asking" /\ Goto(r, "building")
    /\ IF kind[r] = "whole" THEN Release ELSE UNCHANGED free
    /\ UNCHANGED << server, starts, kind, flaws, left, client, sent, stored >>

\* how a request ends once it is answered: a stream has its permit to return
After(r) == IF kind[r] = "stream" THEN "closing" ELSE "done"

\* mutant: a stream has no timeout
UpstreamFailsWhole(r) ==
    /\ phase[r] = "asking" /\ kind[r] = "whole"
    /\ Answer(r, "failed") /\ Goto(r, After(r)) /\ Release
    /\ UNCHANGED << server, starts, kind, flaws, left, client, stored >>

\* an error, at any time, or the timeout
UpstreamFails(r) ==
    /\ phase[r] = "asking" /\ Answer(r, "failed") /\ Goto(r, After(r))
    /\ IF kind[r] = "whole" THEN Release ELSE UNCHANGED free
    /\ UNCHANGED << server, starts, kind, flaws, left, client, stored >>

Put(r) ==
    /\ phase[r] = "building" /\ Goto(r, "stored")
    /\ stored' = stored \cup { r }
    /\ UNCHANGED << server, starts, free, kind, flaws, left, client, sent >>

\* mutant: a store that fails is passed over
PutFailsUnseen(r) ==
    /\ phase[r] = "building" /\ Goto(r, "stored")
    /\ UNCHANGED << server, starts, free, kind, flaws, left, client, sent, stored >>

\* mutant: a store that fails ends the request without an answer
PutFailsSilently(r) ==
    /\ phase[r] = "building" /\ Goto(r, After(r))
    /\ UNCHANGED << server, starts, free, kind, flaws, left, client, sent, stored >>

PutFails(r) ==
    /\ phase[r] = "building" /\ Answer(r, "failed") /\ Goto(r, After(r))
    /\ UNCHANGED << server, starts, free, kind, flaws, left, client, stored >>

Complete(r) ==
    /\ phase[r] = "stored" /\ Answer(r, "completed") /\ Goto(r, After(r))
    /\ UNCHANGED << server, starts, free, kind, flaws, left, client, stored >>

\* the task of a stream returns, after its client has heard the end of it
TaskReturns(r) ==
    /\ phase[r] = "closing" /\ Release /\ Goto(r, "done")
    /\ UNCHANGED << server, starts, kind, flaws, left, client, sent, stored >>

ListProject(r) ==
    /\ phase[r] = "listing" /\ left' = [ left EXCEPT ![r] = @ - 1 ]
    /\ IF left[r] = 1 THEN Answer(r, "listed") /\ Goto(r, "done") ELSE UNCHANGED << phase, sent >>
    /\ UNCHANGED << server, starts, free, kind, flaws, client, stored >>

ListFails(r) ==
    /\ phase[r] = "listing" /\ Answer(r, "failed") /\ Goto(r, "done")
    /\ UNCHANGED << server, starts, free, kind, flaws, left, client, stored >>

Handle(r) ==
    \/ Reject(r) \/ Models(r) \/ Spawn(r) \/ TryAcquire(r) \/ LimitReached(r)
    \/ UpstreamFails(r) \/ Put(r) \/ PutFails(r) \/ Complete(r) \/ TaskReturns(r)
    \/ ListProject(r) \/ ListFails(r)

------------------------------------------------------------------------------
(* The process *)

\* what the handlers and tasks were doing is gone, and the permits with it
Halt(r) == IF phase[r] = "idle" /\ client[r] = "idle" THEN "idle" ELSE "done"

Ended == /\ server' = "stopped" /\ free' = Capacity
         /\ phase' = [ r \in Requests |-> Halt(r) ]
         /\ UNCHANGED << starts, kind, flaws, left, sent, stored >>

CtrlC ==
    /\ server = "running" /\ server' = "stopping"
    /\ UNCHANGED << starts, free, kind, flaws, phase, left, client, sent, stored >>

\* no connection is open, and no task is between two awaits; a task whose client
\* has gone does not count, and is dropped where it waits
Stop ==
    /\ server = "stopping"
    /\ \A r \in Requests : client[r] # "waiting" /\ (client[r] = "answered" => phase[r] = "done")
    /\ \A r \in Requests : phase[r] \notin { "building", "stored", "closing" }
    /\ Ended /\ UNCHANGED client

Crash ==
    /\ server # "stopped" /\ Ended
    /\ client' = [ r \in Requests |-> IF client[r] = "waiting" THEN "cut" ELSE client[r] ]

Start ==
    /\ server = "stopped" /\ starts < MaxStarts
    /\ server' = "running" /\ starts' = starts + 1
    /\ UNCHANGED << free, kind, flaws, phase, left, client, sent, stored >>

Next ==
    \/ \E r \in Requests, k \in Kinds, f \in FlawSets : SendRequest(r, k, f)
    \/ \E r \in Requests : Deliver(r) \/ Disconnect(r) \/ Cancel(r) \/ UpstreamAnswers(r) \/ Handle(r)
    \/ CtrlC \/ Stop \/ Crash \/ Start

Spec == Init /\ [][Next]_vars

\* the runtime polls handlers and tasks, the network delivers or the connection
\* breaks, and the timeout of the HTTP client ends every upstream request
FairSpec ==
    /\ Spec /\ WF_vars(Stop)
    /\ \A r \in Requests : WF_vars(Handle(r)) /\ WF_vars(Deliver(r))
------------------------------------------------------------------------------
(* Properties *)

\* every variable has its type; the semaphore never has more permits than it was
\* made with
TypeOK ==
    /\ server \in { "running", "stopping", "stopped" } /\ starts \in 1 .. MaxStarts
    /\ free \in 0 .. Capacity
    /\ kind \in [ Requests -> Kinds ] /\ flaws \in [ Requests -> FlawSets \cup { {} } ]
    /\ phase \in [ Requests -> Phases ] /\ left \in [ Requests -> 0 .. Projects ]
    /\ client \in [ Requests -> { "idle", "waiting", "answered", "gone", "cut" } ]
    /\ sent \in [ Requests -> Answers ] /\ stored \subseteq Requests

\* a client that is told of a completed response finds it in the store, also after
\* the server was killed between the two (build_response, finalize): the id it was
\* given can be continued
ToldIsStored == \A r \in Requests : sent[r] = "completed" => r \in stored

\* a request without a valid token is told nothing but what is wrong with its own
\* text: not whether its project is loaded or what the store holds; and it reaches
\* neither the store nor an upstream (the order of the checks in responses).  A
\* server with no token but empty ones has no valid token for anybody, and refuses
\* every request (server.rs:626), although README.md:136 says that authorisation is
\* skipped then: EmptyTokenSkipsAuth of ProjectRegistry is about that
OnlyAuthorised == \A r \in Requests : "token" \in flaws[r] =>
    /\ sent[r] \in { Unsent, "body", "model", "route", "token" }
    /\ phase[r] \in { "idle", "done" } /\ r \notin stored

\* the semaphore does its duty: requests with an upstream call, and streams that
\* have not ended, never exceed the limit, and nobody is refused while there is
\* room, however clients go away, upstreams fail and the process ends.  Lists of
\* models are not counted: they ask the upstream without a permit
Limiter == INSTANCE Admission WITH
    busy <- Holders, refused <- { r \in Requests : sent[r] = "busy" }

ImplementsAdmission == Limiter!Spec

\* every client is answered or knows that its connection broke: no handler and no
\* task waits for ever, even when the permits are gone
Answered == \A r \in Requests : (client[r] = "waiting") ~> (client[r] # "waiting")

\* every permit comes back, also that of a stream whose client has gone and of a
\* handler that was dropped at its await
PermitsReturn == \A r \in Requests : (r \in Holders) ~> (r \notin Holders)

\* after Ctrl-C the server ends: clients that stay do not hold it up for ever
Stops == (server = "stopping") ~> (server = "stopped")
==============================================================================
