----------------------------- MODULE ToolHistory -----------------------------
(***************************************************************************)
(* The continuation of tool calls: one project's StateStore (src/state.rs) *)
(* and the requests that look into it (previous_response of src/server.rs, *)
(* build_chat_payload) and add to it (state_put, at the end of finalize    *)
(* and of build_response).                                                 *)
(*                                                                         *)
(* Requests overlap: a request reads the store when it arrives and writes  *)
(* it when the upstream has answered.  The server may restart at any time  *)
(* and keeps the store, which is a SQLite file.  Responses are numbered by *)
(* the request they answer (the code draws a UUID).                        *)
(*                                                                         *)
(* The client keeps its conversation and continues any response it has, as *)
(* often as it likes, in one of the ways Codex does; see Continuations.    *)
(***************************************************************************)
EXTENDS ChatHistory, FiniteSets

CONSTANTS
    TTL,          \* CODEX_OPENCODE_STATE_TTL_SECONDS
    IdsGiven,     \* whether the upstream gives its calls ids, each a new one
    MaxCalls,     \* bound: the number of calls in one response
    MaxRequests,  \* bound: the number of requests
    MaxTime       \* bound: the clock

ASSUME BoundsAssumption ==
    /\ TTL \in Nat /\ MaxCalls \in Nat /\ MaxRequests \in Nat /\ MaxTime \in Nat
    /\ IdsGiven \in BOOLEAN

VARIABLES
    store,    \* the stored responses, by number
    flights,  \* the requests sent upstream and not answered yet, by number
    now,      \* the clock, in the unit of created_at
    sent,     \* the number of requests so far
    known,    \* the client: the conversation up to each response it has, and its calls;
              \* whole: no history was left out on the way to it
    last      \* history: the last request, and what became of it

vars == << store, flights, now, sent, known, last >>

NoResponse == 0
Unknown    == -1     \* an id no response was ever given

Nothing == [ items |-> << >>, calls |-> << >>, whole |-> TRUE ]

Idle == [ accepted |-> FALSE, way |-> "none", prev |-> NoResponse, found |-> NoResponse,
          from |-> NoResponse, new |-> << >>, messages |-> << >>, whole |-> FALSE ]

Init ==
    /\ store = << >>
    /\ flights = << >>
    /\ now = 0
    /\ sent = 0
    /\ known = [ r \in { NoResponse } |-> Nothing ]
    /\ last = Idle

------------------------------------------------------------------------------
(***************************************************************************)
(* The store.                                                              *)
(***************************************************************************)

\* StateStore::get finds the response
Live(r) == r \in DOMAIN store /\ store[r].created >= now - TTL

(***************************************************************************)
(* StateStore::find_by_call_ids: the one live response that awaits all the *)
(* ids, if no other live response awaits any of them.                      *)
(***************************************************************************)
Find(ids) ==
    LET Awaiting(S) == { r \in DOMAIN store : Live(r) /\ S \cap store[r].pending # {} }
        all == { r \in Awaiting(ToSet(ids)) : ToSet(ids) \subseteq store[r].pending }
    IN  IF /\ \A id \in ToSet(ids) : Cardinality(Awaiting({ id })) = 1
           /\ all # {}
        THEN CHOOSE r \in all : TRUE
        ELSE NoResponse

(***************************************************************************)
(* previous_response: the stored response a request continues, and whether *)
(* the request may go on.  A named response that is not found is an error  *)
(* only if there are outputs.                                              *)
(***************************************************************************)
Previous(prev, ids) ==
    CASE prev # NoResponse                -> IF Live(prev) THEN prev ELSE NoResponse
      [] prev = NoResponse /\ ids # << >> -> Find(ids)
      [] OTHER                            -> NoResponse

Resolves(prev, ids) ==
    /\ IsInjective(ids)
    /\ ids # << >> =>
         /\ Previous(prev, ids) # NoResponse
         /\ ToSet(ids) \subseteq store[Previous(prev, ids)].pending

------------------------------------------------------------------------------
(***************************************************************************)
(* The ways to continue response r: new is the outputs of some of its      *)
(* calls, a message of the user, or both.                                  *)
(*   chained    names r and sends what is new                              *)
(*   repeated   names r and repeats everything since the last output       *)
(*   bare       names nothing and sends what is new                        *)
(*   rewritten  names something else and sends what is new                 *)
(*   stateless  names nothing and sends the whole conversation             *)
(***************************************************************************)
Recent(items) == SubSeq(items, LastAnswer(items) + 1, Len(items))

Continuations(r, new) ==
    LET answers == AnswersOf(new) # << >>
        whole == [ way |-> "stateless", prev |-> NoResponse, items |-> known[r].items \o new ]
        chained == [ way |-> "chained", prev |-> r, items |-> new ]
    IN  IF r = NoResponse THEN { whole }
        ELSE IF ~answers  THEN { whole, chained }
        ELSE { whole, chained,
               [ way |-> "repeated",  prev |-> r,
                 items |-> Recent(known[r].items) \o new ],
               [ way |-> "bare",      prev |-> NoResponse, items |-> new ],
               [ way |-> "rewritten", prev |-> Unknown,    items |-> new ] }

Results(cs) == [ n \in DOMAIN cs |-> Answer(cs[n]) ]

News(r) ==
    { Results(cs) \o tail :
        cs \in SetToAllKPermutations(ToSet(known[r].calls)), tail \in { << >>, << Said >> } }
    \ { << >> }

\* what the map f has, with y for x
With(f, x, y) == [ z \in DOMAIN f \cup { x } |-> IF z = x THEN y ELSE f[z] ]

\* responses() up to the call of the upstream
Ask(r, new, body) ==
    LET ids   == LookupIds(body.prev # NoResponse, body.items)
        found == IF Resolves(body.prev, ids) THEN Previous(body.prev, ids) ELSE NoResponse
        base  == IF found = NoResponse THEN << >> ELSE store[found].messages
        ok    == /\ Resolves(body.prev, ids)
                 /\ Acceptable(found # NoResponse, base, body.items)
        messages == Payload(found # NoResponse, base, body.items)
        whole == body.way = "stateless" \/ (known[r].whole /\ found # NoResponse)
    IN  /\ sent < MaxRequests
        /\ sent' = sent + 1
        /\ last' = [ accepted |-> ok, from |-> r, found |-> found, new |-> new,
                     way |-> body.way, prev |-> body.prev,
                     messages |-> IF ok THEN messages ELSE << >>, whole |-> whole ]
        /\ flights' = IF ok
                      THEN With(flights, sent + 1,
                                [ messages |-> messages, started |-> now,
                                  talk |-> known[r].items \o new, whole |-> whole ])
                      ELSE flights
        /\ UNCHANGED << store, now, known >>

Request == \E r \in DOMAIN known : \E new \in News(r) : \E body \in Continuations(r, new) :
    Ask(r, new, body)

------------------------------------------------------------------------------
Drop(n) == flights' = [ m \in DOMAIN flights \ { n } |-> flights[m] ]

\* The id of the i-th call of response n: the upstream's, or "call_{index}".
IdOf(n, i) == IF IdsGiven THEN << n, i >> ELSE << 0, i >>

NewCalls(n, count) == [ i \in 1..count |-> [ id |-> IdOf(n, i), from |-> n ] ]

Reply(calls) ==
    IF calls = << >> THEN << Spoken >> ELSE [ i \in DOMAIN calls |-> Made(calls[i]) ]

\* mutant: milliseconds
CreatedInMillis(n) == { flights[n].started, 1000 * now }

\* A streamed response bears the time at which its stream was set up, any other
\* the time at which it was built.
Created(n) == { flights[n].started, now }

\* mutant: the answer itself is left out of the history
RecordAsked(n, calls, created) ==
    [ created |-> created, messages |-> flights[n].messages,
      pending |-> { c.id : c \in ToSet(calls) } ]

\* the StoredResponse
Record(n, calls, created) ==
    [ created |-> created, messages |-> Append(flights[n].messages, Assistant(calls)),
      pending |-> { c.id : c \in ToSet(calls) } ]

\* The upstream has answered: the response is stored, and the client gets it
\* unless it went away.
Answered(n, calls) ==
    /\ \E created \in Created(n) : store' = With(store, n, Record(n, calls, created))
    /\ \/ known' = With(known, n, [ items |-> flights[n].talk \o Reply(calls),
                                    calls |-> calls, whole |-> flights[n].whole ])
       \/ known' = known
    /\ Drop(n)
    /\ UNCHANGED << now, sent, last >>

Respond == \E n \in DOMAIN flights : \E count \in 0..MaxCalls : Answered(n, NewCalls(n, count))

\* The upstream or state_put fails: nothing is stored.
Fail == \E n \in DOMAIN flights :
    /\ Drop(n)
    /\ UNCHANGED << store, now, sent, known, last >>

Restart ==
    /\ flights # << >>
    /\ flights' = << >>
    /\ UNCHANGED << store, now, sent, known, last >>

Tick ==
    /\ now < MaxTime
    /\ now' = now + 1
    /\ last' = Idle
    /\ UNCHANGED << store, flights, sent, known >>

Next == Request \/ Respond \/ Fail \/ Restart \/ Tick

Spec == Init /\ [][Next]_vars

------------------------------------------------------------------------------
(***************************************************************************)
(* Properties                                                              *)
(***************************************************************************)
TypeOK ==
    /\ now \in 0..MaxTime /\ sent \in 0..MaxRequests
    /\ DOMAIN store \subseteq 1..sent /\ DOMAIN flights \subseteq (1..sent) \ DOMAIN store
    /\ DOMAIN known \subseteq DOMAIN store \cup { NoResponse }
    /\ \A r \in DOMAIN store :
         /\ store[r].created \in 0..now
         /\ \A m \in ToSet(store[r].messages) : m.role \in { "user", "assistant", "tool" }
    /\ \A n \in DOMAIN flights : flights[n].started \in 0..now

\* The conversation the last request belongs to, with what was new in it.
Talk == known[last.from].items \o last.new

\* Who spoke and which calls were made, in their order, but for the outputs.
ShapeOfMessages(messages) ==
    FlattenSeq([ n \in DOMAIN messages |->
        CASE messages[n].role = "user"      -> << NoCall >>
          [] messages[n].role = "assistant" -> messages[n].calls
          [] messages[n].role = "tool"      -> << >> ])

ShapeOfItems(items) ==
    FlattenSeq([ n \in DOMAIN items |->
        IF items[n].kind \in { "message", "call" } THEN << items[n].call >> ELSE << >> ])

\* the calls whose outputs are among the messages
ToolCalls(messages) ==
    FlattenSeq([ n \in DOMAIN messages |->
        IF messages[n].role = "tool" THEN messages[n].calls ELSE << >> ])

(***************************************************************************)
(* Whichever way a conversation is continued (from the store by name, from *)
(* the store by call ids, or from the items in the request), and whatever  *)
(* was retried, lost or restarted before, the upstream is sent the         *)
(* conversation the client has: every message and every call once, in      *)
(* order, and every output once.  A response that is named but has expired *)
(* is the exception: its history is silently left out, there and in what   *)
(* is chained to it.                                                       *)
(***************************************************************************)
SameConversation ==
    last.accepted /\ last.whole =>
        /\ ShapeOfMessages(last.messages) = ShapeOfItems(Talk)
        /\ Len(ToolCalls(last.messages)) = Len(AnswersOf(Talk))
        /\ ToSet(ToolCalls(last.messages)) = ToSet(AnswersOf(Talk))

(***************************************************************************)
(* An output stands behind the message that made its call, with nothing    *)
(* but other outputs in between, which is where upstreams want it.         *)
(***************************************************************************)
OutputsFollowCalls ==
    last.accepted => \A j \in DOMAIN last.messages : last.messages[j].role = "tool" =>
        \E i \in 1..(j - 1) :
            /\ last.messages[i].role = "assistant"
            /\ last.messages[j].calls[1] \in ToSet(last.messages[i].calls)
            /\ \A k \in (i + 1)..(j - 1) : last.messages[k].role = "tool"

(***************************************************************************)
(* A continuation of a response that is stored and has not expired is not  *)
(* refused, and one that brings the whole conversation along does not even *)
(* need the store.                                                         *)
(***************************************************************************)
ContinuationsAccepted ==
    \/ last.accepted
    \/ last.way \in { "none", "rewritten" }
    \/ last.way # "stateless" /\ ~Live(last.from)

(***************************************************************************)
(* The stored history of a response is the client's conversation up to it. *)
(***************************************************************************)
StoredHistoryIsKnown ==
    \A r \in DOMAIN known \ { NoResponse } :
        /\ known[r].whole =>
             ShapeOfMessages(store[r].messages) = ShapeOfItems(known[r].items)
        /\ store[r].pending = { c.id : c \in ToSet(known[r].calls) }

(***************************************************************************)
(* The outputs of all calls of a live response, sent under its name, are   *)
(* not refused.                                                            *)
(***************************************************************************)
ValidNameContinues ==
    last.way = "chained" /\ Live(last.from)
        /\ Len(AnswersOf(last.new)) = Len(known[last.from].calls) => last.accepted

(***************************************************************************)
(* The fallback by call ids never links an output to the wrong response.   *)
(***************************************************************************)
FallbackLinksRight ==
    last.accepted /\ last.way = "bare" => last.found = last.from
==============================================================================
