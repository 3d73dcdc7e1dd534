------------------------------ MODULE StreamTask ------------------------------
(***************************************************************************)
(* The task that serves one streamed /v1/responses request: the body of    *)
(* tokio::spawn in stream_response of src/server.rs, which reads the       *)
(* upstream's server-sent events and drives a StreamAssembler.             *)
(*                                                                         *)
(* The task takes one step per thing the upstream does.  A JSON chunk is   *)
(* fed to the assembler part by part (reasoning, content, one tool call    *)
(* delta, finish reason), which is the order and the granularity in which  *)
(* accept goes through it.  Sending to the client cannot fail: the channel *)
(* is unbounded and the result of send is ignored.                         *)
(***************************************************************************)
EXTENDS ResponseBuilder

CONSTANTS
    ReasoningParts,   \* texts of reasoning deltas
    ContentParts,     \* texts of content deltas
    ArgumentParts,    \* texts of argument deltas
    FinishReasons,    \* the finish reasons an upstream gives
    ToolsDeclared,    \* the values of "the request declares tools" to consider
    Orderly,          \* whether the upstream keeps to the order of OrderlyPart
    MaxParts          \* bound: the number of parts an upstream sends

ASSUME PartsAssumption ==
    /\ ReasoningParts \subseteq Text \ { << >> }
    /\ ContentParts \subseteq Text \ { << >> }
    /\ ArgumentParts \subseteq Text
    /\ FinishReasons \subseteq { "stop", "length", "content_filter" }
    /\ ToolsDeclared \subseteq BOOLEAN
    /\ Orderly \in BOOLEAN
    /\ MaxParts \in Nat

VARIABLES
    phase,   \* "spawned", "connecting", "reading" or "ended"
    a,       \* the assembler
    done,    \* the [DONE] line was sent
    heard    \* history: what the upstream sent

vars == << phase, a, done, heard >>

(***************************************************************************)
(* What was heard: the concatenated content, reasoning and arguments of    *)
(* each call, whether a "tool_calls" array or a finish reason was among    *)
(* it, how many parts there were and how the upstream ended.               *)
(***************************************************************************)
Heard ==
    [ content : Text, reasoning : Text, args : [ Indices -> Text ],
      tools : BOOLEAN, finish : BOOLEAN, parts : Nat,
      end : { "open", "refused", "done", "eof", "error" } ]

Init ==
    /\ phase = "spawned"
    /\ \E buffered \in ToolsDeclared : a = NewAssembler(buffered)
    /\ done = FALSE
    /\ heard = [ content |-> << >>, reasoning |-> << >>,
                 args |-> [ k \in Indices |-> << >> ], tools |-> FALSE,
                 finish |-> FALSE, parts |-> 0, end |-> "open" ]

\* The task ends: the assembler's last state, [DONE], and the permit is dropped.
End(b, how) ==
    /\ a' = b
    /\ phase' = "ended"
    /\ done' = TRUE
    /\ heard' = [ heard EXCEPT !.end = how ]

------------------------------------------------------------------------------
(***************************************************************************)
(* Start: response.created is emitted, then a permit is tried for.         *)
(***************************************************************************)
Admitted ==
    /\ phase = "spawned"
    /\ phase' = "connecting"
    /\ UNCHANGED << a, done, heard >>

Refused ==
    /\ phase = "spawned"
    /\ End(Fail(a), "refused")

\* chat_stream returns a stream, or an error (HTTP status, connection, timeout)
Connected ==
    /\ phase = "connecting"
    /\ phase' = "reading"
    /\ UNCHANGED << a, done, heard >>

ConnectFailed ==
    /\ phase = "connecting"
    /\ End(Fail(a), "error")

------------------------------------------------------------------------------
(***************************************************************************)
(* The parts of a chunk.  An orderly upstream sends its reasoning before   *)
(* its content and its content before its tool calls, calls tools only if  *)
(* some were declared, and by names that are not blank, gives each call an *)
(* id of its own and gives a call its id and name before it goes on to the *)
(* next one.                                                               *)
(***************************************************************************)
Hear(b, part) ==
    /\ phase = "reading"
    /\ heard.parts < MaxParts
    /\ heard' = [ part EXCEPT !.parts = @ + 1 ]
    /\ a' = b
    /\ UNCHANGED << phase, done >>

ReasoningPart == \E t \in ReasoningParts :
    /\ Orderly => heard.content = << >> /\ ~heard.tools
    /\ Hear(AcceptReasoning(a, t), [ heard EXCEPT !.reasoning = @ \o t ])

ContentPart == \E t \in ContentParts :
    /\ Orderly => ~heard.tools
    /\ Hear(AcceptContent(a, t), [ heard EXCEPT !.content = @ \o t ])

HeardArguments(k, args) == [ heard.args EXCEPT ![k] = heard.args[k] \o args ]

ToolIds == { NoId } \cup { Chosen(i) : i \in CallIds }

ToolPart ==
    \E k \in Indices, id \in ToolIds, name \in Names \cup { Absent }, args \in ArgumentParts :
        /\ Orderly => /\ a.buffered /\ name \notin BlankNames
                      /\ \A j \in Indices : j < k => a.calls[j].added
                      /\ \A j \in Indices \ { k } : id # NoId => a.calls[j].id # id
        /\ Hear(AcceptToolDelta(BeginTools(a), k, id, name, args),
                [ heard EXCEPT !.tools = TRUE, !.args = HeardArguments(k, args) ])

\* An empty "tool_calls" array, or an element without an index.
EmptyToolPart ==
    /\ ~Orderly
    /\ Hear(BeginTools(a), [ heard EXCEPT !.tools = TRUE ])

FinishPart == \E reason \in FinishReasons :
    Hear(AcceptFinish(a, reason), [ heard EXCEPT !.finish = TRUE ])

------------------------------------------------------------------------------
(***************************************************************************)
(* The ends of an upstream stream.                                         *)
(***************************************************************************)

\* "data: [DONE]"
UpstreamDone == \E ok \in BOOLEAN :
    /\ phase = "reading"
    /\ End(Finalize(a, ok), "done")

\* "event: error", a JSON error object, or data that is not JSON
UpstreamError ==
    /\ phase = "reading"
    /\ End(Fail(a), "error")

\* Reading the body fails: the connection broke, or the request timed out.
ReadFailed ==
    /\ phase = "reading"
    /\ End(Fail(a), "error")

\* The body ends without [DONE].
EndOfBody == \E ok \in BOOLEAN :
    /\ phase = "reading"
    /\ \/ /\ a.finish # Absent
          /\ End(Finalize(a, ok), "eof")
       \/ /\ a.finish = Absent
          /\ HasSubstance(a)
          /\ End(Finalize(MarkTruncated(a), ok), "eof")
       \/ /\ a.finish = Absent
          /\ ~HasSubstance(a)
          /\ End(Fail(a), "eof")

Ended == phase = "ended" /\ UNCHANGED vars

Next ==
    \/ Admitted \/ Refused
    \/ Connected \/ ConnectFailed
    \/ ReasoningPart \/ ContentPart \/ ToolPart \/ EmptyToolPart \/ FinishPart
    \/ UpstreamDone \/ UpstreamError \/ ReadFailed \/ EndOfBody
    \/ Ended

(***************************************************************************)
(* The runtime polls the task, and the total timeout of the HTTP client    *)
(* ends every request, in flight or streaming.  Nothing is assumed of the  *)
(* upstream.                                                               *)
(***************************************************************************)
Fairness ==
    /\ WF_vars(Admitted \/ Refused)
    /\ WF_vars(ConnectFailed)
    /\ WF_vars(ReadFailed)

Spec == Init /\ [][Next]_vars
FairSpec == Spec /\ Fairness

------------------------------------------------------------------------------
(***************************************************************************)
(* Properties                                                              *)
(***************************************************************************)
Success == { "completed", "incomplete" }

Shown  == DOMAIN a.out
Closed(i) == a.out[i].closed > 0

TypeOK ==
    /\ phase \in { "spawned", "connecting", "reading", "ended" }
    /\ AssemblerType(a)
    /\ done \in BOOLEAN
    /\ heard \in Heard

(***************************************************************************)
(* Every output_index stands for one item of the response: the reasoning,  *)
(* the message, or one tool call, and each of those has one index, which   *)
(* is the one the assembler sends its deltas to.  An index given out twice *)
(* or an item announced twice would leave Codex with a call it cannot      *)
(* close.                                                                  *)
(***************************************************************************)
OneItemPerIndex == OwnIndices(a)

(***************************************************************************)
(* No item is closed twice, although finish_reasoning_item and             *)
(* finish_text_item are reached from several places (a tool call, the      *)
(* first text, finalize) and finalize may be followed by fail.             *)
(***************************************************************************)
ClosedAtMostOnce == \A i \in Shown : a.out[i].closed <= 1

(***************************************************************************)
(* What a client that adds up the deltas of a call has when the call is    *)
(* closed is what the done event says, up to the white space that the      *)
(* canonical form drops; a call announced only by finalize has no deltas.  *)
(***************************************************************************)
ClosedCallsExact ==
    \A i \in Shown : Closed(i) /\ a.out[i].kind = "call" =>
        a.out[i].text = << >> \/ Canonical(a.out[i].text) = a.out[i].final

(***************************************************************************)
(* The same for reasoning and message items, exactly: no delta is lost,    *)
(* sent twice or sent after the item was closed.  This needs an orderly    *)
(* upstream: reasoning that comes after the text began is sent as a delta  *)
(* of an item that is already closed.                                      *)
(***************************************************************************)
ClosedTextExact ==
    \A i \in Shown : Closed(i) /\ a.out[i].kind # "call" =>
        a.out[i].text = a.out[i].final

(***************************************************************************)
(* When the stream ends in success no item is left open, but for the text  *)
(* of a request that declared no tools and was answered with a tool call   *)
(* anyway, which finalize leaves out of the response.                      *)
(***************************************************************************)
SuccessClosesItems ==
    a.terminal \in Success =>
        \A i \in Shown : \/ Closed(i)
                         \/ a.out[i].kind = "message" /\ ~a.buffered /\ HasToolOutput(a)

(***************************************************************************)
(* With tools declared the client never sees both a message and a call of  *)
(* a tool: text is held back until it is known that no call follows.  Two  *)
(* tests of a name have to agree for this: has_tool_output trims it (701), *)
(* while a call is announced and closed for any name that is not empty     *)
(* (616, 235).  So a call with a name of white space, which is no tool's,  *)
(* is shown together with the message.                                     *)
(***************************************************************************)
CallsSuppressMessage ==
    a.buffered => ~ \E i, j \in Shown :
        /\ a.out[i].kind = "message" /\ a.out[j].kind = "call"
        /\ a.calls[a.out[j].key].name \notin BlankNames

(***************************************************************************)
(* The output array of the terminal event and the items of the stream      *)
(* agree: the item at position n of the array is the one that was          *)
(* announced with output_index n, and it was closed with the same text.    *)
(* Calls are announced as they come but listed by key, a call without an   *)
(* id is announced last, and a message beside calls with blank names is    *)
(* announced after them but listed before, so this needs an orderly        *)
(* upstream.                                                               *)
(***************************************************************************)
ResponseMirrorsStream ==
    a.terminal \in Success =>
        /\ Shown = { r.pos : r \in a.response }
        /\ \A r \in a.response :
             LET item == a.out[r.pos]
             IN  item.kind = r.kind /\ item.key = r.key /\ item.final = r.text

(***************************************************************************)
(* Whatever the upstream does, the calls of the response are the calls the *)
(* client was shown, each closed with the arguments the response gives.    *)
(***************************************************************************)
CallsDelivered ==
    a.terminal \in Success =>
        { << r.key, r.text >> : r \in { x \in a.response : x.kind = "call" } }
        = { << a.out[i].key, a.out[i].final >> :
              i \in { j \in Shown : a.out[j].kind = "call" /\ Closed(j) } }

(***************************************************************************)
(* The response is stored for a continuation exactly when the client is    *)
(* told that it succeeded, and the ids stored as awaiting an output are    *)
(* the ids under which the calls were announced: an id that changes after  *)
(* the announcement must not change what is awaited.                       *)
(***************************************************************************)
StoredAsDelivered ==
    /\ a.stored # {} <=> a.terminal \in Success
    /\ \A s \in a.stored :
         { << k, s.pending[k] >> : k \in DOMAIN s.pending }
         = { << a.out[i].key, a.out[i].id >> : i \in { j \in Shown : a.out[j].kind = "call" } }

(***************************************************************************)
(* An upstream body that just stops, without a finish reason and without   *)
(* [DONE], is never reported as a completed response.                      *)
(***************************************************************************)
TruncationReported ==
    heard.end = "eof" /\ ~heard.finish => a.terminal # "completed"

(***************************************************************************)
(* An orderly upstream that cuts its answer into deltas gets the response  *)
(* and the stored record that build_response makes of the same answer in   *)
(* one piece: the same calls under the same ids, the same reasoning and    *)
(* the same message, a message only where there is no call.  Items of      *)
(* white space and the white space around a think block are not compared;  *)
(* without a block everything is the same to the letter.                   *)
(*                                                                         *)
(* The two ways of answering do differ, and the property says where.  A    *)
(* think block that is never closed: build_response takes the tag for      *)
(* text, the stream takes the rest for reasoning.  A call without a field  *)
(* "arguments": build_response gives it "{}", the stream gives it "", so   *)
(* every call of which no argument was heard is compared both as a call    *)
(* with empty arguments and as one without the field (bare).  Left out are *)
(* a closing tag that white space breaks ("< /think>": if a delta ends in  *)
(* that white space the stream trims it, and sees a tag) and calls with    *)
(* blank names, beside which only the stream gives the message.            *)
(***************************************************************************)
Whole(bare) ==
    [ content |-> heard.content, reasoning |-> heard.reasoning, bare |-> bare,
      calls |-> [ k \in Indices |-> [ a.calls[k] EXCEPT !.args = heard.args[k] ] ] ]

Argumentless == { k \in BuiltCalls(a) : heard.args[k] = << >> }

\* output with "{}" for the empty arguments of the calls in bare
Filled(output, bare) ==
    { IF r.key \in bare /\ r.text = << >> THEN [ r EXCEPT !.text = << "{", "}" >> ] ELSE r :
        r \in output }

NeverClosed == heard.reasoning = << >> /\ HasOpen(heard.content) /\ ~HasBlock(heard.content)

Shape(output) == { s \in { << r.kind, r.key, Words(r.text) >> : r \in output } :
                     s[1] = "call" \/ s[3] # << >> }

StreamedAsWhole ==
    a.terminal \in Success /\ ~BrokenClose(heard.content) =>
        IF NeverClosed
        THEN Words(a.reasoning) = Words(AfterOpen(heard.content)) /\ a.content = << >>
        ELSE \A bare \in SUBSET Argumentless :
               /\ Shape(Filled(a.response, bare)) = Shape(BuiltOutput(Whole(bare)))
               /\ \A s \in a.stored : LET b == BuiltRecord(Whole(bare)) IN
                    /\ s.pending = b.pending
                    /\ Words(s.reasoning) = Words(b.reasoning) /\ Words(s.content) = Words(b.content)
                    /\ Splits(Whole(bare)) \/ s = b

\* The assembler keeps to what the client of a stream may rely on.
Client == INSTANCE ResponsesStream WITH
            items <- [ i \in Shown |-> [ kind |-> a.out[i].kind, key |-> a.out[i].key,
                                         text |-> a.out[i].text, closed |-> Closed(i) ] ],
            terminal <- a.terminal

ImplementsResponsesStream == Client!Spec

\* Every request is answered to the end: a terminal event and [DONE].
Ends == <> (done /\ a.terminal # Absent)
==============================================================================
