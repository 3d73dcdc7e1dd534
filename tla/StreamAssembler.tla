--------------------------- MODULE StreamAssembler ---------------------------
(***************************************************************************)
(* The StreamAssembler of src/conversion/stream_chat_to_responses.rs: the  *)
(* object that turns the deltas of a chat completion stream into the       *)
(* events of a Responses stream.                                           *)
(*                                                                         *)
(* The assembler is a record a, and every method of the Rust type is an    *)
(* operator from an assembler to the assembler it leaves behind.  Beside   *)
(* the fields of the Rust type the record has                              *)
(*   out       what the client has been told, by output_index: the kind of *)
(*             the item announced there, the concatenation of its deltas,  *)
(*             how many times it was closed and with which final text;     *)
(*   stored    the records handed to state_put (at most one);              *)
(*   response  the items of the output array of the terminal event, each   *)
(*             with its position.                                          *)
(* Identifiers of items, usage, timestamps and names of namespaces are     *)
(* left out.  A tool call that was never mentioned is a call with no id,   *)
(* no name and no arguments, which the code never tells apart.             *)
(***************************************************************************)
EXTENDS ThinkText

CONSTANTS
    Indices,      \* the values of a tool call delta's "index" field
    CallIds,      \* the call ids an upstream may choose
    PlainNames,   \* names of tools whose arguments are streamed
    CustomNames,  \* names of custom tools (their arguments are not streamed)
    BlankNames    \* names of white space only, which no declared tool has

ASSUME IndicesAssumption == Indices \subseteq Nat /\ IsFiniteSet(Indices)
ASSUME NamesAssumption   == PlainNames \cap CustomNames = {} /\ BlankNames \subseteq PlainNames

NoIndex == -1      \* an output_index that has not been allocated
NoKey   == -1      \* the key of an item that is not a tool call
Absent  == "absent" \* an empty id or name

ASSUME AbsentAssumption == Absent \notin PlainNames \cup CustomNames

Names == PlainNames \cup CustomNames

\* Upstream ids, and the "call_{index}" the adapter makes up when there is none.
Fallback(k) == << "call", k >>
Chosen(id)  == << "id", id >>
NoId        == << Absent >>

(***************************************************************************)
(* Arguments are sequences of the tokens "{", "}" and SP.  They parse as a *)
(* JSON object when only white space surrounds the two braces; the         *)
(* canonical form of a value that parses has no white space, and any other *)
(* text is kept as it is.  A custom tool's input is the string inside the  *)
(* object, or the arguments themselves when they do not parse.             *)
(***************************************************************************)
Parses(args) ==
    \E i, j \in Ink(args) :
        i < j /\ Ink(args) = { i, j } /\ args[i] = "{" /\ args[j] = "}"

Canonical(args) == IF Parses(args) THEN << "{", "}" >> ELSE args

CustomInput(args) ==
    IF IsBlank(args) THEN << >> ELSE IF Parses(args) THEN << "input" >> ELSE args

------------------------------------------------------------------------------

Ids == { NoId } \cup { Chosen(i) : i \in CallIds } \cup { Fallback(k) : k \in Indices }

Call == [ id : Ids, name : Names \cup { Absent }, args : Text,
          added : BOOLEAN, idx : Int ]

NewCall == [ id |-> NoId, name |-> Absent, args |-> << >>, added |-> FALSE, idx |-> NoIndex ]

\* StreamAssembler::new; buffered is "the request declares tools".
NewAssembler(buffered) ==
    [ content   |-> << >>,     reasoning |-> << >>,
      calls     |-> [ k \in Indices |-> NewCall ],
      finish    |-> Absent,    next      |-> 0,
      tIdx      |-> NoIndex,   rIdx      |-> NoIndex,
      tDone     |-> FALSE,     rDone     |-> FALSE,
      think     |-> "Detecting", buf     |-> << >>,
      buffered  |-> buffered,  terminal  |-> Absent,
      out       |-> << >>,     stored    |-> {},      response |-> {} ]

(***************************************************************************)
(* The three ways in which an event changes what the client knows.         *)
(***************************************************************************)

\* mutant: the index is not taken
AnnounceAgain(a, kind, key, id) ==
    [ a EXCEPT !.out = [ i \in DOMAIN @ \cup { a.next } |->
                           IF i = a.next
                           THEN [ kind |-> kind, key |-> key, id |-> id,
                                  text |-> << >>, closed |-> 0, final |-> << >> ]
                           ELSE @[i] ] ]

\* allocate_output_index and the output_item.added event for the new index
Announce(a, kind, key, id) ==
    [ a EXCEPT !.next = @ + 1,
               !.out = [ i \in DOMAIN @ \cup { a.next } |->
                           IF i = a.next
                           THEN [ kind |-> kind, key |-> key, id |-> id,
                                  text |-> << >>, closed |-> 0, final |-> << >> ]
                           ELSE @[i] ] ]

Delta(a, i, t) == [ a EXCEPT !.out[i].text = @ \o t ]

\* the ...done events of an item, which end with output_item.done
Close(a, i, t) ==
    LET b == [ a EXCEPT !.out[i].closed = @ + 1 ]
    IN  [ b EXCEPT !.out[i].final = t ]

(***************************************************************************)
(* Reasoning and text items.                                               *)
(***************************************************************************)

PushReasoning(a, t) ==
    LET b == IF a.rIdx = NoIndex
             THEN [ Announce(a, "reasoning", NoKey, NoId) EXCEPT !.rIdx = a.next ]
             ELSE a
    IN  IF t = << >> THEN a ELSE [ Delta(b, b.rIdx, t) EXCEPT !.reasoning = @ \o t ]

\* mutant: reasoning_done is not looked at
FinishReasoningAgain(a) ==
    IF a.rIdx = NoIndex THEN a
    ELSE [ Close(a, a.rIdx, a.reasoning) EXCEPT !.rDone = TRUE ]

FinishReasoning(a) ==
    IF a.rIdx = NoIndex \/ a.rDone
    THEN a
    ELSE [ Close(a, a.rIdx, a.reasoning) EXCEPT !.rDone = TRUE ]

EnsureTextStarted(a) ==
    LET b == FinishReasoning(a)
    IN  IF a.tIdx # NoIndex
        THEN a
        ELSE [ Announce(b, "message", NoKey, NoId) EXCEPT !.tIdx = b.next ]

PushText(a, t) ==
    LET b == EnsureTextStarted(a)
    IN  IF t = << >> THEN a
        ELSE IF a.buffered THEN [ a EXCEPT !.content = @ \o t ]
        ELSE [ Delta(b, b.tIdx, t) EXCEPT !.content = @ \o t ]

\* mutant: text that was held back is only in the done events
FinishTextSilently(a) ==
    LET b == EnsureTextStarted(a)
    IN  IF a.content = << >> \/ a.tDone THEN a
        ELSE [ Close(b, b.tIdx, b.content) EXCEPT !.tDone = TRUE ]

FinishText(a) ==
    LET b == EnsureTextStarted(a)
        c == IF b.buffered THEN Delta(b, b.tIdx, b.content) ELSE b
    IN  IF a.content = << >> \/ a.tDone
        THEN a
        ELSE [ Close(c, c.tIdx, c.content) EXCEPT !.tDone = TRUE ]

(***************************************************************************)
(* Detection of a leading <think> block in the content.                    *)
(***************************************************************************)

FlushThinkBuffer(a) ==
    LET b == [ a EXCEPT !.buf = << >>, !.think = "Done" ]
    IN  CASE a.think = "Detecting" -> IF a.buf = << >> THEN a ELSE PushText(b, a.buf)
          [] a.think = "InThink"   -> PushReasoning(b, a.buf)
          [] OTHER                 -> a

DisableThinkDetection(a) == [ FlushThinkBuffer(a) EXCEPT !.think = "Done" ]

\* the block is over: r was inside it and t follows it
LeaveThink(a, r, t) ==
    PushText([ PushReasoning(a, r) EXCEPT !.buf = << >>, !.think = "Done" ], t)

AcceptInThink(a, t) ==
    LET s == a.buf \o t
    IN  IF HasClose(s)
        THEN LeaveThink(a, BeforeClose(s), AfterClose(s))
        ELSE [ PushReasoning(a, Settled(s)) EXCEPT !.buf = Held(s) ]

DetectThink(a, s) ==
    IF HasBlock(s) THEN LeaveThink(a, BlockReasoning(s), BlockAnswer(s))
    ELSE IF HasOpen(s)
         THEN AcceptInThink([ a EXCEPT !.buf = << >>, !.think = "InThink" ], Trim(AfterOpen(s)))
    ELSE IF MayBecomeOpen(s) THEN [ a EXCEPT !.buf = s ]
    ELSE PushText([ a EXCEPT !.buf = << >>, !.think = "Done" ], s)

AcceptContent(a, t) ==
    CASE a.think = "Detecting" -> DetectThink(a, a.buf \o t)
      [] a.think = "InThink"   -> AcceptInThink(a, t)
      [] OTHER                 -> PushText(a, t)

AcceptReasoning(a, t) == PushReasoning(DisableThinkDetection(a), t)

(***************************************************************************)
(* Tool calls.                                                             *)
(***************************************************************************)

EmitArguments(a, k, t) ==
    IF a.calls[k].added /\ a.calls[k].name \notin CustomNames
    THEN Delta(a, a.calls[k].idx, t)
    ELSE a

\* call after its item was announced at index i under the given id
Announced(call, id, i) ==
    [ id |-> id, name |-> call.name, args |-> call.args, added |-> TRUE, idx |-> i ]

EnsureToolStarted(a, k) ==
    LET b == FinishReasoning(IF a.buffered THEN a ELSE FinishText(a))
        c == [ Announce(b, "call", k, b.calls[k].id)
               EXCEPT !.calls[k] = Announced(b.calls[k], b.calls[k].id, b.next) ]
    IN  IF a.calls[k].added \/ a.calls[k].id = NoId \/ a.calls[k].name = Absent
        THEN a
        ELSE EmitArguments(c, k, c.calls[k].args)

\* mutant: the arguments that came with the announcement are sent twice
AcceptToolDeltaTwice(a, k, id, name, args) ==
    LET was == a.calls[k]
        now == [ id    |-> IF id # NoId /\ ~was.added THEN id ELSE was.id,
                 name  |-> IF name # Absent /\ ~was.added THEN name ELSE was.name,
                 args  |-> was.args \o args,
                 added |-> was.added,
                 idx   |-> was.idx ]
    IN  EmitArguments(EnsureToolStarted([ a EXCEPT !.calls[k] = now ], k), k, args)

\* mutant: an id is taken over after the announcement too
AcceptToolDeltaLateId(a, k, id, name, args) ==
    LET was == a.calls[k]
        now == [ id    |-> IF id # NoId THEN id ELSE was.id,
                 name  |-> IF name # Absent /\ ~was.added THEN name ELSE was.name,
                 args  |-> was.args \o args,
                 added |-> was.added,
                 idx   |-> was.idx ]
        b   == EnsureToolStarted([ a EXCEPT !.calls[k] = now ], k)
    IN  IF was.added THEN EmitArguments(b, k, args) ELSE b

\* One delta for call k; an id or name is ignored once the call was announced.
AcceptToolDelta(a, k, id, name, args) ==
    LET was == a.calls[k]
        now == [ id    |-> IF id # NoId /\ ~was.added THEN id ELSE was.id,
                 name  |-> IF name # Absent /\ ~was.added THEN name ELSE was.name,
                 args  |-> was.args \o args,
                 added |-> was.added,
                 idx   |-> was.idx ]
        b   == EnsureToolStarted([ a EXCEPT !.calls[k] = now ], k)
    IN  IF was.added THEN EmitArguments(b, k, args) ELSE b

\* mutant: the reasoning item is left open
BeginToolsUnfinished(a) == FlushThinkBuffer(a)

\* What a "tool_calls" array does before its elements are looked at.
BeginTools(a) == FinishReasoning(FlushThinkBuffer(a))

AcceptFinish(a, reason) == [ a EXCEPT !.finish = reason ]

\* mutants: the missing finish reason is not noticed, or given a name of its own
LeaveUnmarked(a) == a
MarkTruncatedAnew(a) == [ a EXCEPT !.finish = IF @ = Absent THEN "truncated" ELSE @ ]

MarkTruncated(a) == [ a EXCEPT !.finish = IF @ = Absent THEN "length" ELSE @ ]

(***************************************************************************)
(* The end of a stream.                                                    *)
(*                                                                         *)
(* finalize goes over the calls in the order of their keys: each call that *)
(* has a name is announced if it was not, and closed.  Here the loop is    *)
(* written in closed form: the n-th call it has to announce gets the n-th  *)
(* output_index from a.next on.                                            *)
(***************************************************************************)
Named(a)       == { k \in Indices : a.calls[k].name # Absent }
Unannounced(a) == { k \in Named(a) : ~a.calls[k].added }

\* has_tool_output trims the name, while the other tests of a name do not
HasToolOutput(a) == \E k \in Named(a) : a.calls[k].name \notin BlankNames

Rank(S, k) == Cardinality({ j \in S : j < k })

Place(a, k) == IF a.calls[k].added THEN a.calls[k].idx ELSE a.next + Rank(Unannounced(a), k)

\* The id under which the call's output is awaited.
FinalId(a, k) == IF a.calls[k].id = NoId THEN Fallback(k) ELSE a.calls[k].id

\* The content of the call's item in the response, and in its done events.
FinalArguments(call) ==
    IF call.name \in CustomNames
    THEN CustomInput(Canonical(call.args))
    ELSE Canonical(call.args)

\* mutant: the done events carry the arguments as they came
ClosedCallRaw(a, k) ==
    LET call == a.calls[k]
        told == IF call.added THEN a.out[call.idx].text ELSE << >>
        was  == IF call.added THEN a.out[call.idx].closed ELSE 0
        id   == IF call.added THEN a.out[call.idx].id ELSE FinalId(a, k)
    IN  [ kind |-> "call", key |-> k, id |-> id, closed |-> was + 1, final |-> call.args,
          text |-> IF call.name \in CustomNames THEN told \o FinalArguments(call) ELSE told ]

ClosedCall(a, k) ==
    LET call == a.calls[k]
        told == IF call.added THEN a.out[call.idx].text ELSE << >>
        was  == IF call.added THEN a.out[call.idx].closed ELSE 0
        id   == IF call.added THEN a.out[call.idx].id ELSE FinalId(a, k)
    IN  [ kind |-> "call", key |-> k, id |-> id, closed |-> was + 1, final |-> FinalArguments(call),
          text |-> IF call.name \in CustomNames THEN told \o FinalArguments(call) ELSE told ]

FinishTools(a) ==
    LET last == a.next + Cardinality(Unannounced(a))
    IN  [ a EXCEPT
            !.next  = last,
            !.calls = [ k \in Indices |->
                          IF k \in Named(a)
                          THEN Announced(a.calls[k], FinalId(a, k), Place(a, k))
                          ELSE a.calls[k] ],
            !.out   = [ i \in 0..(last - 1) |->
                          IF \E k \in Named(a) : Place(a, k) = i
                          THEN ClosedCall(a, CHOOSE k \in Named(a) : Place(a, k) = i)
                          ELSE a.out[i] ] ]

\* mutant: the held back text is part of a response with calls
OutputWithMessage(a) ==
    LET first == IF a.reasoning # << >> THEN 1 ELSE 0
        calls == IF a.content # << >> THEN first + 1 ELSE first
    IN  (IF a.reasoning = << >> THEN {}
         ELSE { [ kind |-> "reasoning", key |-> NoKey, text |-> a.reasoning, pos |-> 0 ] })
        \cup
        (IF a.content = << >> THEN {}
         ELSE { [ kind |-> "message", key |-> NoKey, text |-> a.content, pos |-> first ] })
        \cup
        { [ kind |-> "call", key |-> k, text |-> FinalArguments(a.calls[k]),
            pos |-> calls + Rank(Named(a), k) ] : k \in Named(a) }

\* The output array: reasoning, then the message unless there is tool output, then the
\* calls.  The two are both there when every call has a blank name.
Output(a) ==
    LET message == a.content # << >> /\ ~HasToolOutput(a)
        first   == IF a.reasoning # << >> THEN 1 ELSE 0
        calls   == IF message THEN first + 1 ELSE first
    IN  (IF a.reasoning = << >> THEN {}
         ELSE { [ kind |-> "reasoning", key |-> NoKey, text |-> a.reasoning, pos |-> 0 ] })
        \cup
        (IF ~message THEN {}
         ELSE { [ kind |-> "message", key |-> NoKey, text |-> a.content, pos |-> first ] })
        \cup
        { [ kind |-> "call", key |-> k, text |-> FinalArguments(a.calls[k]),
            pos |-> calls + Rank(Named(a), k) ] : k \in Named(a) }

\* The StoredResponse: the assistant message, and the ids awaiting an output.
Record(a) ==
    [ content |-> a.content, reasoning |-> a.reasoning,
      pending |-> [ k \in Named(a) |-> a.calls[k].id ] ]

\* completion_status
Status(finish) ==
    IF finish \in { "length", "content_filter" } THEN "incomplete" ELSE "completed"

\* mutant: fail emits nothing
FailSilently(a) == a

Fail(a) == [ a EXCEPT !.terminal = IF @ = Absent THEN "failed" ELSE @ ]

\* mutant: text is closed whether or not there are calls
CloseEverything(a) == FinishTools(FinishText(BeginTools(a)))

\* Everything finalize emits before it stores the response.
CloseItems(a) ==
    LET b == BeginTools(a)
    IN  FinishTools(IF HasToolOutput(b) THEN b ELSE FinishText(b))

(***************************************************************************)
(* finalize, and the fail that every caller falls back on when it returns  *)
(* an error; ok is the outcome of state_put.                               *)
(***************************************************************************)
Finalize(a, ok) ==
    LET b == CloseItems(a)
    IN  IF a.terminal # Absent THEN a
        ELSE IF ok
        THEN [ b EXCEPT !.stored = @ \cup { Record(b) }, !.response = Output(b),
                        !.terminal = Status(b.finish) ]
        ELSE Fail(b)

\* has_substantive_output
HasSubstance(a) ==
    \/ ~IsBlank(a.content) \/ ~IsBlank(a.reasoning) \/ ~IsBlank(a.buf)
    \/ \E k \in Indices : \/ a.calls[k].added
                          \/ ~IsBlank(a.calls[k].args)
                          \/ a.calls[k].name \notin BlankNames \cup { Absent }

------------------------------------------------------------------------------
(***************************************************************************)
(* The fields of an assembler.                                             *)
(***************************************************************************)
Kinds     == { "reasoning", "message", "call" }
Terminals == { "completed", "incomplete", "failed" }
Finishes  == { Absent, "stop", "length", "content_filter" }
Thinking  == { "Detecting", "InThink", "Done" }
Outcome   == { Absent } \cup Terminals

Item == [ kind : Kinds, key : Int, id : Ids, text : Text, closed : Nat, final : Text ]

StoredRecord == [ content : Text, reasoning : Text,
                  pending : UNION { [ S -> Ids ] : S \in SUBSET Indices } ]

ResponseItem == [ kind : Kinds, key : Int, text : Text, pos : Nat ]

Fields == { "content", "reasoning", "buf", "calls", "finish", "next", "tIdx", "rIdx",
            "tDone", "rDone", "think", "buffered", "terminal", "out", "stored", "response" }

AssemblerType(a) ==
    /\ DOMAIN a = Fields
    /\ a.content \in Text /\ a.reasoning \in Text /\ a.buf \in Text
    /\ a.calls \in [ Indices -> Call ]
    /\ a.finish \in Finishes /\ a.think \in Thinking /\ a.terminal \in Outcome
    /\ a.next \in Nat /\ a.tIdx \in Int /\ a.rIdx \in Int
    /\ a.tDone \in BOOLEAN /\ a.rDone \in BOOLEAN /\ a.buffered \in BOOLEAN
    /\ a.out \in [ 0..(a.next - 1) -> Item ]
    /\ a.stored \subseteq StoredRecord /\ a.response \subseteq ResponseItem

\* The item at i is the one the assembler has under that index.
OwnedBy(a, i) ==
    CASE a.out[i].kind = "reasoning" -> a.rIdx = i
      [] a.out[i].kind = "message"   -> a.tIdx = i
      [] OTHER -> /\ a.out[i].key \in Indices
                  /\ a.calls[a.out[i].key].added
                  /\ a.calls[a.out[i].key].idx = i

OwnIndices(a) ==
    /\ \A i \in DOMAIN a.out : OwnedBy(a, i)
    /\ a.rIdx # NoIndex => /\ a.rIdx \in DOMAIN a.out
                           /\ a.out[a.rIdx].kind = "reasoning" /\ a.out[a.rIdx].key = NoKey
    /\ a.tIdx # NoIndex => /\ a.tIdx \in DOMAIN a.out
                           /\ a.out[a.tIdx].kind = "message" /\ a.out[a.tIdx].key = NoKey
    /\ \A k \in Indices : a.calls[k].added =>
         /\ a.calls[k].idx \in DOMAIN a.out
         /\ a.out[a.calls[k].idx].kind = "call"
         /\ a.out[a.calls[k].idx].key = k
==============================================================================
