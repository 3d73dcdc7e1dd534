--------------------------- MODULE ResponseBuilder ---------------------------
(***************************************************************************)
(* build_response of src/conversion/chat_to_responses.rs: the Responses    *)
(* object made of a chat completion that came in one piece.                *)
(*                                                                         *)
(* A message m has the content, the reasoning and the tool calls of the    *)
(* upstream's first choice; the calls are given by their position in the   *)
(* array, and a call without a name is one the code skips.  The calls in   *)
(* m.bare have no field "arguments".  (An id that is an empty string, or   *)
(* that is in a field "call_id", which only this way of answering would    *)
(* keep, is not considered.)  The record that is stored and the output     *)
(* array have the form they have in StreamAssembler, so that the two can   *)
(* be compared.                                                            *)
(***************************************************************************)
EXTENDS StreamAssembler

\* A leading think block counts only if the upstream gave no reasoning itself.
Splits(m) == m.reasoning = << >> /\ HasBlock(m.content)

BuiltReasoning(m) == IF Splits(m) THEN BlockReasoning(m.content) ELSE m.reasoning
BuiltContent(m)   == IF Splits(m) THEN BlockAnswer(m.content) ELSE m.content

BuiltCalls(m) == { k \in Indices : m.calls[k].name # Absent }

BuiltId(m, k) == IF m.calls[k].id = NoId THEN Fallback(k) ELSE m.calls[k].id

\* Missing arguments are taken for "{}", which a custom tool gets as its input too.
BuiltArguments(m, k) ==
    IF k \in m.bare THEN << "{", "}" >> ELSE FinalArguments(m.calls[k])

\* reasoning, then the calls, and the message only if there is no call
BuiltOutput(m) ==
    LET first == IF BuiltReasoning(m) # << >> THEN 1 ELSE 0
    IN  { [ kind |-> "reasoning", key |-> NoKey, text |-> t, pos |-> 0 ] :
            t \in { BuiltReasoning(m) } \ { << >> } }
        \cup { [ kind |-> "call", key |-> k, text |-> BuiltArguments(m, k),
                 pos |-> first + Rank(BuiltCalls(m), k) ] : k \in BuiltCalls(m) }
        \cup { [ kind |-> "message", key |-> NoKey, text |-> t, pos |-> first ] :
                 t \in IF BuiltCalls(m) = {} THEN { BuiltContent(m) } \ { << >> } ELSE {} }

\* the StoredResponse handed to state_put
BuiltRecord(m) ==
    [ content |-> BuiltContent(m), reasoning |-> BuiltReasoning(m),
      pending |-> [ k \in BuiltCalls(m) |-> BuiltId(m, k) ] ]
==============================================================================
