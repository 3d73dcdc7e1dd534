----------------------------- MODULE ChatHistory -----------------------------
(***************************************************************************)
(* How a /v1/responses request becomes the messages of a chat completion:  *)
(* src/conversion/responses_to_chat.rs, src/conversion/mod.rs and          *)
(* src/codex_chat_history.rs.                                              *)
(*                                                                         *)
(* A call is a record with the id under which its output is awaited and,   *)
(* as a ghost the code does not have, the number of the response that made *)
(* it (the upstream's n-th call of that response).  Texts, names,          *)
(* arguments and the system messages, which are all moved to the front,    *)
(* are left out.                                                           *)
(***************************************************************************)
EXTENDS Integers, Sequences, SequencesExt

NoCall == [ id |-> << -1, -1 >>, from |-> 0 ]

\* The items of the input array, and the messages of a chat.
Said       == [ kind |-> "message", call |-> NoCall ]
Spoken     == [ kind |-> "reply", call |-> NoCall ]
Made(c)    == [ kind |-> "call", call |-> c ]
Answer(c)  == [ kind |-> "output", call |-> c ]

User          == [ role |-> "user", calls |-> << >> ]
Assistant(cs) == [ role |-> "assistant", calls |-> cs ]
Tool(c)       == [ role |-> "tool", calls |-> << c >> ]

\* the calls that are made in the items, and those that are answered, in order
ThoseOf(items, kind) ==
    FlattenSeq([ n \in DOMAIN items |-> IF items[n].kind = kind THEN << items[n].call >> ELSE << >> ])

CallsOf(items)   == ThoseOf(items, "call")
AnswersOf(items) == ThoseOf(items, "output")

CallIds(items)   == { c.id : c \in ToSet(CallsOf(items)) }
OutputIds(items) == LET calls == AnswersOf(items) IN [ n \in DOMAIN calls |-> calls[n].id ]

(***************************************************************************)
(* extract_request_with_context: consecutive calls become one assistant    *)
(* message, any other item ends the run; outputs are collected apart.      *)
(***************************************************************************)
FlushPending(x) ==
    IF x.pending = << >> THEN x
    ELSE [ messages |-> Append(x.messages, Assistant(x.pending)), pending |-> << >> ]

Take(x, item) ==
    LET y == FlushPending(x)
    IN  CASE item.kind = "call"    -> [ x EXCEPT !.pending = Append(@, item.call) ]
          [] item.kind = "output"  -> y
          [] item.kind = "reply"   -> [ y EXCEPT !.messages = Append(@, Assistant(<< >>)) ]
          [] item.kind = "message" -> [ y EXCEPT !.messages = Append(@, User) ]

Start == [ messages |-> << >>, pending |-> << >> ]

Reading(items) ==
    LET upTo[n \in 0 .. Len(items)] == IF n = 0 THEN Start ELSE Take(upTo[n - 1], items[n])
    IN  upTo[Len(items)]

Extract(items) == FlushPending(Reading(items)).messages

Tools(calls) == [ n \in DOMAIN calls |-> Tool(calls[n]) ]

Outputs(items) == Tools(AnswersOf(items))

(***************************************************************************)
(* The ids that make the server look for a stored response: none if the    *)
(* request names no response and brings along the call of every output.    *)
(***************************************************************************)
\* mutant: the calls in the input are not looked at
LookupAll(named, items) == OutputIds(items)

LookupIds(named, items) ==
    IF ~named /\ ToSet(OutputIds(items)) \subseteq CallIds(items)
    THEN << >>
    ELSE OutputIds(items)

(***************************************************************************)
(* validate_chat_tool_history: an output answers a call made before it,    *)
(* and no id is answered twice.                                            *)
(***************************************************************************)
ValidHistory(messages) ==
    \A j \in DOMAIN messages : messages[j].role = "tool" =>
        LET id == messages[j].calls[1].id
        IN  /\ \E i \in 1..(j - 1) : /\ messages[i].role = "assistant"
                                     /\ \E c \in ToSet(messages[i].calls) : c.id = id
            /\ \A i \in 1..(j - 1) : messages[i].role = "tool" => messages[i].calls[1].id # id

(***************************************************************************)
(* trim_self_contained_continuation_suffix: if the input repeats the call  *)
(* of every output before it, only what follows the last output is new.    *)
(***************************************************************************)
RepeatsCalls(items) ==
    \A j \in DOMAIN items : items[j].kind = "output" =>
        \E k \in DOMAIN items : /\ items[k].kind = "output"
                                /\ items[k].call.id = items[j].call.id
                                /\ \E i \in 1..(k - 1) : /\ items[i].kind = "call"
                                                         /\ items[i].call.id = items[k].call.id

LastAnswer(items) == Max({ 0 } \cup { n \in DOMAIN items : items[n].kind = "output" })

\* mutant: what the stored history has already is not trimmed
AddAll(items) == Extract(items)

Additions(items) ==
    IF RepeatsCalls(items)
    THEN Extract(SubSeq(items, LastAnswer(items) + 1, Len(items)))
    ELSE Extract(items)

(***************************************************************************)
(* repair_stateless_history: the outputs go behind the messages that make  *)
(* their calls.                                                            *)
(***************************************************************************)
Answering(outs, call) ==
    FlattenSeq([ n \in DOMAIN outs |->
        IF outs[n].calls[1].id = call.id THEN << outs[n] >> ELSE << >> ])

Behind(outs, calls) == FlattenSeq([ n \in DOMAIN calls |-> Answering(outs, calls[n]) ])

Replay(messages, outs) ==
    FlattenSeq([ n \in DOMAIN messages |->
        IF messages[n].role = "assistant"
        THEN << messages[n] >> \o Behind(outs, messages[n].calls)
        ELSE << messages[n] >> ])

(***************************************************************************)
(* build_chat_payload: the messages sent upstream, and whether the request *)
(* gets that far.  base is the history of the stored response, if one was  *)
(* found.                                                                  *)
(***************************************************************************)
\* mutant: the outputs come after what is new
JoinedLate(found, base, items) ==
    LET outs == Outputs(items)
    IN  CASE found /\ outs # << >>  -> base \o Additions(items) \o outs
          [] ~found /\ outs # << >> -> Replay(Extract(items), outs)
          [] found /\ outs = << >>  -> base \o Extract(items)
          [] OTHER                  -> Extract(items)

Joined(found, base, items) ==
    LET outs == Outputs(items)
    IN  CASE found /\ outs # << >>  -> base \o outs \o Additions(items)
          [] ~found /\ outs # << >> -> Replay(Extract(items), outs)
          [] found /\ outs = << >>  -> base \o Extract(items)
          [] OTHER                  -> Extract(items)

Payload(found, base, items) ==
    IF Joined(found, base, items) = << >> THEN << User >> ELSE Joined(found, base, items)

Acceptable(found, base, items) ==
    LET outs == Outputs(items)
    IN  /\ IsInjective(OutputIds(items))
        /\ found /\ outs # << >> => ValidHistory(base \o outs)
        /\ ~found => ToSet(OutputIds(items)) \subseteq CallIds(items)
        /\ ValidHistory(Payload(found, base, items))
==============================================================================
