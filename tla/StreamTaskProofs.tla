--------------------------- MODULE StreamTaskProofs ---------------------------
(***************************************************************************)
(* The safety theorems about StreamTask, for every set of tool call        *)
(* indexes, ids and names, for every bound on the length of a stream and   *)
(* for disorderly upstreams too.                                           *)
(*                                                                         *)
(* The invariant says that the assembler is good until the stream ends,    *)
(* and that it ends only once and in the state finalize or fail leaves.    *)
(* TypeOK, OneItemPerIndex and ClosedAtMostOnce are not inductive by       *)
(* themselves: that an item is not closed twice rests on the marks         *)
(* reasoning_done and text_done agreeing with the items, and that a stored *)
(* id is the id that was shown on an announced call keeping its id.        *)
(***************************************************************************)
EXTENDS StreamTask, StreamAssemblerProofs

TypedTask ==
    /\ phase \in { "spawned", "connecting", "reading", "ended" }
    /\ done \in BOOLEAN
    /\ heard \in Heard

IInv ==
    /\ TypedTask
    /\ phase # "ended" => Good(a) /\ a.terminal = Absent /\ a.stored = {}
    /\ phase = "ended" => Ending(a)

------------------------------------------------------------------------------
(***************************************************************************)
(* The first state.                                                        *)
(***************************************************************************)
LEMMA InitInvariant == Init => IInv
<1> SUFFICES ASSUME Init PROVE IInv
  OBVIOUS
<1>1. PICK buffered \in ToolsDeclared : a = NewAssembler(buffered)
  BY DEF Init
<1>2. buffered \in BOOLEAN
  BY <1>1, PartsAssumption
<1>3. Good(a) /\ a.terminal = Absent /\ a.stored = {}
  BY <1>1, <1>2, NewGood
<1>4. TypedTask
  BY EmptyText DEF Init, TypedTask, Heard
<1> QED BY <1>3, <1>4 DEF IInv, Init

(***************************************************************************)
(* Ending the task with an assembler that has ended.                       *)
(***************************************************************************)
LEMMA EndInvariant ==
    ASSUME IInv, NEW b, Ending(b), NEW how \in { "refused", "done", "eof", "error" }, End(b, how)
    PROVE  IInv'
<1>1. a' = b /\ phase' = "ended" /\ done' = TRUE /\ heard' = [ heard EXCEPT !.end = how ]
  BY DEF End
<1>2. heard' \in Heard
  BY <1>1 DEF IInv, TypedTask, Heard
<1>3. Ending(a')
  BY <1>1
<1> QED BY <1>1, <1>2, <1>3 DEF IInv, TypedTask

(***************************************************************************)
(* A stream that is not over can fail.                                     *)
(***************************************************************************)
LEMMA FailInvariant ==
    ASSUME IInv, phase # "ended", NEW how \in { "refused", "done", "eof", "error" },
           End(Fail(a), how)
    PROVE  IInv'
<1>1. Good(a) /\ a.terminal = Absent /\ a.stored = {}
  BY DEF IInv
<1>2. Ending(Fail(a))
  BY <1>1, FailEnds, GoodClosedOnce DEF Good
<1> QED BY <1>2, EndInvariant

(***************************************************************************)
(* One part of a chunk.                                                    *)
(***************************************************************************)
LEMMA HearInvariant ==
    ASSUME IInv, NEW b, Good(b), Keeps(a, b), NEW part \in Heard,
           part.parts = heard.parts, Hear(b, part)
    PROVE  IInv'
<1>1. phase = "reading" /\ a' = b /\ UNCHANGED << phase, done >>
      /\ heard' = [ part EXCEPT !.parts = @ + 1 ]
  BY DEF Hear
<1>2. b.terminal = Absent /\ b.stored = {}
  BY <1>1 DEF IInv, Keeps, Outcomes
<1>3. heard' \in Heard
  BY <1>1 DEF Heard
<1> QED BY <1>1, <1>2, <1>3 DEF IInv, TypedTask

(***************************************************************************)
(* Every step keeps the invariant: one case per action.                    *)
(***************************************************************************)
LEMMA StepInvariant == IInv /\ [Next]_vars => IInv'
<1> SUFFICES ASSUME IInv, [Next]_vars PROVE IInv'
  OBVIOUS
<1>0. heard \in Heard
  BY DEF IInv, TypedTask
<1>1. CASE Admitted
  <2>1. phase = "spawned" /\ phase' = "connecting" /\ UNCHANGED << a, done, heard >>
    BY <1>1 DEF Admitted
  <2> QED BY <2>1 DEF IInv, TypedTask
<1>2. CASE Refused
  BY <1>2, FailInvariant DEF Refused
<1>3. CASE Connected
  <2>1. phase = "connecting" /\ phase' = "reading" /\ UNCHANGED << a, done, heard >>
    BY <1>3 DEF Connected
  <2> QED BY <2>1 DEF IInv, TypedTask
<1>4. CASE ConnectFailed
  BY <1>4, FailInvariant DEF ConnectFailed
<1>5. CASE ReasoningPart
  <2>1. PICK t \in ReasoningParts :
          Hear(AcceptReasoning(a, t), [ heard EXCEPT !.reasoning = @ \o t ])
    BY <1>5 DEF ReasoningPart
  <2>2. t \in Text /\ Good(a)
    BY <2>1, PartsAssumption DEF IInv, Hear
  <2>3. Good(AcceptReasoning(a, t)) /\ Keeps(a, AcceptReasoning(a, t))
    BY <2>2, AcceptReasoningGood DEF KeepsCalls
  <2>4. heard.reasoning \o t \in Text
    BY <1>0, <2>2, ConcatProperties DEF Heard, Text
  <2>5. [ heard EXCEPT !.reasoning = @ \o t ] \in Heard
        /\ [ heard EXCEPT !.reasoning = @ \o t ].parts = heard.parts
    BY <1>0, <2>4 DEF Heard
  <2> QED BY <2>1, <2>3, <2>5, HearInvariant
<1>6. CASE ContentPart
  <2>1. PICK t \in ContentParts :
          Hear(AcceptContent(a, t), [ heard EXCEPT !.content = @ \o t ])
    BY <1>6 DEF ContentPart
  <2>2. t \in Text /\ Good(a)
    BY <2>1, PartsAssumption DEF IInv, Hear
  <2>3. Good(AcceptContent(a, t)) /\ Keeps(a, AcceptContent(a, t))
    BY <2>2, AcceptContentGood DEF KeepsCalls
  <2>4. heard.content \o t \in Text
    BY <1>0, <2>2, ConcatProperties DEF Heard, Text
  <2>5. [ heard EXCEPT !.content = @ \o t ] \in Heard
        /\ [ heard EXCEPT !.content = @ \o t ].parts = heard.parts
    BY <1>0, <2>4 DEF Heard
  <2> QED BY <2>1, <2>3, <2>5, HearInvariant
<1>7. CASE ToolPart
  <2>1. PICK k \in Indices, id \in ToolIds, name \in Names \cup { Absent }, args \in ArgumentParts :
          Hear(AcceptToolDelta(BeginTools(a), k, id, name, args),
               [ heard EXCEPT !.tools = TRUE, !.args = HeardArguments(k, args) ])
    BY <1>7 DEF ToolPart
  <2>2. args \in Text /\ Good(a) /\ id \in Ids
    BY <2>1, PartsAssumption DEF IInv, Hear, ToolIds, Ids
  <2>3. Good(BeginTools(a)) /\ Keeps(a, BeginTools(a))
    BY <2>2, BeginToolsGood DEF KeepsCalls
  <2> DEFINE b == AcceptToolDelta(BeginTools(a), k, id, name, args)
  <2>4. Good(b) /\ Keeps(BeginTools(a), b)
    BY <2>2, <2>3, AcceptToolDeltaGood
  <2>5. Keeps(a, b)
    <3> HIDE DEF b
    <3> QED BY <2>3, <2>4 DEF Keeps
  <2>6. HeardArguments(k, args) \in [ Indices -> Text ]
    <3>1. heard.args \in [ Indices -> Text ]
      BY <1>0 DEF Heard
    <3>2. heard.args[k] \o args \in Text
      BY <2>2, <3>1, ConcatProperties DEF Text
    <3> QED BY <3>1, <3>2 DEF HeardArguments
  <2> DEFINE now == HeardArguments(k, args)
  <2>7. [ heard EXCEPT !.tools = TRUE, !.args = now ] \in Heard
        /\ [ heard EXCEPT !.tools = TRUE, !.args = now ].parts = heard.parts
    <3> HIDE DEF now
    <3> QED BY <1>0, <2>6 DEF Heard, now
  <2> QED BY <2>1, <2>4, <2>5, <2>7, HearInvariant
<1>8. CASE EmptyToolPart
  <2>1. Hear(BeginTools(a), [ heard EXCEPT !.tools = TRUE ])
    BY <1>8 DEF EmptyToolPart
  <2>2. Good(BeginTools(a)) /\ Keeps(a, BeginTools(a))
    BY <2>1, BeginToolsGood DEF IInv, Hear, KeepsCalls
  <2>3. [ heard EXCEPT !.tools = TRUE ] \in Heard
        /\ [ heard EXCEPT !.tools = TRUE ].parts = heard.parts
    BY <1>0 DEF Heard
  <2> QED BY <2>1, <2>2, <2>3, HearInvariant
<1>9. CASE FinishPart
  <2>1. PICK reason \in FinishReasons :
          Hear(AcceptFinish(a, reason), [ heard EXCEPT !.finish = TRUE ])
    BY <1>9 DEF FinishPart
  <2>2. reason \in Finishes /\ Good(a)
    BY <2>1, PartsAssumption DEF IInv, Hear, Finishes
  <2>3. Good(AcceptFinish(a, reason)) /\ Keeps(a, AcceptFinish(a, reason))
    BY <2>2, FinishGood DEF KeepsCalls
  <2>4. [ heard EXCEPT !.finish = TRUE ] \in Heard
        /\ [ heard EXCEPT !.finish = TRUE ].parts = heard.parts
    BY <1>0 DEF Heard
  <2> QED BY <2>1, <2>3, <2>4, HearInvariant
<1>10. CASE UpstreamDone
  <2>1. PICK ok \in BOOLEAN : phase = "reading" /\ End(Finalize(a, ok), "done")
    BY <1>10 DEF UpstreamDone
  <2>2. Ending(Finalize(a, ok))
    BY <2>1, FinalizeEnds DEF IInv
  <2> QED BY <2>1, <2>2, EndInvariant
<1>11. CASE UpstreamError
  BY <1>11, FailInvariant DEF UpstreamError
<1>12. CASE ReadFailed
  BY <1>12, FailInvariant DEF ReadFailed
<1>13. CASE EndOfBody
  <2>1. PICK ok \in BOOLEAN :
          /\ phase = "reading"
          /\ \/ End(Finalize(a, ok), "eof")
             \/ End(Finalize(MarkTruncated(a), ok), "eof")
             \/ End(Fail(a), "eof")
    BY <1>13 DEF EndOfBody
  <2>2. Good(a) /\ a.terminal = Absent /\ a.stored = {} /\ phase # "ended"
    BY <2>1 DEF IInv
  <2>3. Good(MarkTruncated(a)) /\ MarkTruncated(a).terminal = Absent
        /\ MarkTruncated(a).stored = {}
    BY <2>2, FinishGood DEF KeepsCalls, Keeps, Outcomes, Finishes
  <2>4. Ending(Finalize(a, ok)) /\ Ending(Finalize(MarkTruncated(a), ok))
    BY <2>2, <2>3, FinalizeEnds
  <2>5. CASE End(Finalize(a, ok), "eof")
    BY <2>4, <2>5, EndInvariant
  <2>6. CASE End(Finalize(MarkTruncated(a), ok), "eof")
    BY <2>4, <2>6, EndInvariant
  <2>7. CASE End(Fail(a), "eof")
    BY <2>2, <2>7, FailInvariant
  <2> QED BY <2>1, <2>5, <2>6, <2>7
<1>14. CASE Ended \/ UNCHANGED vars
  <2>1. UNCHANGED << phase, a, done, heard >>
    BY <1>14 DEF Ended, vars
  <2> QED BY <2>1 DEF IInv, TypedTask
<1> QED BY <1>1, <1>2, <1>3, <1>4, <1>5, <1>6, <1>7, <1>8, <1>9, <1>10, <1>11, <1>12,
           <1>13, <1>14 DEF Next

(***************************************************************************)
(* The invariant holds in every reachable state of every stream.           *)
(***************************************************************************)
THEOREM Invariant == Spec => []IInv
  BY InitInvariant, StepInvariant, PTL DEF Spec

------------------------------------------------------------------------------
(***************************************************************************)
(* The state of the task always has its type.                              *)
(***************************************************************************)
THEOREM TypeCorrect == Spec => []TypeOK
<1>1. IInv => TypeOK
  BY DEF IInv, TypedTask, TypeOK, Good, Ending
<1> QED BY <1>1, Invariant, PTL

(***************************************************************************)
(* Every output index stands for exactly one item, the one the assembler   *)
(* sends its deltas to.                                                    *)
(***************************************************************************)
THEOREM IndicesAreOwned == Spec => []OneItemPerIndex
<1>1. IInv => OneItemPerIndex
  BY DEF IInv, TypedTask, OneItemPerIndex, Good, Ending
<1> QED BY <1>1, Invariant, PTL

(***************************************************************************)
(* No item is closed twice, whatever order the upstream sends things in    *)
(* and however the stream ends.                                            *)
(***************************************************************************)
THEOREM ClosedOnceOnly == Spec => []ClosedAtMostOnce
<1>1. IInv => ClosedOnce(a)
  BY GoodClosedOnce DEF IInv, TypedTask, Ending
<1>2. ClosedOnce(a) => ClosedAtMostOnce
  BY DEF ClosedOnce, ClosedAtMostOnce, Shown
<1> QED BY <1>1, <1>2, Invariant, PTL

(***************************************************************************)
(* The response is stored exactly if the client is told it succeeded, and  *)
(* what is stored awaits the ids under which the calls were announced.     *)
(***************************************************************************)
THEOREM StoredIsDelivered == Spec => []StoredAsDelivered
<1>1. IInv => StoredAsDelivered
  <2>1. SUFFICES ASSUME IInv PROVE StoredAsDelivered
    OBVIOUS
  <2>2. CASE phase # "ended"
    <3>1. a.stored = {} /\ a.terminal = Absent
      BY <2>1, <2>2 DEF IInv
    <3>2. a.terminal \notin Success
      BY <3>1 DEF Success, Absent
    <3> QED BY <3>1, <3>2 DEF StoredAsDelivered
  <2>3. CASE phase = "ended"
    <3>1. Ending(a)
      BY <2>1, <2>3 DEF IInv
    <3> QED BY <3>1 DEF Ending, AwaitsShown, StoredAsDelivered, Success, Shown
  <2> QED BY <2>2, <2>3
<1> QED BY <1>1, Invariant, PTL

------------------------------------------------------------------------------
(***************************************************************************)
(* What the client is told.  Until the stream ends the assembler has told  *)
(* all it knows, and it knows a finish reason only from the upstream; the  *)
(* stream ends in a state that finalize or fail concludes.                 *)
(***************************************************************************)
JInv ==
    /\ phase # "ended" => /\ Told(a) /\ Thought(a)
                          /\ ~heard.finish => a.finish = Absent
    /\ phase = "ended" => Concluded(a) /\ TruncationReported

(***************************************************************************)
(* The first state.                                                        *)
(***************************************************************************)
LEMMA InitTold == Init => JInv
<1> SUFFICES ASSUME Init PROVE JInv
  OBVIOUS
<1>1. PICK buffered \in ToolsDeclared : a = NewAssembler(buffered)
  BY DEF Init
<1>2. buffered \in BOOLEAN
  BY PartsAssumption
<1>3. Told(a) /\ Thought(a) /\ a.finish = Absent
  BY <1>1, <1>2, NewTold
<1> QED BY <1>3 DEF Init, JInv

(***************************************************************************)
(* A part of a chunk other than a finish reason.                           *)
(***************************************************************************)
LEMMA HearTold ==
    ASSUME JInv, NEW b, Tells(a, b), Thought(b), NEW part \in Heard,
           part.finish = heard.finish, Hear(b, part)
    PROVE  JInv'
<1>1. phase = "reading" /\ phase' = "reading" /\ a' = b
      /\ heard' = [ part EXCEPT !.parts = @ + 1 ]
  BY DEF Hear
<1>2. heard'.finish = heard.finish
  BY <1>1 DEF Heard
<1>3. Told(b) /\ b.finish = a.finish
  BY DEF Tells, Grows
<1>4. ~heard.finish => a.finish = Absent
  BY <1>1 DEF JInv
<1> QED BY <1>1, <1>2, <1>3, <1>4 DEF JInv

(***************************************************************************)
(* A stream that fails was not truncated.                                  *)
(***************************************************************************)
LEMMA FailTold ==
    ASSUME IInv, JInv, phase # "ended", NEW how \in { "refused", "done", "eof", "error" },
           End(Fail(a), how)
    PROVE  JInv'
<1>1. a' = Fail(a) /\ phase' = "ended"
  BY DEF End
<1>2. Concluded(a') /\ a'.terminal = "failed"
  BY <1>1, FailConcludes DEF IInv, JInv
<1> QED BY <1>1, <1>2 DEF JInv, TruncationReported

(***************************************************************************)
(* Every step keeps this.                                                  *)
(***************************************************************************)
LEMMA StepTold == IInv /\ JInv /\ [Next]_vars => JInv'
<1> SUFFICES ASSUME IInv, JInv, [Next]_vars PROVE JInv'
  OBVIOUS
<1>0. heard \in Heard
  BY DEF IInv, TypedTask
<1>1. CASE Admitted \/ Connected
  <2>1. phase # "ended" /\ phase' # "ended" /\ UNCHANGED << a, heard >>
    BY <1>1 DEF Admitted, Connected
  <2> QED BY <2>1 DEF JInv
<1>2. CASE Refused
  BY <1>2, FailTold DEF Refused
<1>3. CASE ConnectFailed
  BY <1>3, FailTold DEF ConnectFailed
<1>4. CASE ReasoningPart
  <2>1. PICK t \in ReasoningParts :
          Hear(AcceptReasoning(a, t), [ heard EXCEPT !.reasoning = @ \o t ])
    BY <1>4 DEF ReasoningPart
  <2>2. t \in Text /\ Good(a) /\ Told(a) /\ Thought(a)
    BY <2>1, PartsAssumption DEF IInv, JInv, Hear
  <2>3. Tells(a, AcceptReasoning(a, t)) /\ Thought(AcceptReasoning(a, t))
    BY <2>2, AcceptReasoningTells
  <2>4. heard.reasoning \o t \in Text
    BY <1>0, <2>2, TextConcat DEF Heard
  <2>5. [ heard EXCEPT !.reasoning = @ \o t ] \in Heard
        /\ [ heard EXCEPT !.reasoning = @ \o t ].finish = heard.finish
    BY <1>0, <2>4 DEF Heard
  <2> QED BY <2>1, <2>3, <2>5, HearTold
<1>5. CASE ContentPart
  <2>1. PICK t \in ContentParts :
          Hear(AcceptContent(a, t), [ heard EXCEPT !.content = @ \o t ])
    BY <1>5 DEF ContentPart
  <2>2. t \in Text /\ Good(a) /\ Told(a) /\ Thought(a)
    BY <2>1, PartsAssumption DEF IInv, JInv, Hear
  <2>3. Tells(a, AcceptContent(a, t)) /\ Thought(AcceptContent(a, t))
    BY <2>2, AcceptContentSays DEF Says
  <2>4. heard.content \o t \in Text
    BY <1>0, <2>2, TextConcat DEF Heard
  <2>5. [ heard EXCEPT !.content = @ \o t ] \in Heard
        /\ [ heard EXCEPT !.content = @ \o t ].finish = heard.finish
    BY <1>0, <2>4 DEF Heard
  <2> QED BY <2>1, <2>3, <2>5, HearTold
<1>6. CASE ToolPart
  <2>1. PICK k \in Indices, id \in ToolIds, name \in Names \cup { Absent }, args \in ArgumentParts :
          Hear(AcceptToolDelta(BeginTools(a), k, id, name, args),
               [ heard EXCEPT !.tools = TRUE, !.args = HeardArguments(k, args) ])
    BY <1>6 DEF ToolPart
  <2>2. args \in Text /\ Good(a) /\ Told(a) /\ Thought(a) /\ id \in Ids
    BY <2>1, PartsAssumption DEF IInv, JInv, Hear, ToolIds, Ids
  <2> DEFINE c == BeginTools(a)
             b == AcceptToolDelta(c, k, id, name, args)
  <2>3. Tells(a, c) /\ Thought(c) /\ c.think # "InThink"
    BY <2>2, BeginToolsTells
  <2> HIDE DEF c
  <2>4. Tells(c, b) /\ Thought(b)
    BY <2>2, <2>3, AcceptToolDeltaTold, AcceptToolDeltaThought DEF Tells
  <2>5. Tells(a, b)
    <3> HIDE DEF b
    <3> QED BY <2>2, <2>3, <2>4, TellsTransitive
  <2>6. heard.args \in [ Indices -> Text ] /\ heard.args[k] \o args \in Text
    BY <1>0, <2>2, TextConcat DEF Heard
  <2>7. HeardArguments(k, args) \in [ Indices -> Text ]
    BY <2>6 DEF HeardArguments
  <2> DEFINE now == HeardArguments(k, args)
  <2>8. [ heard EXCEPT !.tools = TRUE, !.args = now ] \in Heard
        /\ [ heard EXCEPT !.tools = TRUE, !.args = now ].finish = heard.finish
    <3> HIDE DEF now
    <3> QED BY <1>0, <2>7 DEF Heard, now
  <2> QED BY <2>1, <2>4, <2>5, <2>8, HearTold DEF c
<1>7. CASE EmptyToolPart
  <2>1. Hear(BeginTools(a), [ heard EXCEPT !.tools = TRUE ])
    BY <1>7 DEF EmptyToolPart
  <2>2. Tells(a, BeginTools(a)) /\ Thought(BeginTools(a))
    BY <2>1, BeginToolsTells DEF IInv, JInv, Hear
  <2>3. [ heard EXCEPT !.tools = TRUE ] \in Heard
        /\ [ heard EXCEPT !.tools = TRUE ].finish = heard.finish
    BY <1>0 DEF Heard
  <2> QED BY <2>1, <2>2, <2>3, HearTold
<1>8. CASE FinishPart
  <2>1. PICK reason \in FinishReasons :
          Hear(AcceptFinish(a, reason), [ heard EXCEPT !.finish = TRUE ])
    BY <1>8 DEF FinishPart
  <2>2. phase' = "reading" /\ a' = AcceptFinish(a, reason) /\ Good(a) /\ Told(a) /\ Thought(a)
    BY <2>1 DEF IInv, JInv, Hear
  <2>3. Frame(a, AcceptFinish(a, reason), { "finish" })
    BY <2>2 DEF AcceptFinish, Good, AssemblerType, Frame, Fields
  <2>4. Told(a') /\ Thought(a')
    BY <2>2, <2>3, FinishTold
  <2>5. heard'.finish = TRUE
    BY <1>0, <2>1 DEF Hear, Heard
  <2> QED BY <2>2, <2>4, <2>5 DEF JInv
<1>9. CASE UpstreamError
  BY <1>9, FailTold DEF UpstreamError
<1>10. CASE ReadFailed
  BY <1>10, FailTold DEF ReadFailed
<1>11. CASE UpstreamDone
  <2>1. PICK ok \in BOOLEAN : phase = "reading" /\ End(Finalize(a, ok), "done")
    BY <1>11 DEF UpstreamDone
  <2>2. Concluded(Finalize(a, ok))
    BY <2>1, FinalizeConcludes DEF IInv, JInv
  <2>3. a' = Finalize(a, ok) /\ phase' = "ended" /\ heard'.end = "done"
    BY <1>0, <2>1 DEF End, Heard
  <2> QED BY <2>2, <2>3 DEF JInv, TruncationReported
<1>12. CASE EndOfBody
  <2>1. PICK ok \in BOOLEAN :
          /\ phase = "reading"
          /\ \/ a.finish # Absent /\ End(Finalize(a, ok), "eof")
             \/ a.finish = Absent /\ End(Finalize(MarkTruncated(a), ok), "eof")
             \/ End(Fail(a), "eof")
    BY <1>12 DEF EndOfBody
  <2>2. /\ Good(a) /\ a.terminal = Absent /\ a.stored = {} /\ Told(a) /\ Thought(a)
        /\ ~heard.finish => a.finish = Absent
    BY <2>1 DEF IInv, JInv
  <2>3. CASE a.finish # Absent /\ End(Finalize(a, ok), "eof")
    <3>1. Concluded(Finalize(a, ok))
      BY <2>2, FinalizeConcludes
    <3>2. a' = Finalize(a, ok) /\ phase' = "ended" /\ heard'.finish = heard.finish
      BY <1>0, <2>3 DEF End, Heard
    <3> QED BY <2>2, <2>3, <3>1, <3>2 DEF JInv, TruncationReported
  <2>4. CASE a.finish = Absent /\ End(Finalize(MarkTruncated(a), ok), "eof")
    <3> DEFINE b == MarkTruncated(a)
               c == Finalize(b, ok)
    <3>1. Good(b) /\ b.terminal = Absent /\ b.stored = {}
      BY <2>2, FinishGood DEF KeepsCalls, Keeps, Outcomes, Finishes
    <3>2. Frame(a, b, { "finish" }) /\ b.finish = "length"
      BY <2>2, <2>4 DEF MarkTruncated, Good, AssemblerType, Frame, Fields
    <3> HIDE DEF b
    <3>3. Told(b) /\ Thought(b)
      BY <2>2, <3>2, FinishTold
    <3>4. /\ Concluded(c)
          /\ c.terminal \in { "completed", "incomplete" } => c.terminal = Status(b.finish)
      BY <3>1, <3>3, FinalizeConcludes
    <3>5. a' = c /\ phase' = "ended"
      BY <2>4 DEF End, b
    <3> HIDE DEF c
    <3>6. c.terminal # "completed"
      BY <3>2, <3>4 DEF Status
    <3> QED BY <3>4, <3>5, <3>6 DEF JInv, TruncationReported
  <2>5. CASE End(Fail(a), "eof")
    BY <2>1, <2>5, FailTold
  <2> QED BY <2>1, <2>3, <2>4, <2>5
<1>13. CASE Ended \/ UNCHANGED vars
  <2>1. UNCHANGED << phase, a, done, heard >>
    BY <1>13 DEF Ended, vars
  <2> QED BY <2>1 DEF JInv, TruncationReported
<1> QED BY <1>1, <1>2, <1>3, <1>4, <1>5, <1>6, <1>7, <1>8, <1>9, <1>10, <1>11, <1>12,
           <1>13 DEF Next

(***************************************************************************)
(* In every reachable state of every stream the assembler has told what it *)
(* knows, and the end of the stream is a conclusion.                       *)
(***************************************************************************)
THEOREM Telling == Spec => []JInv
<1>1. JInv /\ IInv /\ IInv' /\ [Next]_vars => JInv'
  BY StepTold
<1> QED BY <1>1, InitTold, Invariant, PTL DEF Spec

(***************************************************************************)
(* A call is closed with the arguments its deltas add up to: the done      *)
(* event of finalize and the deltas sent since the call was announced do   *)
(* not contradict each other, whatever the upstream interleaves.           *)
(***************************************************************************)
THEOREM CallsClosedExactly == Spec => []ClosedCallsExact
<1>1. IInv /\ JInv => ClosedCallsExact
  <2>1. SUFFICES ASSUME IInv, JInv PROVE ClosedCallsExact
    OBVIOUS
  <2>2. CASE phase # "ended"
    <3>1. \A i \in DOMAIN a.out : a.out[i].kind = "call" => a.out[i].closed = 0
      BY <2>1, <2>2 DEF IInv, Good, Marked, Marks
    <3> QED BY <3>1 DEF ClosedCallsExact, Shown, Closed
  <2>3. CASE phase = "ended"
    BY <2>1, <2>3 DEF JInv, Concluded, CallsExact, ClosedCallsExact, Shown, Closed
  <2> QED BY <2>2, <2>3
<1> QED BY <1>1, Invariant, Telling, PTL

(***************************************************************************)
(* A stream that ends in success leaves no item open, but for the text     *)
(* that finalize leaves out of a response with calls.                      *)
(***************************************************************************)
THEOREM SuccessClosesAll == Spec => []SuccessClosesItems
<1>1. IInv /\ JInv => SuccessClosesItems
  <2>1. SUFFICES ASSUME IInv, JInv, a.terminal \in Success PROVE SuccessClosesItems
    BY DEF SuccessClosesItems
  <2>2. phase = "ended"
    BY <2>1 DEF IInv, Success, Absent
  <2> QED BY <2>1, <2>2 DEF JInv, Concluded, Success, Shut, SuccessClosesItems, Shown, Closed
<1> QED BY <1>1, Invariant, Telling, PTL

(***************************************************************************)
(* If tools were declared no client sees a message beside a call that has  *)
(* more than white space for a name, however text and calls are            *)
(* interleaved and however the stream ends.                                *)
(***************************************************************************)
THEOREM CallsStandAlone == Spec => []CallsSuppressMessage
<1>1. IInv /\ JInv => CallsSuppressMessage
  <2>1. SUFFICES ASSUME IInv, JInv PROVE CallsSuppressMessage
    OBVIOUS
  <2>2. CASE phase # "ended"
    <3>1. a.buffered => a.tIdx = NoIndex
      BY <2>1, <2>2 DEF JInv, Told, HeldBack
    <3>2. \A i \in DOMAIN a.out : i # NoIndex /\ OwnedBy(a, i)
      BY <2>1, <2>2 DEF IInv, Good, OwnIndices, AssemblerType, NoIndex
    <3> QED BY <3>1, <3>2 DEF OwnedBy, CallsSuppressMessage, Shown
  <2>3. CASE phase = "ended"
    BY <2>1, <2>3 DEF JInv, Concluded, Unmixed, CallsSuppressMessage, Shown
  <2> QED BY <2>2, <2>3
<1> QED BY <1>1, Invariant, Telling, PTL

(***************************************************************************)
(* The calls of the response are the calls the client was shown, each with *)
(* the arguments it was closed with.                                       *)
(***************************************************************************)
THEOREM CallsAreDelivered == Spec => []CallsDelivered
<1>1. IInv /\ JInv => CallsDelivered
  <2>1. SUFFICES ASSUME IInv, JInv, a.terminal \in Success PROVE CallsDelivered
    BY DEF CallsDelivered
  <2>2. phase = "ended"
    BY <2>1 DEF IInv, Success, Absent
  <2>3. Shut(a) /\ Delivered(a) /\ a.response = Output(a)
    BY <2>1, <2>2 DEF JInv, Concluded, Success
  <2> DEFINE L == { << r.key, r.text >> : r \in { x \in a.response : x.kind = "call" } }
             R == { << a.out[i].key, a.out[i].final >> :
                      i \in { j \in Shown : a.out[j].kind = "call" /\ Closed(j) } }
             C(k) == [ kind |-> "call", key |-> k, text |-> FinalArguments(a.calls[k]),
                       pos |-> CallsFrom(a) + Rank(Named(a), k) ]
  <2>4. \A r : r \in a.response /\ r.kind = "call" <=> \E k \in Named(a) : r = C(k)
    <3>1. SUFFICES ASSUME NEW r
                   PROVE  r \in a.response /\ r.kind = "call" <=> \E k \in Named(a) : r = C(k)
      OBVIOUS
    <3> QED BY <2>3, OutputItems
  <2>5. \A k \in Named(a) : C(k).key = k /\ C(k).text = FinalArguments(a.calls[k])
    OBVIOUS
  <2> HIDE DEF C
  <2>6. L \subseteq R
    <3>1. SUFFICES ASSUME NEW k \in Named(a)
                   PROVE  << k, FinalArguments(a.calls[k]) >> \in R
      BY <2>4, <2>5
    <3> DEFINE i == a.calls[k].idx
    <3>2. i \in DOMAIN a.out /\ a.out[i].kind = "call" /\ a.out[i].key = k
      BY <2>3 DEF Delivered, AllAnnounced, OwnIndices, Named
    <3>3. a.out[i].closed > 0 /\ a.out[i].final = FinalArguments(a.calls[k])
      BY <2>3, <3>2 DEF Shut
    <3> HIDE DEF i
    <3>4. i \in { j \in Shown : a.out[j].kind = "call" /\ Closed(j) }
      BY <3>2, <3>3 DEF Shown, Closed
    <3> QED BY <3>2, <3>3, <3>4
  <2>7. R \subseteq L
    <3>1. SUFFICES ASSUME NEW i \in DOMAIN a.out, a.out[i].kind = "call"
                   PROVE  << a.out[i].key, a.out[i].final >> \in L
      BY DEF Shown
    <3> DEFINE k == a.out[i].key
    <3>2. k \in Named(a) /\ a.out[i].final = FinalArguments(a.calls[k])
      BY <2>3, <3>1 DEF Shut
    <3>3. C(k) \in { x \in a.response : x.kind = "call" }
      BY <2>4, <3>2
    <3>4. << C(k).key, C(k).text >> \in L
      BY <3>3
    <3> HIDE DEF k, L
    <3> QED BY <2>5, <3>2, <3>4 DEF k
  <2> QED BY <2>6, <2>7 DEF CallsDelivered
<1> QED BY <1>1, Invariant, Telling, PTL

(***************************************************************************)
(* A stream that was cut off is not reported as completed.                 *)
(***************************************************************************)
THEOREM CutStreamsReported == Spec => []TruncationReported
<1>1. IInv /\ JInv => TruncationReported
  BY DEF IInv, JInv, TruncationReported, Absent
<1> QED BY <1>1, Invariant, Telling, PTL

\* Sending arguments leaves the calls as they are.
LEMMA EmitKeepsCalls ==
    ASSUME NEW b, Good(b), NEW k \in Indices, NEW t \in Text
    PROVE  EmitArguments(b, k, t).calls = b.calls
<1> DEFINE c == EmitArguments(b, k, t)
           i == b.calls[k].idx
<1>1. CASE b.calls[k].added /\ b.calls[k].name \notin CustomNames
  <2>1. c = Delta(b, i, t)
    BY <1>1 DEF EmitArguments
  <2>2. i \in 0..(b.next - 1)
    BY <1>1, ItemsApart
  <2>3. Frame(b, c, { "out" })
    BY <2>1, <2>2, DeltaGood
  <2> HIDE DEF c
  <2>4. c.calls = b.calls
    BY <2>3 DEF Frame, Fields
  <2> QED BY <2>4 DEF c
<1>2. CASE ~(b.calls[k].added /\ b.calls[k].name \notin CustomNames)
  BY <1>2 DEF EmitArguments
<1> QED BY <1>1, <1>2

\* Announcing a call leaves its arguments and its name as they are.
LEMMA StartKeepsWords ==
    ASSUME NEW b, Good(b), NEW k \in Indices
    PROVE  \A j \in Indices :
             /\ EnsureToolStarted(b, k).calls[j].args = b.calls[j].args
             /\ EnsureToolStarted(b, k).calls[j].name = b.calls[j].name
<1> DEFINE x == IF b.buffered THEN b ELSE FinishText(b)
           y == FinishReasoning(x)
           c == [ Announce(y, "call", k, y.calls[k].id)
                  EXCEPT !.calls[k] = Announced(y.calls[k], y.calls[k].id, y.next) ]
           d == EmitArguments(c, k, c.calls[k].args)
<1>1. CASE b.calls[k].added \/ b.calls[k].id = NoId \/ b.calls[k].name = Absent
  BY <1>1 DEF EnsureToolStarted
<1>2. CASE ~(b.calls[k].added \/ b.calls[k].id = NoId \/ b.calls[k].name = Absent)
  <2>1. EnsureToolStarted(b, k) = d
    BY <1>2 DEF EnsureToolStarted
  <2>2. Good(x) /\ x.calls = b.calls
    BY FinishTextGood DEF KeepsCalls
  <2> HIDE DEF x
  <2>3. Good(y) /\ y.calls = b.calls
    BY <2>2, FinishReasoningGood DEF KeepsCalls
  <2> HIDE DEF y
  <2>4. /\ Good(c)
        /\ c.calls[k] = Announced(y.calls[k], y.calls[k].id, y.next)
        /\ \A j \in Indices \ { k } : c.calls[j] = y.calls[j]
    <3>1. ~y.calls[k].added /\ y.calls[k].id # NoId /\ y.calls[k].name # Absent
      BY <1>2, <2>3
    <3> QED BY <2>3, <3>1, StartCallGood, StartCallFields, ZenonT(60)
  <2> HIDE DEF c
  <2>5. /\ c.calls[k].args = y.calls[k].args /\ c.calls[k].args \in Text
        /\ c.calls[k].name = y.calls[k].name
    BY <2>4 DEF Announced, Good, AssemblerType, Call
  <2>6. d.calls = c.calls
    BY <2>4, <2>5, EmitKeepsCalls
  <2> HIDE DEF d
  <2> QED BY <2>1, <2>3, <2>4, <2>5, <2>6
<1> QED BY <1>1, <1>2, SMTT(30)

(***************************************************************************)
(* A delta of a call adds its arguments to those of that call, and may     *)
(* give it its name.                                                       *)
(***************************************************************************)
LEMMA DeltaAddsArgs ==
    ASSUME NEW b, Good(b), Told(b), NEW k \in Indices, NEW id \in Ids,
           NEW name \in Names \cup { Absent }, NEW args \in Text
    PROVE  LET d == AcceptToolDelta(b, k, id, name, args)
           IN  \A j \in Indices :
                 /\ d.calls[j].args = IF j = k THEN b.calls[k].args \o args ELSE b.calls[j].args
                 /\ d.calls[j].name = IF j = k /\ name # Absent /\ ~b.calls[k].added THEN name
                                      ELSE b.calls[j].name
<1> DEFINE was == b.calls[k]
           now == [ id    |-> IF id # NoId /\ ~was.added THEN id ELSE was.id,
                    name  |-> IF name # Absent /\ ~was.added THEN name ELSE was.name,
                    args  |-> was.args \o args,
                    added |-> was.added,
                    idx   |-> was.idx ]
           c == [ b EXCEPT !.calls[k] = now ]
           e == EnsureToolStarted(c, k)
           d == AcceptToolDelta(b, k, id, name, args)
<1>1. was \in Call /\ was.args \in Text
  BY DEF Good, AssemblerType, Call
<1>2. /\ now \in Call /\ now.added = was.added /\ now.idx = was.idx
      /\ (now.added => now.id = was.id /\ now.name = was.name)
      /\ now.args = was.args \o args
      /\ now.name = IF name # Absent /\ ~was.added THEN name ELSE was.name
  <2>1. was.args \o args \in Text
    BY <1>1, TextConcat
  <2> QED BY <1>1, <2>1 DEF Call
<1>3. d = IF was.added THEN EmitArguments(e, k, args) ELSE e
  BY DEF AcceptToolDelta
<1> HIDE DEF now, d
<1>4. /\ Good(c) /\ c.calls[k] = now
      /\ \A j \in Indices \ { k } : c.calls[j] = b.calls[j]
  BY <1>2, SetCallGood, SetCallFields
<1> HIDE DEF c
<1>5. /\ Good(e)
      /\ \A j \in Indices : e.calls[j].args = c.calls[j].args /\ e.calls[j].name = c.calls[j].name
  BY <1>4, EnsureToolStartedGood, StartKeepsWords
<1> HIDE DEF e
<1>6. d.calls = e.calls
  BY <1>3, <1>5, EmitKeepsCalls
<1>7. \A j \in Indices :
        /\ d.calls[j].args = IF j = k THEN was.args \o args ELSE b.calls[j].args
        /\ d.calls[j].name = IF j = k /\ name # Absent /\ ~was.added THEN name
                             ELSE b.calls[j].name
  BY <1>2, <1>4, <1>5, <1>6
<1> QED BY <1>7 DEF d

------------------------------------------------------------------------------
(***************************************************************************)
(* Orderly upstreams.  The assembler arranges its items as the response    *)
(* will list them; h is what was heard.  No reasoning comes once the       *)
(* reasoning item is closed, since the content or the calls that closed it *)
(* were heard before; and no text is held back when a call comes.          *)
(***************************************************************************)
Arranged(b, h) ==
    /\ Laid(b) /\ InTurn(b) /\ ~b.tDone
    /\ h.tools => b.buffered /\ b.think # "InThink" /\ (b.think = "Detecting" => b.buf = << >>)
    /\ ~h.tools => \A k \in Indices : b.calls[k] = NewCall
    /\ b.rDone => h.content # << >> \/ h.tools
    /\ h.content = << >> => b.content = << >> /\ b.buf = << >> /\ b.think # "InThink"

OInv ==
    /\ phase # "ended" => Arranged(a, heard)
    /\ phase = "ended" => TextsExact(a) /\ Proper(a) /\ (a.terminal \in Success => Mirrors(a))

\* An arranged assembler can be finalized.
LEMMA ArrangedQuiet ==
    ASSUME NEW b, Good(b), NEW h, h.tools \in BOOLEAN, Arranged(b, h)
    PROVE  Quiet(b) /\ (HasToolOutput(b) => b.buffered)
<1>1. b.think \in Thinking
  BY DEF Good, AssemblerType
<1>2. CASE h.tools
  BY <1>1, <1>2 DEF Arranged, Quiet, Thinking
<1>3. CASE ~h.tools
  <2>1. \A k \in Indices : b.calls[k] = NewCall
    BY <1>3 DEF Arranged
  <2> QED BY <2>1 DEF Quiet, Uncalled, HasToolOutput, Named, NewCall
<1> QED BY <1>2, <1>3

(***************************************************************************)
(* Reasoning comes before everything else.                                 *)
(***************************************************************************)
LEMMA ReasoningArranged ==
    ASSUME NEW b, Good(b), Told(b), Thought(b), NEW h, Arranged(b, h),
           h.content = << >>, ~h.tools, NEW t \in Text, NEW g,
           g.content = h.content, g.tools = h.tools
    PROVE  Arranged(AcceptReasoning(b, t), g) /\ Still(b, AcceptReasoning(b, t))
<1> DEFINE c == AcceptReasoning(b, t)
<1>1. b.content = << >> /\ b.buf = << >> /\ b.think # "InThink" /\ ~b.rDone
      /\ Laid(b) /\ ~b.tDone /\ \A k \in Indices : b.calls[k] = NewCall
  BY DEF Arranged
<1>2. /\ Tells(b, c) /\ Thought(c)
      /\ Says(b, c) /\ c.content = << >> /\ c.buf = << >> /\ c.think = "Done" /\ ~c.rDone
  BY <1>1, AcceptReasoningTells
<1> HIDE DEF c
<1>3. Uncalled(b)
  BY <1>1 DEF Uncalled, NewCall
<1>4. Laid(c) /\ c.calls = b.calls /\ c.tDone = b.tDone
  BY <1>1, <1>2, <1>3 DEF Says
<1>5. InTurn(c)
  BY <1>4 DEF Arranged, InTurn, Proper
<1>6. Still(b, c)
  BY <1>1, <1>2, StillGrows DEF Tells
<1> QED BY <1>1, <1>2, <1>4, <1>5, <1>6 DEF Arranged, c

(***************************************************************************)
(* Content comes before the calls.                                         *)
(***************************************************************************)
LEMMA ContentArranged ==
    ASSUME NEW b, Good(b), Told(b), Thought(b), NEW h, Arranged(b, h),
           ~h.tools, NEW t \in Text, NEW g, g.content # << >>, g.tools = h.tools
    PROVE  Arranged(AcceptContent(b, t), g) /\ Still(b, AcceptContent(b, t))
<1> DEFINE c == AcceptContent(b, t)
<1>1. Laid(b) /\ ~b.tDone /\ \A k \in Indices : b.calls[k] = NewCall
  BY DEF Arranged
<1>2. /\ Says(b, c)
      /\ b.rDone => c.reasoning = b.reasoning
  BY AcceptContentSays
<1> HIDE DEF c
<1>3. Uncalled(b)
  BY <1>1 DEF Uncalled, NewCall
<1>4. Laid(c) /\ c.calls = b.calls /\ c.tDone = b.tDone
  BY <1>1, <1>2, <1>3 DEF Says
<1>5. InTurn(c)
  BY <1>4 DEF Arranged, InTurn, Proper
<1>6. Still(b, c)
  BY <1>1, <1>2, StillGrows DEF Says, Tells
<1> QED BY <1>1, <1>4, <1>5, <1>6 DEF Arranged, c

(***************************************************************************)
(* Calls come in the order of their keys.                                  *)
(***************************************************************************)
LEMMA ToolsArranged ==
    ASSUME NEW b, Good(b), Told(b), Thought(b), NEW h, h.tools \in BOOLEAN, Arranged(b, h),
           b.buffered, NEW k \in Indices, \A j \in Indices : j < k => b.calls[j].added,
           NEW id \in Ids, NEW name \in Names \cup { Absent }, name \notin BlankNames,
           NEW args \in Text, NEW g, g.content = h.content, g.tools
    PROVE  LET d == AcceptToolDelta(BeginTools(b), k, id, name, args)
           IN  Arranged(d, g) /\ Still(b, d)
<1> DEFINE c == BeginTools(b)
           d == AcceptToolDelta(c, k, id, name, args)
<1>1. Laid(b) /\ InTurn(b) /\ ~b.tDone /\ Quiet(b)
  BY ArrangedQuiet DEF Arranged
<1>2. /\ Tells(b, c) /\ Thought(c) /\ c.calls = b.calls /\ c.tDone = b.tDone
      /\ c.think # "InThink" /\ (c.think = "Detecting" => c.buf = << >>)
      /\ b.think = "Done" => c.reasoning = b.reasoning
      /\ Laid(c)
  BY <1>1, BeginToolsTells DEF Quiet
<1>3. ASSUME g.content = << >> PROVE c.content = << >> /\ c.buf = << >>
  <2>1. b.content = << >> /\ b.buf = << >> /\ b.think # "InThink"
    BY <1>3 DEF Arranged
  <2>2. Frame(b, c, { "out", "rDone" })
    BY <2>1, BeginToolsQuietly
  <2> HIDE DEF c
  <2> QED BY <2>1, <2>2 DEF Frame, Fields
<1> HIDE DEF c
<1>4. Good(c) /\ Told(c) /\ c.buffered = b.buffered /\ Grows(b, c)
  BY <1>2 DEF Tells, Frame, Fields, Spoken
<1>5. ~c.calls[k].added => \A j \in Added(c) : j < k
  <2>1. SUFFICES ASSUME ~b.calls[k].added, NEW j \in Indices, b.calls[j].added
                 PROVE  j < k
    BY <1>2 DEF Added
  <2>2. b.calls[j] # NewCall
    BY <2>1 DEF NewCall
  <2>3. ~(k < j) /\ j # k
    BY <1>1, <2>1, <2>2 DEF InTurn
  <2>4. j \in Nat /\ k \in Nat
    BY IndicesAssumption
  <2> QED BY <2>3, <2>4
<1>6. /\ Laid(d)
      /\ \A j \in Indices \ { k } : d.calls[j] = c.calls[j]
      /\ c.calls[k].added => d.calls[k].added
  BY <1>2, <1>4, <1>5, AcceptToolDeltaLaid
<1>7. /\ Tells(c, d)
      /\ Frame(c, d, { "out", "rDone", "next", "tIdx", "tDone", "calls" })
  BY <1>4, AcceptToolDeltaTold
<1>13. \A j \in Indices :
         d.calls[j].name = IF j = k /\ name # Absent /\ ~c.calls[k].added THEN name
                           ELSE c.calls[j].name
  BY <1>4, DeltaAddsArgs
<1> HIDE DEF d
<1>8. /\ d.think = c.think /\ d.buf = c.buf /\ d.content = c.content
      /\ d.reasoning = c.reasoning /\ d.buffered = c.buffered
  BY <1>7 DEF Frame, Fields
<1>9. ~d.tDone
  BY <1>4, <1>7, <1>8 DEF Tells, Told, HeldBack, Good, Marked
<1>10. InTurn(d)
  <2>0. Proper(d)
    BY <1>1, <1>2, <1>13 DEF InTurn, Proper
  <2>1. SUFFICES ASSUME NEW m \in Indices, d.calls[m] # NewCall, NEW j \in Indices, j < m
                 PROVE  d.calls[j].added
    BY <2>0 DEF InTurn
  <2>2. b.calls[j].added
    <3>1. CASE m = k
      BY <2>1, <3>1
    <3>2. CASE m # k
      BY <1>1, <1>2, <1>6, <2>1, <3>2 DEF InTurn
    <3> QED BY <3>1, <3>2
  <2> QED BY <1>2, <1>6, <2>2
<1>11. Arranged(d, g)
  BY <1>2, <1>3, <1>4, <1>6, <1>8, <1>9, <1>10 DEF Arranged
<1>12. Still(b, d)
  <2>1. Grows(b, d)
    BY <1>4, <1>7, GrowsTransitive DEF Tells, Good
  <2>2. b.rDone => d.reasoning = b.reasoning
    BY <1>2, <1>8 DEF Thought
  <2> QED BY <1>1, <2>1, <2>2, StillGrows
<1> QED BY <1>11, <1>12 DEF c, d

\* A finish reason does not move anything.
LEMMA FinishArranged ==
    ASSUME NEW b, Good(b), NEW h, Arranged(b, h), NEW c, Frame(b, c, { "finish" }),
           NEW g, g.content = h.content, g.tools = h.tools
    PROVE  Arranged(c, g) /\ Still(b, c)
<1>1. /\ c.rIdx = b.rIdx /\ c.tIdx = b.tIdx /\ c.calls = b.calls /\ c.out = b.out
      /\ c.reasoning = b.reasoning /\ c.content = b.content /\ c.buffered = b.buffered
      /\ c.think = b.think /\ c.rDone = b.rDone /\ c.tDone = b.tDone /\ c.buf = b.buf
      /\ c.next = b.next
  BY DEF Frame, Fields
<1>2. Laid(c)
  BY <1>1, LaidFields DEF Arranged, Laid
<1>3. InTurn(c)
  BY <1>1 DEF Arranged, InTurn, Proper
<1> QED BY <1>1, <1>2, <1>3 DEF Arranged, Still

(***************************************************************************)
(* The client's view goes on: no item is taken back, the text of an open   *)
(* item only grows and a closed item stays as it is.                       *)
(***************************************************************************)
Onward(b, c) ==
    /\ b.next =< c.next
    /\ \A i \in 0..(b.next - 1) :
         /\ Continues(b.out[i], c.out[i])
         /\ b.out[i].closed > 0 => c.out[i] = b.out[i]

\* A method that makes the assembler grow and leaves closed items alone.
LEMMA OnwardGrows ==
    ASSUME NEW b, NEW c, Grows(b, c), Still(b, c)
    PROVE  Onward(b, c)
  BY DEF Grows, Still, Onward

\* A step the client does not see.
LEMMA OnwardSilently ==
    ASSUME NEW b, AssemblerType(b), NEW c, c.out = b.out, c.next = b.next
    PROVE  Onward(b, c)
<1>1. Grows(b, b)
  BY GrowsReflexive
<1>2. \A i \in 0..(b.next - 1) : Continues(b.out[i], c.out[i])
  BY <1>1 DEF Grows
<1>3. b.next =< c.next
  BY DEF AssemblerType
<1> QED BY <1>2, <1>3 DEF Onward

\* The state a method is in after a part was heard.
LEMMA HearArranged ==
    ASSUME NEW b, NEW part, Hear(b, part), part \in Heard, Arranged(b, part),
           Good(a), Still(a, b), Grows(a, b)
    PROVE  OInv' /\ Onward(a, a')
<1>1. phase' = "reading" /\ a' = b /\ heard' = [ part EXCEPT !.parts = @ + 1 ]
  BY DEF Hear
<1>2. heard'.content = part.content /\ heard'.tools = part.tools
  BY <1>1 DEF Heard
<1>3. Arranged(a', heard')
  BY <1>1, <1>2 DEF Arranged
<1>4. Onward(a, a')
  BY <1>1, OnwardGrows
<1> QED BY <1>1, <1>3, <1>4 DEF OInv

\* A stream that fails shows nothing new.
LEMMA FailArranged ==
    ASSUME IInv, JInv, OInv, phase # "ended", NEW how, End(Fail(a), how)
    PROVE  OInv' /\ Onward(a, a')
<1>1. /\ Good(a) /\ Told(a) /\ a.terminal = Absent /\ AssemblerType(a)
      /\ Laid(a) /\ ~a.tDone /\ Proper(a)
  BY DEF IInv, JInv, OInv, Arranged, InTurn, Good
<1>2. a' = Fail(a) /\ phase' = "ended"
  BY DEF End
<1>3. Frame(a, a', Verdict) /\ a'.terminal = "failed"
  BY <1>1, <1>2, FailConcludes
<1>4. TextsExact(a)
  BY <1>1, OpenTextsExact
<1>5. a'.out = a.out /\ a'.next = a.next /\ a'.calls = a.calls
  BY <1>3 DEF Frame, Fields, Verdict
<1>6. TextsExact(a') /\ Proper(a')
  BY <1>1, <1>4, <1>5 DEF TextsExact, Proper
<1>7. Onward(a, a')
  BY <1>1, <1>5, OnwardSilently
<1> QED BY <1>2, <1>3, <1>6, <1>7 DEF OInv, Success

\* A stream that is finalized, perhaps after it was marked as truncated.
LEMMA FinalizeArranged ==
    ASSUME IInv, JInv, OInv, phase # "ended", NEW how, NEW ok \in BOOLEAN, NEW b,
           b = a \/ (b = MarkTruncated(a) /\ a.finish = Absent), End(Finalize(b, ok), how)
    PROVE  OInv' /\ Onward(a, a')
<1> DEFINE c == Finalize(b, ok)
<1>1. /\ Good(a) /\ Told(a) /\ Thought(a) /\ a.terminal = Absent /\ a.stored = {}
      /\ Arranged(a, heard) /\ heard.tools \in BOOLEAN
  BY DEF IInv, JInv, OInv, TypedTask, Heard
<1>2. Frame(a, b, { "finish" })
  BY <1>1 DEF MarkTruncated, Good, AssemblerType, Frame, Fields
<1>3. Good(b)
  BY <1>1, FinishGood DEF Finishes
<1>4. /\ Told(b) /\ Thought(b)
      /\ b.terminal = Absent /\ b.stored = {} /\ b.out = a.out /\ b.next = a.next
  BY <1>1, <1>2, FinishTold DEF Frame, Fields
<1>5. Arranged(b, heard)
  BY <1>1, <1>2, FinishArranged
<1>6. Quiet(b) /\ (HasToolOutput(b) => b.buffered) /\ Laid(b) /\ InTurn(b) /\ ~b.tDone
  BY <1>1, <1>3, <1>5, ArrangedQuiet DEF Arranged
<1>7. Mirrors(c) /\ TextsExact(c) /\ Proper(c) /\ Still(b, c)
  BY <1>3, <1>4, <1>6, FinalizeMirrors
<1>8. Grows(b, c)
  BY <1>3, <1>4, FinalizeConcludes
<1>9. Onward(b, c)
  BY <1>7, <1>8, OnwardGrows
<1>10. a' = c /\ phase' = "ended"
  BY DEF End
<1> HIDE DEF c
<1>11. Onward(a, a')
  BY <1>4, <1>9, <1>10 DEF Onward
<1>12. OInv'
  BY <1>7, <1>10 DEF OInv
<1> QED BY <1>11, <1>12

(***************************************************************************)
(* The first state of an orderly stream.                                   *)
(***************************************************************************)
LEMMA InitArranged == Init => OInv
<1> SUFFICES ASSUME Init PROVE OInv
  OBVIOUS
<1>1. PICK buffered \in ToolsDeclared : a = NewAssembler(buffered)
  BY DEF Init
<1>2. buffered \in BOOLEAN
  BY PartsAssumption
<1>3. /\ Laid(a) /\ InTurn(a) /\ ~a.tDone /\ ~a.rDone /\ a.think = "Detecting"
      /\ a.content = << >> /\ a.buf = << >> /\ \A k \in Indices : a.calls[k] = NewCall
  BY <1>1, <1>2, NewTold
<1>4. phase # "ended" /\ heard.content = << >> /\ heard.tools = FALSE
  BY DEF Init
<1> QED BY <1>3, <1>4 DEF OInv, Arranged

(***************************************************************************)
(* With an orderly upstream every step keeps the arrangement, and what the *)
(* client was shown goes on.                                               *)
(***************************************************************************)
LEMMA StepArranged == Orderly /\ IInv /\ JInv /\ OInv /\ [Next]_vars => OInv' /\ Onward(a, a')
<1> SUFFICES ASSUME Orderly, IInv, JInv, OInv, [Next]_vars PROVE OInv' /\ Onward(a, a')
  OBVIOUS
<1>0. heard \in Heard /\ AssemblerType(a)
  BY DEF IInv, TypedTask, Good, Ending
<1>1. CASE Admitted \/ Connected
  <2>1. phase # "ended" /\ phase' # "ended" /\ UNCHANGED << a, heard >>
    BY <1>1 DEF Admitted, Connected
  <2>2. Onward(a, a')
    BY <1>0, <2>1, OnwardSilently
  <2> QED BY <2>1, <2>2 DEF OInv
<1>2. CASE Refused
  BY <1>2, FailArranged DEF Refused
<1>3. CASE ConnectFailed
  BY <1>3, FailArranged DEF ConnectFailed
<1>4. CASE ReasoningPart
  <2>1. PICK t \in ReasoningParts :
          /\ heard.content = << >> /\ ~heard.tools
          /\ Hear(AcceptReasoning(a, t), [ heard EXCEPT !.reasoning = @ \o t ])
    BY <1>4 DEF ReasoningPart
  <2>2. t \in Text /\ Good(a) /\ Told(a) /\ Thought(a) /\ Arranged(a, heard)
    BY <2>1, PartsAssumption DEF IInv, JInv, OInv, Hear
  <2> DEFINE b == AcceptReasoning(a, t)
             part == [ heard EXCEPT !.reasoning = @ \o t ]
  <2>3. heard.reasoning \o t \in Text
    BY <1>0, <2>2, TextConcat DEF Heard
  <2>4. part \in Heard /\ part.content = heard.content /\ part.tools = heard.tools
    BY <1>0, <2>3 DEF Heard
  <2>5. Grows(a, b)
    BY <2>2, AcceptReasoningTells DEF Tells
  <2>6. Hear(b, part)
    BY <2>1
  <2> HIDE DEF part
  <2>7. Arranged(b, part) /\ Still(a, b)
    BY <2>1, <2>2, <2>4, ReasoningArranged
  <2> HIDE DEF b
  <2> QED BY <2>2, <2>4, <2>5, <2>6, <2>7, HearArranged
<1>5. CASE ContentPart
  <2>1. PICK t \in ContentParts :
          /\ ~heard.tools
          /\ Hear(AcceptContent(a, t), [ heard EXCEPT !.content = @ \o t ])
    BY <1>5 DEF ContentPart
  <2>2. t \in Text /\ t # << >> /\ Good(a) /\ Told(a) /\ Thought(a) /\ Arranged(a, heard)
    BY <2>1, PartsAssumption DEF IInv, JInv, OInv, Hear
  <2> DEFINE b == AcceptContent(a, t)
             part == [ heard EXCEPT !.content = @ \o t ]
  <2>3. heard.content \o t \in Text /\ heard.content \o t # << >>
    <3>1. heard.content \in Text
      BY <1>0 DEF Heard
    <3> QED BY <2>2, <3>1, TextConcat, LongerConcat
  <2>4. part \in Heard /\ part.content # << >> /\ part.tools = heard.tools
    BY <1>0, <2>3 DEF Heard
  <2>5. Grows(a, b)
    BY <2>2, AcceptContentSays DEF Says, Tells
  <2>6. Hear(b, part)
    BY <2>1
  <2> HIDE DEF part
  <2>7. Arranged(b, part) /\ Still(a, b)
    BY <2>1, <2>2, <2>4, ContentArranged
  <2> HIDE DEF b
  <2> QED BY <2>2, <2>4, <2>5, <2>6, <2>7, HearArranged
<1>6. CASE ToolPart
  <2>1. PICK k \in Indices, id \in ToolIds, name \in Names \cup { Absent }, args \in ArgumentParts :
          /\ a.buffered /\ name \notin BlankNames
          /\ \A j \in Indices : j < k => a.calls[j].added
          /\ Hear(AcceptToolDelta(BeginTools(a), k, id, name, args),
                  [ heard EXCEPT !.tools = TRUE, !.args = HeardArguments(k, args) ])
    BY <1>6 DEF ToolPart
  <2>2. /\ args \in Text /\ Good(a) /\ Told(a) /\ Thought(a) /\ id \in Ids
        /\ Arranged(a, heard) /\ heard.tools \in BOOLEAN
    BY <1>0, <2>1, PartsAssumption DEF IInv, JInv, OInv, Hear, ToolIds, Ids, Heard
  <2> DEFINE c == BeginTools(a)
             b == AcceptToolDelta(c, k, id, name, args)
             now == HeardArguments(k, args)
             part == [ heard EXCEPT !.tools = TRUE, !.args = now ]
  <2>3. heard.args \in [ Indices -> Text ] /\ heard.args[k] \o args \in Text
    BY <1>0, <2>2, TextConcat DEF Heard
  <2>4. now \in [ Indices -> Text ]
    BY <2>3 DEF HeardArguments
  <2>5. Hear(b, part)
    BY <2>1
  <2>6. part \in Heard /\ part.content = heard.content /\ part.tools
    <3> HIDE DEF now
    <3> QED BY <1>0, <2>4 DEF Heard
  <2> HIDE DEF part, now
  <2>7. Arranged(b, part) /\ Still(a, b)
    BY <2>1, <2>2, <2>6, ToolsArranged
  <2>8. Tells(a, c) /\ Thought(c)
    BY <2>2, BeginToolsTells
  <2> HIDE DEF c
  <2>9. Tells(c, b)
    BY <2>2, <2>8, AcceptToolDeltaTold DEF Tells
  <2> HIDE DEF b
  <2>10. Grows(a, b)
    BY <2>2, <2>8, <2>9, TellsTransitive DEF Tells
  <2> QED BY <2>2, <2>5, <2>6, <2>7, <2>10, HearArranged
<1>7. CASE EmptyToolPart
  BY <1>7 DEF EmptyToolPart
<1>8. CASE FinishPart
  <2>1. PICK reason \in FinishReasons :
          Hear(AcceptFinish(a, reason), [ heard EXCEPT !.finish = TRUE ])
    BY <1>8 DEF FinishPart
  <2>2. /\ phase # "ended" /\ phase' # "ended" /\ a' = AcceptFinish(a, reason)
        /\ heard'.content = heard.content /\ heard'.tools = heard.tools
    BY <1>0, <2>1 DEF Hear, Heard
  <2>3. Good(a) /\ Arranged(a, heard)
    BY <2>2 DEF IInv, OInv
  <2>4. Frame(a, a', { "finish" })
    BY <1>0, <2>2 DEF AcceptFinish, AssemblerType, Frame, Fields
  <2>5. Arranged(a', heard')
    BY <2>2, <2>3, <2>4, FinishArranged
  <2>6. a'.out = a.out /\ a'.next = a.next
    BY <2>4 DEF Frame, Fields
  <2>7. Onward(a, a')
    BY <1>0, <2>6, OnwardSilently
  <2> QED BY <2>2, <2>5, <2>7 DEF OInv
<1>9. CASE UpstreamError
  BY <1>9, FailArranged DEF UpstreamError
<1>10. CASE ReadFailed
  BY <1>10, FailArranged DEF ReadFailed
<1>11. CASE UpstreamDone
  BY <1>11, FinalizeArranged DEF UpstreamDone
<1>12. CASE EndOfBody
  <2>1. PICK ok \in BOOLEAN :
          /\ phase = "reading"
          /\ \/ End(Finalize(a, ok), "eof")
             \/ a.finish = Absent /\ End(Finalize(MarkTruncated(a), ok), "eof")
             \/ End(Fail(a), "eof")
    BY <1>12 DEF EndOfBody
  <2>2. CASE End(Finalize(a, ok), "eof")
    BY <2>1, <2>2, FinalizeArranged
  <2>3. CASE a.finish = Absent /\ End(Finalize(MarkTruncated(a), ok), "eof")
    BY <2>1, <2>3, FinalizeArranged
  <2>4. CASE End(Fail(a), "eof")
    BY <2>1, <2>4, FailArranged
  <2> QED BY <2>1, <2>2, <2>3, <2>4
<1>13. CASE Ended \/ UNCHANGED vars
  <2>1. UNCHANGED << phase, a, done, heard >>
    BY <1>13 DEF Ended, vars
  <2>2. Onward(a, a')
    BY <1>0, <2>1, OnwardSilently
  <2> QED BY <2>1, <2>2 DEF OInv
<1> QED BY <1>1, <1>2, <1>3, <1>4, <1>5, <1>6, <1>7, <1>8, <1>9, <1>10, <1>11, <1>12,
           <1>13 DEF Next

(***************************************************************************)
(* In every reachable state of an orderly stream the items are arranged as *)
(* the response will list them, and once it ended they are.                *)
(***************************************************************************)
THEOREM Arrangement == Orderly /\ Spec => []OInv
<1>1. Orderly /\ JInv /\ OInv /\ IInv /\ [Next]_vars => OInv'
  BY StepArranged
<1>2. CASE Orderly
  <2>1. JInv /\ OInv /\ IInv /\ [Next]_vars => OInv'
    BY <1>1, <1>2
  <2>2. Spec => []OInv
    BY <2>1, InitArranged, Invariant, Telling, PTL DEF Spec
  <2> QED BY <2>2
<1>3. CASE ~Orderly
  BY <1>3
<1> QED BY <1>2, <1>3

(***************************************************************************)
(* With an orderly upstream no delta of a reasoning or message item is     *)
(* lost, sent twice or sent after the item was closed.                     *)
(***************************************************************************)
THEOREM TextsClosedExactly == Orderly /\ Spec => []ClosedTextExact
<1>1. IInv /\ JInv /\ OInv => ClosedTextExact
  <2>1. SUFFICES ASSUME IInv, JInv, OInv PROVE ClosedTextExact
    OBVIOUS
  <2>2. TextsExact(a)
    <3>1. CASE phase # "ended"
      BY <2>1, <3>1, OpenTextsExact DEF IInv, JInv, OInv, Arranged
    <3>2. CASE phase = "ended"
      BY <2>1, <3>2 DEF OInv
    <3> QED BY <3>1, <3>2
  <2> QED BY <2>2 DEF TextsExact, ClosedTextExact, Shown, Closed
<1> QED BY <1>1, Invariant, Telling, Arrangement, PTL

(***************************************************************************)
(* With an orderly upstream the output array of the terminal event and the *)
(* items of the stream are the same, at the same places.                   *)
(***************************************************************************)
THEOREM StreamIsMirrored == Orderly /\ Spec => []ResponseMirrorsStream
<1>1. IInv /\ JInv /\ OInv => ResponseMirrorsStream
  <2>1. SUFFICES ASSUME IInv, JInv, OInv, a.terminal \in Success
                 PROVE  ResponseMirrorsStream
    BY DEF ResponseMirrorsStream
  <2>2. phase = "ended"
    BY <2>1 DEF IInv, Success, Absent
  <2>3. Mirrors(a) /\ a.response = Output(a)
    BY <2>1, <2>2 DEF OInv, JInv, Concluded, Success
  <2> QED BY <2>3 DEF Mirrors, ResponseMirrorsStream, Shown
<1> QED BY <1>1, Invariant, Telling, Arrangement, PTL

------------------------------------------------------------------------------
(***************************************************************************)
(* The refinement: with an orderly upstream the stream is one that the     *)
(* client of ResponsesStream can rely on.                                  *)
(***************************************************************************)

\* More text begins with the text there was.
LEMMA PrefixOfMore ==
    ASSUME NEW s \in Text, NEW u \in Text
    PROVE  Client!IsPrefix(s, s \o u)
<1>1. Len(s \o u) = Len(s) + Len(u) /\ Len(s) \in Nat /\ Len(u) \in Nat /\ s \o u \in Text
  BY TextConcat
<1>2. SubSeq(s, 1, Len(s)) = SubSeq(s \o u, 1, Len(s))
  <2>1. CASE Len(s) = 0
    <3>1. SubSeq(s, 1, 0) = << >> /\ SubSeq(s \o u, 1, 0) = << >>
      BY SubSeqEmpty
    <3> QED BY <2>1, <3>1
  <2>2. CASE Len(s) # 0
    <3>1. 1 \in 1..Len(s) /\ Len(s) \in 1..Len(s)
      BY <1>1, <2>2
    <3> QED BY <3>1, SubSeqOfConcat1 DEF Text
  <2> QED BY <2>1, <2>2
<1>3. Len(s) <= Len(s \o u)
  BY <1>1
<1> QED BY <1>2, <1>3 DEF Client!IsPrefix

\* The items as the client sees them.
Items == [ i \in Shown |-> [ kind |-> a.out[i].kind, key |-> a.out[i].key,
                             text |-> a.out[i].text, closed |-> Closed(i) ] ]

\* What a step adds the client can follow.
LEMMA OnwardFollows ==
    ASSUME AssemblerType(a), AssemblerType(a)', Onward(a, a')
    PROVE  Client!Grow
<1>1. Shown = 0..(a.next - 1) /\ a.next \in Nat
  BY DEF AssemblerType, Shown
<1>2. Shown' = 0..(a'.next - 1) /\ a'.next \in Nat
  BY DEF AssemblerType, Shown
<1>3. \A i \in Shown' : i \in Nat /\ 0..i \subseteq Shown'
  BY <1>2
<1>4. Shown \subseteq Shown'
  BY <1>1, <1>2 DEF Onward
<1>5. ASSUME NEW i \in Shown
      PROVE  /\ a'.out[i].kind = a.out[i].kind /\ a'.out[i].key = a.out[i].key
             /\ Client!IsPrefix(a.out[i].text, a'.out[i].text)
             /\ Closed(i) => a'.out[i] = a.out[i]
  <2>1. Continues(a.out[i], a'.out[i]) /\ (a.out[i].closed > 0 => a'.out[i] = a.out[i])
    BY <1>1, <1>5 DEF Onward
  <2>2. a.out[i].text \in Text
    BY <1>1, <1>5 DEF AssemblerType, Item
  <2>3. PICK u \in Text : a'.out[i].text = a.out[i].text \o u
    BY <2>1 DEF Continues
  <2>4. Client!IsPrefix(a.out[i].text, a'.out[i].text)
    BY <2>2, <2>3, PrefixOfMore
  <2> QED BY <2>1, <2>4 DEF Continues, Closed
<1>6. ASSUME NEW i \in Shown
      PROVE  Client!Follows(Items[i], Items'[i])
  <2>1. i \in Shown'
    BY <1>4, <1>6
  <2> DEFINE v == Items[i]
             w == Items'[i]
  <2>2. /\ v = [ kind |-> a.out[i].kind, key |-> a.out[i].key,
                 text |-> a.out[i].text, closed |-> a.out[i].closed > 0 ]
        /\ w = [ kind |-> a'.out[i].kind, key |-> a'.out[i].key,
                 text |-> a'.out[i].text, closed |-> a'.out[i].closed > 0 ]
    BY <1>6, <2>1 DEF Items, Closed
  <2> HIDE DEF v, w
  <2>3. w.kind = v.kind /\ w.key = v.key /\ Client!IsPrefix(v.text, w.text)
    BY <1>5, <1>6, <2>2
  <2>4. v.closed => w = v
    <3>1. v.closed => a'.out[i] = a.out[i]
      BY <1>5, <1>6, <2>2 DEF Closed
    <3> QED BY <2>2, <3>1
  <2>5. Client!Follows(v, w)
    BY <2>3, <2>4 DEF Client!Follows
  <2> QED BY <2>5 DEF v, w
<1>7. DOMAIN Items = Shown /\ DOMAIN Items' = Shown'
  BY DEF Items
<1> QED BY <1>3, <1>4, <1>6, <1>7 DEF Client!Grow, Items

\* Nothing was announced yet.
LEMMA InitClient == Init => Client!Init
<1> SUFFICES ASSUME Init PROVE Client!Init
  OBVIOUS
<1>1. PICK buffered \in ToolsDeclared : a = NewAssembler(buffered)
  BY DEF Init
<1>2. a.out = << >> /\ a.terminal = Absent
  BY <1>1 DEF NewAssembler
<1>3. Shown = {}
  BY <1>2, DOMAIN << >> = {} DEF Shown
<1>4. Items = << >>
  <2>1. DOMAIN Items = {}
    BY <1>3 DEF Items
  <2>2. Items = [ i \in {} |-> Items[i] ]
    BY <1>3 DEF Items
  <2> QED BY <2>2
<1> QED BY <1>2, <1>4 DEF Init, Client!Init, Items, Absent

\* No item is left open by a success.
AllShut == phase = "ended" /\ a.terminal \in Success => \A i \in Shown : Closed(i)

(***************************************************************************)
(* When an orderly stream ended in success the client has no open item:    *)
(* a message and a call never meet in it, since the response mirrors it.   *)
(***************************************************************************)
LEMMA SuccessShutsAll == JInv /\ OInv => AllShut
<1> SUFFICES ASSUME JInv, OInv, phase = "ended", a.terminal \in Success, NEW i \in Shown
             PROVE  Closed(i)
  BY DEF AllShut
<1>1. Shut(a) /\ Mirrors(a)
  BY DEF JInv, OInv, Concluded, Success
<1>2. CASE a.out[i].kind # "message"
  BY <1>1, <1>2 DEF Shut, Shown, Closed
<1>3. CASE a.out[i].kind = "message"
  <2>1. PICK r \in Output(a) : r.pos = i
    BY <1>1 DEF Mirrors, Shown
  <2>2. r.kind = "message"
    BY <1>1, <1>3, <2>1 DEF Mirrors
  <2>3. ~HasToolOutput(a)
    BY <2>1, <2>2 DEF Output
  <2> QED BY <1>1, <2>3 DEF Shut, Shown, Closed
<1> QED BY <1>2, <1>3

(***************************************************************************)
(* A step of an orderly stream is a step the client can rely on.           *)
(***************************************************************************)
LEMMA StepClient ==
    ASSUME IInv, IInv', AllShut', Onward(a, a'), [Next]_vars
    PROVE  [Client!Next]_Client!vars
<1>1. AssemblerType(a) /\ AssemblerType(a')
  BY DEF IInv, Good, Ending
<1>2. Client!Grow
  BY <1>1, OnwardFollows
<1>3. CASE phase = "ended"
  <2>1. UNCHANGED << a, done >>
    BY <1>3 DEF Next, vars, Admitted, Refused, Connected, ConnectFailed, ReasoningPart,
                ContentPart, ToolPart, EmptyToolPart, FinishPart, UpstreamDone, UpstreamError,
                ReadFailed, EndOfBody, Ended, Hear
  <2> QED BY <2>1 DEF Client!vars, Shown, Closed
<1>4. CASE phase # "ended" /\ phase' # "ended"
  <2>1. a.terminal = Absent /\ a'.terminal = Absent
    BY <1>4 DEF IInv
  <2>2. done' = done
    BY <1>4 DEF Next, vars, Admitted, Refused, Connected, ConnectFailed, ReasoningPart,
                ContentPart, ToolPart, EmptyToolPart, FinishPart, UpstreamDone, UpstreamError,
                ReadFailed, EndOfBody, Ended, Hear, End
  <2> QED BY <1>2, <2>1, <2>2 DEF Client!Next, Client!Progress, Absent
<1>5. CASE phase # "ended" /\ phase' = "ended"
  <2>1. a.terminal = Absent
    BY <1>5 DEF IInv
  <2>2. a'.terminal \in { "completed", "incomplete", "failed" }
    BY <1>1, <1>5 DEF IInv, Ending, AssemblerType, Outcome, Terminals
  <2>3. done' = TRUE
    BY <1>5 DEF Next, vars, Admitted, Refused, Connected, ConnectFailed, ReasoningPart,
                ContentPart, ToolPart, EmptyToolPart, FinishPart, UpstreamDone, UpstreamError,
                ReadFailed, EndOfBody, Ended, Hear, End
  <2>4. a'.terminal # "failed" => \A i \in Shown' : Items'[i].closed
    <3>1. SUFFICES ASSUME a'.terminal # "failed", NEW i \in Shown'
                   PROVE  Items'[i].closed
      OBVIOUS
    <3>2. a'.terminal \in Success
      BY <2>2, <3>1 DEF Success
    <3>3. Closed(i)'
      BY <1>5, <3>1, <3>2 DEF AllShut
    <3> QED BY <3>1, <3>3 DEF Items
  <2>5. DOMAIN Items' = Shown'
    BY DEF Items
  <2> QED BY <1>2, <2>1, <2>2, <2>3, <2>4, <2>5 DEF Client!Next, Client!Finish, Items, Absent
<1> QED BY <1>3, <1>4, <1>5

(***************************************************************************)
(* With an orderly upstream the task keeps to what the client of a stream  *)
(* may rely on: items are numbered in a row and never taken back, texts    *)
(* only grow, closed items stay as they are, and a success leaves no item  *)
(* open.                                                                   *)
(***************************************************************************)
THEOREM Refinement == Orderly /\ Spec => ImplementsResponsesStream
<1>1. ASSUME Orderly, IInv, IInv', JInv, OInv, AllShut', [Next]_vars
      PROVE  [Client!Next]_Client!vars
  BY <1>1, StepArranged, StepClient
<1>2. CASE Orderly
  <2>1. IInv /\ IInv' /\ JInv /\ OInv /\ AllShut' /\ [Next]_vars
        => [Client!Next]_Client!vars
    BY <1>1, <1>2
  <2>2. Orderly /\ Spec => []OInv
    BY Arrangement
  <2>3. Spec => []OInv
    BY <1>2, <2>2
  <2>4. Spec => Client!Init /\ [][Client!Next]_Client!vars
    BY <2>1, <2>3, InitClient, SuccessShutsAll, Invariant, Telling, PTL DEF Spec
  <2> QED BY <2>4 DEF ImplementsResponsesStream, Client!Spec
<1>3. CASE ~Orderly
  BY <1>3
<1> QED BY <1>2, <1>3

------------------------------------------------------------------------------
(***************************************************************************)
(* A streamed answer and the same answer in one piece: the theorem that    *)
(* StreamedAsWhole holds of every orderly stream, whatever the texts are   *)
(* and wherever they are cut into deltas.                                  *)
(*                                                                         *)
(* The first part is about texts: their words, trimming, and the tags of a *)
(* think block in a text that goes on.  The second part is the invariant   *)
(* of a stream, which says for each state of the detection of think blocks *)
(* how what the assembler has gathered is the content heard so far.        *)
(***************************************************************************)

------------------------------------------------------------------------------
(***************************************************************************)
(* Texts and their parts.                                                  *)
(***************************************************************************)

\* The tokens of a text.
LEMMA TextAt ==
    ASSUME NEW s \in Text
    PROVE  /\ Len(s) \in Nat /\ DOMAIN s = 1..Len(s)
           /\ \A i \in 1..Len(s) : s[i] \in Token
           /\ Len(s) = 0 <=> s = << >>
  BY LenProperties, ElementOfSeq, TextConcat, EmptySeq DEF Text

\* The tokens of two texts, one after the other.
LEMMA ConcatAt ==
    ASSUME NEW s \in Text, NEW t \in Text
    PROVE  /\ s \o t \in Text /\ Len(s \o t) = Len(s) + Len(t)
           /\ \A i \in 1..Len(s) : (s \o t)[i] = s[i]
           /\ \A j \in 1..Len(t) : (s \o t)[Len(s) + j] = t[j]
<1>1. Len(s) \in Nat /\ Len(t) \in Nat
  BY TextAt
<1>2. /\ s \o t \in Text /\ Len(s \o t) = Len(s) + Len(t)
      /\ \A i \in 1..(Len(s) + Len(t)) :
           (s \o t)[i] = IF i <= Len(s) THEN s[i] ELSE t[i - Len(s)]
  BY ConcatProperties DEF Text
<1>3. \A i \in 1..Len(s) : (s \o t)[i] = s[i]
  BY <1>1, <1>2
<1>4. \A j \in 1..Len(t) : (s \o t)[Len(s) + j] = t[j]
  <2>1. TAKE j \in 1..Len(t)
  <2>2. Len(s) + j \in 1..(Len(s) + Len(t)) /\ ~(Len(s) + j <= Len(s)) /\ (Len(s) + j) - Len(s) = j
    BY <1>1, SMTT(30)
  <2> QED BY <1>2, <2>2
<1> QED BY <1>2, <1>3, <1>4

\* A text can be cut anywhere.
LEMMA CutText ==
    ASSUME NEW s \in Text, NEW n \in 0..Len(s)
    PROVE  /\ SubSeq(s, 1, n) \in Text /\ Len(SubSeq(s, 1, n)) = n
           /\ Drop(s, n) \in Text /\ Len(Drop(s, n)) = Len(s) - n
           /\ s = SubSeq(s, 1, n) \o Drop(s, n)
           /\ \A i \in 1..n : SubSeq(s, 1, n)[i] = s[i]
           /\ \A i \in 1..(Len(s) - n) : Drop(s, n)[i] = s[n + i]
<1>1. Len(s) \in Nat /\ \A i \in 1..Len(s) : s[i] \in Token
  BY TextAt
<1>2. n \in Nat /\ n <= Len(s)
  BY <1>1
<1>3. /\ SubSeq(s, 1, n) \in Text /\ Len(SubSeq(s, 1, n)) = n
      /\ \A i \in 1..n : SubSeq(s, 1, n)[i] = s[i]
  BY <1>1, <1>2, SubSeqProperties DEF Text
<1>4. /\ SubSeq(s, n + 1, Len(s)) \in Text
      /\ Len(SubSeq(s, n + 1, Len(s))) = Len(s) - n
      /\ \A i \in 1..(Len(s) - n) : SubSeq(s, n + 1, Len(s))[i] = s[n + i]
  <2>1. /\ SubSeq(s, n + 1, Len(s)) \in Seq(Token)
        /\ Len(SubSeq(s, n + 1, Len(s)))
           = IF n + 1 <= Len(s) THEN Len(s) - (n + 1) + 1 ELSE 0
        /\ \A i \in 1..(Len(s) - (n + 1) + 1) : SubSeq(s, n + 1, Len(s))[i] = s[(n + 1) + i - 1]
    BY <1>1, <1>2, SubSeqProperties
  <2>2. Len(s) - (n + 1) + 1 = Len(s) - n /\ \A i \in Int : (n + 1) + i - 1 = n + i
    BY <1>1, <1>2
  <2>3. \A i \in 1..(Len(s) - n) : SubSeq(s, n + 1, Len(s))[i] = s[n + i]
    BY <1>1, <1>2, <2>1, <2>2
  <2> QED BY <1>1, <1>2, <2>1, <2>3 DEF Text
<1>5. SubSeq(s, 1, n) \o SubSeq(s, n + 1, Len(s)) = SubSeq(s, 1, Len(s))
  <2>1. 1 \in 1..(Len(s) + 1) /\ n \in (1 - 1)..Len(s) /\ Len(s) \in n..Len(s)
    BY <1>1, <1>2
  <2> QED BY <2>1, ConcatAdjacentSubSeq DEF Text
<1>6. SubSeq(s, 1, Len(s)) = s
  BY SubSeqFull DEF Text
<1> QED BY <1>3, <1>4, <1>5, <1>6 DEF Drop

\* Where two texts meet they can be parted again.
LEMMA PartText ==
    ASSUME NEW s \in Text, NEW t \in Text
    PROVE  SubSeq(s \o t, 1, Len(s)) = s /\ Drop(s \o t, Len(s)) = t
<1> DEFINE w == s \o t
           u == SubSeq(w, 1, Len(s))
           v == Drop(w, Len(s))
<1>1. w \in Text /\ Len(w) = Len(s) + Len(t) /\ Len(s) \in Nat /\ Len(t) \in Nat
      /\ \A i \in 1..Len(s) : w[i] = s[i]
  BY ConcatAt, TextAt
<1>2. w = s \o t
  OBVIOUS
<1> HIDE DEF w
<1>3. Len(s) \in 0..Len(w)
  BY <1>1
<1>4. /\ u \in Text /\ Len(u) = Len(s) /\ v \in Text /\ w = u \o v
      /\ \A i \in 1..Len(s) : u[i] = w[i]
  BY <1>1, <1>3, CutText
<1> HIDE DEF u, v
<1>5. u = s
  BY <1>1, <1>4, SeqEqual DEF Text
<1>6. v = t
  BY <1>2, <1>4, <1>5, ConcatSimplifications DEF Text
<1> QED BY <1>5, <1>6 DEF u, v, w

\* Cutting the first of two texts.
LEMMA CutFirst ==
    ASSUME NEW s \in Text, NEW t \in Text, NEW n \in 0..Len(s)
    PROVE  /\ SubSeq(s \o t, 1, n) = SubSeq(s, 1, n)
           /\ Drop(s \o t, n) = Drop(s, n) \o t
<1> DEFINE u == SubSeq(s, 1, n)
           v == Drop(s, n)
<1>1. u \in Text /\ Len(u) = n /\ v \in Text /\ s = u \o v
  BY CutText
<1> HIDE DEF u, v
<1>2. s \o t = u \o (v \o t) /\ v \o t \in Text
  BY <1>1, TextConcat
<1>3. SubSeq(u \o (v \o t), 1, Len(u)) = u /\ Drop(u \o (v \o t), Len(u)) = v \o t
  BY <1>1, <1>2, PartText
<1>4. SubSeq(s \o t, 1, n) = u /\ Drop(s \o t, n) = v \o t
  BY <1>1, <1>2, <1>3
<1> QED BY <1>4 DEF u, v

\* Cutting the second of two texts.
LEMMA CutSecond ==
    ASSUME NEW s \in Text, NEW t \in Text, NEW n \in 0..Len(t)
    PROVE  /\ SubSeq(s \o t, 1, Len(s) + n) = s \o SubSeq(t, 1, n)
           /\ Drop(s \o t, Len(s) + n) = Drop(t, n)
<1> DEFINE u == SubSeq(t, 1, n)
           v == Drop(t, n)
<1>1. u \in Text /\ Len(u) = n /\ v \in Text /\ t = u \o v
  BY CutText
<1> HIDE DEF u, v
<1>2. s \o t = (s \o u) \o v /\ s \o u \in Text /\ Len(s \o u) = Len(s) + n
  BY <1>1, TextConcat
<1>3. SubSeq((s \o u) \o v, 1, Len(s \o u)) = s \o u /\ Drop((s \o u) \o v, Len(s \o u)) = v
  BY <1>1, <1>2, PartText
<1>4. SubSeq(s \o t, 1, Len(s) + n) = s \o u /\ Drop(s \o t, Len(s) + n) = v
  BY <1>2, <1>3
<1> QED BY <1>4 DEF u, v

------------------------------------------------------------------------------
(***************************************************************************)
(* The words of a text.                                                    *)
(***************************************************************************)

\* The positions that hold ink are finitely many.
LEMMA InkFinite ==
    ASSUME NEW s \in Text
    PROVE  /\ IsFiniteSet(Ink(s)) /\ Ink(s) \subseteq Int /\ Ink(s) \subseteq 1..Len(s)
           /\ Cardinality(Ink(s)) \in Nat
<1>1. Len(s) \in Nat
  BY TextAt
<1>2. Ink(s) \in SUBSET (1..Len(s)) /\ Ink(s) \subseteq Int
  BY <1>1 DEF Ink
<1>3. IsFiniteSet(1..Len(s))
  BY <1>1, FS_Interval
<1>4. IsFiniteSet(Ink(s))
  BY <1>2, <1>3, FS_Subset
<1> QED BY <1>2, <1>4, FS_CardinalityType

\* Each position that holds ink gives one token of the words, in their order.
LEMMA WordsOf ==
    ASSUME NEW s \in Text
    PROVE  /\ Words(s) \in Text /\ Len(Words(s)) = Cardinality(Ink(s))
           /\ \A i \in Ink(s) : Words(s)[Rank(Ink(s), i) + 1] = s[i]
<1> DEFINE S == Ink(s)
           c == Cardinality(S)
           at(n) == CHOOSE i \in S : Cardinality({ j \in S : j < i }) = n - 1
<1>1. /\ c \in Nat /\ S \subseteq 1..Len(s)
      /\ \A k \in S : Rank(S, k) \in 0..(c - 1)
      /\ \A j, k \in S : Rank(S, j) = Rank(S, k) => j = k
      /\ \A i \in 0..(c - 1) : \E k \in S : Rank(S, k) = i
  BY InkFinite, RankCounts
<1>2. Words(s) = [ n \in 1..c |-> s[at(n)] ]
  BY DEF Words
<1> HIDE DEF S
<1>3. \A n \in 1..c : at(n) \in S /\ Rank(S, at(n)) = n - 1
  <2>1. TAKE n \in 1..c
  <2>2. n - 1 \in 0..(c - 1)
    BY <1>1
  <2>3. PICK k \in S : Rank(S, k) = n - 1
    BY <1>1, <2>2
  <2>4. \E k_1 \in S : Cardinality({ j \in S : j < k_1 }) = n - 1
    BY <2>3 DEF Rank
  <2>5. at(n) \in S /\ Cardinality({ j \in S : j < at(n) }) = n - 1
    BY <2>4
  <2> QED BY <2>5 DEF Rank
<1> HIDE DEF at, c
<1>4. \A n \in 1..c : s[at(n)] \in Token
  BY <1>1, <1>3, TextAt
<1>5. Words(s) \in Text /\ Len(Words(s)) = c
  BY <1>1, <1>2, <1>4, IsASeq DEF Text
<1>6. ASSUME NEW i \in S PROVE Words(s)[Rank(S, i) + 1] = s[i]
  <2>1. Rank(S, i) \in 0..(c - 1)
    BY <1>1
  <2>2. Rank(S, i) + 1 \in 1..c /\ (Rank(S, i) + 1) - 1 = Rank(S, i)
    BY <1>1, <2>1
  <2>3. at(Rank(S, i) + 1) = i
    BY <1>1, <1>3, <2>2
  <2> QED BY <1>2, <2>2, <2>3
<1> QED BY <1>5, <1>6 DEF S, c

\* No other text is made of these tokens.
LEMMA WordsUnique ==
    ASSUME NEW s \in Text, NEW w \in Text, Len(w) = Cardinality(Ink(s)),
           \A i \in Ink(s) : w[Rank(Ink(s), i) + 1] = s[i]
    PROVE  w = Words(s)
<1> DEFINE S == Ink(s)
           c == Cardinality(S)
<1>1. c \in Nat /\ \A i \in 0..(c - 1) : \E k \in S : Rank(S, k) = i
  BY InkFinite, RankCounts
<1>2. /\ Words(s) \in Text /\ Len(Words(s)) = c
      /\ \A i \in S : Words(s)[Rank(S, i) + 1] = s[i]
  BY WordsOf
<1>3. Len(w) = c /\ \A i \in S : w[Rank(S, i) + 1] = s[i]
  OBVIOUS
<1> HIDE DEF S, c
<1>4. ASSUME NEW n \in 1..c PROVE w[n] = Words(s)[n]
  <2>1. n - 1 \in 0..(c - 1) /\ (n - 1) + 1 = n
    BY <1>1
  <2>2. PICK k \in S : Rank(S, k) = n - 1
    BY <1>1, <2>1
  <2> QED BY <1>2, <1>3, <2>1, <2>2
<1> QED BY <1>2, <1>3, <1>4, SeqEqual DEF Text

\* A blank text has no words.
LEMMA WordsBlank ==
    ASSUME NEW s \in Text, IsBlank(s)
    PROVE  Words(s) = << >>
<1>1. Len(Words(s)) = 0 /\ Words(s) \in Text
  BY WordsOf, FS_EmptySet DEF IsBlank
<1> QED BY <1>1, TextAt

\* The ink of two texts, one after the other.
LEMMA InkConcat ==
    ASSUME NEW s \in Text, NEW t \in Text
    PROVE  Ink(s \o t) = Ink(s) \cup { Len(s) + j : j \in Ink(t) }
<1>1. Len(s) \in Nat /\ Len(t) \in Nat
  BY TextAt
<1>2. /\ Len(s \o t) = Len(s) + Len(t)
      /\ \A i \in 1..Len(s) : (s \o t)[i] = s[i]
      /\ \A j \in 1..Len(t) : (s \o t)[Len(s) + j] = t[j]
  BY ConcatAt
<1>3. ASSUME NEW i \in Ink(s \o t), i \notin Ink(s)
      PROVE  \E j \in Ink(t) : i = Len(s) + j
  <2>1. i \in 1..(Len(s) + Len(t)) /\ (s \o t)[i] # SP
    BY <1>2, <1>3 DEF Ink
  <2>2. i \notin 1..Len(s)
    BY <1>2, <1>3, <2>1 DEF Ink
  <2>3. i - Len(s) \in 1..Len(t) /\ Len(s) + (i - Len(s)) = i
    BY <1>1, <2>1, <2>2
  <2>4. i - Len(s) \in Ink(t)
    BY <1>2, <2>1, <2>3 DEF Ink
  <2> QED BY <2>3, <2>4
<1>4. ASSUME NEW i \in Ink(s) PROVE i \in Ink(s \o t)
  <2>1. i \in 1..Len(s) /\ s[i] # SP
    BY DEF Ink
  <2>2. i \in 1..(Len(s) + Len(t))
    BY <1>1, <2>1
  <2> QED BY <1>2, <2>1, <2>2 DEF Ink
<1>5. ASSUME NEW j \in Ink(t) PROVE Len(s) + j \in Ink(s \o t)
  <2>1. j \in 1..Len(t) /\ t[j] # SP
    BY DEF Ink
  <2>2. Len(s) + j \in 1..(Len(s) + Len(t))
    BY <1>1, <2>1
  <2> QED BY <1>2, <2>1, <2>2 DEF Ink
<1> QED BY <1>3, <1>4, <1>5

\* Counting a set of positions and another one moved behind it.
LEMMA ShiftCount ==
    ASSUME NEW n \in Nat, NEW A, A \subseteq 1..n, IsFiniteSet(A),
           NEW B, B \subseteq Nat \ { 0 }, IsFiniteSet(B)
    PROVE  Cardinality(A \cup { n + j : j \in B }) = Cardinality(A) + Cardinality(B)
<1> DEFINE M == { n + j : j \in B }
           f == [ j \in B |-> n + j ]
<1>1. f \in Bijection(B, M)
  <2>1. f \in [B -> M]
    OBVIOUS
  <2>2. \A i, j \in B : f[i] = f[j] => i = j
    <3>1. TAKE i, j \in B
    <3>2. i \in Nat /\ j \in Nat /\ f[i] = n + i /\ f[j] = n + j
      OBVIOUS
    <3> QED BY <3>2
  <2>3. \A m \in M : \E j \in B : f[j] = m
    OBVIOUS
  <2> QED BY <2>1, <2>2, <2>3 DEF Bijection, Injection, Surjection, IsInjective
<1>2. ExistsBijection(B, M)
  BY <1>1 DEF ExistsBijection
<1>3. IsFiniteSet(M) /\ Cardinality(M) = Cardinality(B)
  BY <1>2, FS_Bijection
<1>4. A \cap M = {}
  <2>1. ASSUME NEW i \in A, NEW j \in B PROVE i # n + j
    <3>1. i \in 1..n /\ j \in Nat \ { 0 }
      OBVIOUS
    <3> QED BY <3>1
  <2> QED BY <2>1
<1> HIDE DEF M
<1>5. Cardinality(A \cup M) = Cardinality(A) + Cardinality(M) - Cardinality(A \cap M)
  BY <1>3, FS_Union
<1>6. Cardinality(A \cap M) = 0 /\ Cardinality(A) \in Nat /\ Cardinality(M) \in Nat
  BY <1>3, <1>4, FS_EmptySet, FS_CardinalityType
<1>7. Cardinality(A \cup M) = Cardinality(A) + Cardinality(B)
  BY <1>3, <1>5, <1>6
<1> QED BY <1>7 DEF M

\* The words of two texts, one after the other.
LEMMA WordsConcat ==
    ASSUME NEW s \in Text, NEW t \in Text
    PROVE  Words(s \o t) = Words(s) \o Words(t)
<1> DEFINE n == Len(s)
           st == s \o t
           w == Words(s) \o Words(t)
           c == Cardinality(Ink(s))
<1>1. /\ n \in Nat /\ st \in Text
      /\ \A i \in 1..Len(s) : st[i] = s[i]
      /\ \A j \in 1..Len(t) : st[n + j] = t[j]
  BY TextAt, ConcatAt
<1>2. /\ IsFiniteSet(Ink(s)) /\ Ink(s) \subseteq 1..n /\ c \in Nat
      /\ IsFiniteSet(Ink(t)) /\ Ink(t) \subseteq 1..Len(t) /\ Len(t) \in Nat
  BY InkFinite, TextAt
<1>3. Ink(st) = Ink(s) \cup { n + j : j \in Ink(t) }
  BY InkConcat
<1>4. /\ Words(s) \in Text /\ Len(Words(s)) = c
      /\ \A i \in Ink(s) : Words(s)[Rank(Ink(s), i) + 1] = s[i]
  BY WordsOf
<1>5. /\ Words(t) \in Text /\ Len(Words(t)) = Cardinality(Ink(t))
      /\ \A i \in Ink(t) : Words(t)[Rank(Ink(t), i) + 1] = t[i]
  BY WordsOf
<1>6. /\ w \in Text /\ Len(w) = c + Cardinality(Ink(t))
      /\ \A i \in 1..c : w[i] = Words(s)[i]
      /\ \A i \in 1..Cardinality(Ink(t)) : w[c + i] = Words(t)[i]
  <2>1. /\ Words(s) \o Words(t) \in Text
        /\ Len(Words(s) \o Words(t)) = Len(Words(s)) + Len(Words(t))
        /\ \A i \in 1..Len(Words(s)) : (Words(s) \o Words(t))[i] = Words(s)[i]
        /\ \A i \in 1..Len(Words(t)) : (Words(s) \o Words(t))[Len(Words(s)) + i] = Words(t)[i]
    BY <1>4, <1>5, ConcatAt
  <2> QED BY <1>4, <1>5, <2>1
<1>7. Cardinality(Ink(st)) = Len(w)
  <2>1. Ink(t) \subseteq Nat \ { 0 }
    BY <1>2
  <2>2. Cardinality(Ink(s) \cup { n + j : j \in Ink(t) }) = c + Cardinality(Ink(t))
    BY <1>1, <1>2, <2>1, ShiftCount
  <2> QED BY <1>3, <1>6, <2>2
<1> HIDE DEF n, st, w, c
<1>8. ASSUME NEW i \in Ink(s) PROVE w[Rank(Ink(st), i) + 1] = st[i]
  <2>1. i \in 1..n /\ st[i] = s[i]
    BY <1>1, <1>2 DEF n
  <2>2. { j \in Ink(st) : j < i } = { j \in Ink(s) : j < i }
    <3>1. ASSUME NEW j \in Ink(t) PROVE ~(n + j < i)
      <4>1. j \in 1..Len(t)
        BY <1>2
      <4> QED BY <1>1, <1>2, <2>1, <4>1
    <3> QED BY <1>3, <3>1
  <2>3. Rank(Ink(st), i) = Rank(Ink(s), i)
    BY <2>2 DEF Rank
  <2>4. Rank(Ink(s), i) \in 0..(c - 1)
    <3>1. Ink(s) \subseteq Int
      BY <1>1, <1>2
    <3> QED BY <1>2, <3>1, RankCounts DEF c
  <2>5. Rank(Ink(s), i) + 1 \in 1..c
    BY <1>2, <2>4
  <2> QED BY <1>4, <1>6, <2>1, <2>3, <2>5
<1>9. ASSUME NEW j \in Ink(t) PROVE w[Rank(Ink(st), n + j) + 1] = st[n + j]
  <2> DEFINE B == { m \in Ink(t) : m < j }
  <2>1. j \in 1..Len(t) /\ st[n + j] = t[j]
    BY <1>1, <1>2
  <2>2. { k \in Ink(st) : k < n + j } = Ink(s) \cup { n + m : m \in B }
    <3>1. ASSUME NEW m \in Ink(t) PROVE (n + m < n + j) <=> (m < j)
      <4>1. m \in 1..Len(t)
        BY <1>2
      <4> QED BY <1>1, <1>2, <2>1, <4>1
    <3>2. ASSUME NEW i \in Ink(s) PROVE i < n + j
      <4>1. i \in 1..n
        BY <1>2
      <4> QED BY <1>1, <1>2, <2>1, <4>1
    <3>3. \A k \in Ink(st) : k < n + j => k \in Ink(s) \cup { n + m : m \in B }
      BY <1>3, <3>1
    <3>4. \A k \in Ink(s) \cup { n + m : m \in B } : k \in Ink(st) /\ k < n + j
      BY <1>3, <3>1, <3>2
    <3> QED BY <3>3, <3>4
  <2>3. IsFiniteSet(B) /\ B \subseteq Nat \ { 0 } /\ Cardinality(B) = Rank(Ink(t), j)
    <3>1. B \subseteq Ink(t)
      OBVIOUS
    <3>2. B \subseteq Nat \ { 0 }
      BY <1>2
    <3> QED BY <1>2, <3>1, <3>2, FS_Subset DEF Rank
  <2> HIDE DEF B
  <2>4. Cardinality(Ink(s) \cup { n + m : m \in B }) = c + Cardinality(B)
    BY <1>1, <1>2, <2>3, ShiftCount DEF c
  <2>5. Rank(Ink(st), n + j) = c + Rank(Ink(t), j)
    BY <2>2, <2>3, <2>4 DEF Rank
  <2>6. Cardinality(Ink(t)) \in Nat /\ Rank(Ink(t), j) \in 0..(Cardinality(Ink(t)) - 1)
    <3>1. Ink(t) \subseteq Int
      BY <1>2
    <3> QED BY <1>2, <3>1, RankCounts
  <2>7. /\ Rank(Ink(t), j) + 1 \in 1..Cardinality(Ink(t))
        /\ Rank(Ink(st), n + j) + 1 = c + (Rank(Ink(t), j) + 1)
    BY <1>2, <2>5, <2>6
  <2> QED BY <1>5, <1>6, <2>1, <2>7
<1>10. \A i \in Ink(st) : w[Rank(Ink(st), i) + 1] = st[i]
  BY <1>3, <1>8, <1>9
<1>11. w = Words(st)
  BY <1>1, <1>6, <1>7, <1>10, WordsUnique
<1> QED BY <1>11 DEF w, st

\* The words of a single token that is no white space, and of the empty text.
LEMMA WordsOne ==
    ASSUME NEW s \in Text, NEW x \in Token, x # SP
    PROVE  /\ << x >> \in Text /\ Words(<< x >>) = << x >>
           /\ << >> \in Text /\ IsBlank(<< >>) /\ Words(<< >>) = << >>
<1>1. << x >> \in Text /\ Len(<< x >>) = 1 /\ << x >>[1] = x
  BY DEF Text
<1>2. Ink(<< x >>) = { 1 }
  BY <1>1 DEF Ink
<1>3. Cardinality({ 1 }) = 1 /\ Rank({ 1 }, 1) = 0
  <2>1. { j \in { 1 } : j < 1 } = {}
    OBVIOUS
  <2> QED BY <2>1, FS_EmptySet, FS_Singleton DEF Rank
<1>4. << x >> = Words(<< x >>)
  <2>1. Len(<< x >>) = Cardinality(Ink(<< x >>))
    BY <1>1, <1>2, <1>3
  <2>2. \A i \in Ink(<< x >>) : << x >>[Rank(Ink(<< x >>), i) + 1] = << x >>[i]
    BY <1>2, <1>3
  <2> QED BY <1>1, <2>1, <2>2, WordsUnique
<1>5. << >> \in Text /\ Len(<< >>) = 0
  BY EmptyText, TextAt
<1>6. IsBlank(<< >>)
  BY <1>5 DEF IsBlank, Ink
<1> QED BY <1>1, <1>4, <1>5, <1>6, WordsBlank

\* White space around a text adds no words.
LEMMA WordsAround ==
    ASSUME NEW u \in Text, NEW s \in Text, NEW v \in Text, IsBlank(u), IsBlank(v)
    PROVE  Words(u \o (s \o v)) = Words(s)
<1>1. Words(u \o (s \o v)) = Words(u) \o (Words(s) \o Words(v))
  <2>1. s \o v \in Text
    BY TextConcat
  <2>2. Words(u \o (s \o v)) = Words(u) \o Words(s \o v)
    BY <2>1, WordsConcat
  <2>3. Words(s \o v) = Words(s) \o Words(v)
    BY WordsConcat
  <2> QED BY <2>2, <2>3
<1>2. Words(u) = << >> /\ Words(v) = << >> /\ Words(s) \in Text
  BY WordsBlank, WordsOf
<1> QED BY <1>1, <1>2, TextConcat

------------------------------------------------------------------------------
(***************************************************************************)
(* Trimming.                                                               *)
(***************************************************************************)

\* A text begins with something other than white space, or is empty.
Sharp(s) == s # << >> => s[1] # SP

\* A text without ink on its own, and before or behind another one.
LEMMA BlankAt ==
    ASSUME NEW s \in Text
    PROVE  IsBlank(s) <=> \A i \in 1..Len(s) : s[i] = SP
  BY DEF IsBlank, Ink

\* What TrimStart cuts off is white space, and what it leaves begins with none.
LEMMA TrimStartParts ==
    ASSUME NEW s \in Text
    PROVE  /\ TrimStart(s) \in Text /\ Sharp(TrimStart(s))
           /\ \E u \in Text : IsBlank(u) /\ s = u \o TrimStart(s)
<1>1. CASE IsBlank(s)
  <2>1. TrimStart(s) = << >> /\ s = s \o << >> /\ << >> \in Text
    BY <1>1, TextConcat, EmptyText DEF TrimStart
  <2>2. s = s \o TrimStart(s)
    BY <2>1
  <2> QED BY <1>1, <2>1, <2>2 DEF Sharp
<1>2. CASE ~IsBlank(s)
  <2> DEFINE m == Min(Ink(s))
             u == SubSeq(s, 1, m - 1)
  <2>1. m \in Ink(s) /\ \A i \in Ink(s) : m =< i
    BY <1>2, InkFinite, MinIn DEF IsBlank
  <2>2. m \in 1..Len(s) /\ s[m] # SP /\ Len(s) \in Nat /\ m - 1 \in 0..Len(s)
    BY <2>1, TextAt DEF Ink
  <2>3. TrimStart(s) = Drop(s, m - 1)
    BY <1>2 DEF TrimStart
  <2> HIDE DEF m
  <2>4. /\ u \in Text /\ Len(u) = m - 1 /\ s = u \o Drop(s, m - 1)
        /\ Drop(s, m - 1) \in Text /\ Len(Drop(s, m - 1)) = Len(s) - (m - 1)
        /\ \A i \in 1..(m - 1) : u[i] = s[i]
        /\ \A i \in 1..(Len(s) - (m - 1)) : Drop(s, m - 1)[i] = s[(m - 1) + i]
    BY <2>2, CutText
  <2>5. Drop(s, m - 1)[1] = s[m]
    <3>1. 1 \in 1..(Len(s) - (m - 1)) /\ (m - 1) + 1 = m
      BY <2>2
    <3> QED BY <2>4, <3>1
  <2>6. \A i \in 1..(m - 1) : s[i] = SP
    BY <2>1, <2>2 DEF Ink
  <2> HIDE DEF u
  <2>7. IsBlank(u)
    <3>1. \A i \in 1..Len(u) : u[i] = SP
      BY <2>4, <2>6
    <3> QED BY <2>4, <3>1, BlankAt
  <2> QED BY <2>2, <2>3, <2>4, <2>5, <2>7 DEF Sharp
<1> QED BY <1>1, <1>2

\* There is one way to cut white space off the start of a text.
LEMMA TrimStartUnique ==
    ASSUME NEW u \in Text, NEW s \in Text, IsBlank(u), Sharp(s)
    PROVE  TrimStart(u \o s) = s
<1>1. CASE s = << >>
  BY <1>1, TextConcat DEF TrimStart
<1>2. CASE s # << >>
  <2> DEFINE w == u \o s
  <2>1. /\ w \in Text /\ Len(u) \in Nat /\ Len(s) \in Nat /\ Len(s) > 0
        /\ Ink(w) = Ink(u) \cup { Len(u) + j : j \in Ink(s) }
    BY <1>2, ConcatAt, TextAt, InkConcat, TextConcat
  <2>2. Ink(u) = {} /\ 1 \in Ink(s) /\ Ink(s) \subseteq 1..Len(s)
    <3>1. 1 \in 1..Len(s) /\ s[1] # SP
      BY <1>2, <2>1 DEF Sharp
    <3> QED BY <3>1, InkFinite DEF Ink, IsBlank
  <2> HIDE DEF w
  <2>3. Len(u) + 1 \in Ink(w) /\ \A i \in Ink(w) : i \in Int /\ Len(u) + 1 =< i
    BY <2>1, <2>2
  <2>4. IsFiniteSet(Ink(w)) /\ Ink(w) \subseteq Int /\ Ink(w) # {}
    BY <2>1, <2>3, InkFinite
  <2>5. Min(Ink(w)) \in Ink(w) /\ \A i \in Ink(w) : Min(Ink(w)) =< i
    BY <2>4, MinIn
  <2>6. Min(Ink(w)) = Len(u) + 1
    <3>1. Len(u) + 1 =< Min(Ink(w)) /\ Min(Ink(w)) =< Len(u) + 1 /\ Min(Ink(w)) \in Int
      BY <2>3, <2>5
    <3>2. \A k \in Int : Len(u) + 1 =< k /\ k =< Len(u) + 1 => k = Len(u) + 1
      BY <2>1
    <3> QED BY <3>1, <3>2
  <2>7. TrimStart(w) = Drop(w, (Len(u) + 1) - 1) /\ (Len(u) + 1) - 1 = Len(u)
    BY <2>1, <2>4, <2>6 DEF TrimStart, IsBlank
  <2>8. Drop(u \o s, Len(u)) = s
    BY PartText
  <2> QED BY <2>7, <2>8 DEF w
<1> QED BY <1>1, <1>2

\* What Trim cuts off at either end is white space, and what it leaves ends with none.
LEMMA TrimParts ==
    ASSUME NEW s \in Text
    PROVE  /\ Trim(s) \in Text
           /\ Trim(s) # << >> => Trim(s)[Len(Trim(s))] # SP
           /\ \E u, v \in Text : IsBlank(u) /\ IsBlank(v) /\ s = u \o (Trim(s) \o v)
<1>1. CASE IsBlank(s)
  <2>1. Trim(s) = << >> /\ << >> \in Text /\ << >> \o s = s /\ s \o << >> = s
    BY <1>1, TextConcat, EmptyText DEF Trim
  <2>2. s = s \o (<< >> \o << >>) /\ IsBlank(<< >>)
    BY <2>1, TextConcat, BlankAt, TextAt
  <2> QED BY <1>1, <2>1, <2>2
<1>2. CASE ~IsBlank(s)
  <2> DEFINE m == Min(Ink(s))
             n == Max(Ink(s))
             u == SubSeq(s, 1, m - 1)
             x == SubSeq(s, m, n)
             v == Drop(s, n)
  <2>1. /\ m \in Ink(s) /\ \A i \in Ink(s) : m =< i
        /\ n \in Ink(s) /\ \A i \in Ink(s) : n >= i
    BY <1>2, InkFinite, MinIn, MaxIn DEF IsBlank
  <2>2. /\ m \in 1..Len(s) /\ Len(s) \in Nat /\ m - 1 \in 0..Len(s)
        /\ n \in 1..Len(s) /\ s[n] # SP /\ m =< n /\ n \in 0..Len(s)
    BY <2>1, TextAt DEF Ink
  <2>3. Trim(s) = x
    BY <1>2 DEF Trim
  <2> HIDE DEF m, n
  <2>4. u \in Text /\ Len(u) = m - 1 /\ \A i \in 1..(m - 1) : u[i] = s[i]
    BY <2>2, CutText
  <2>5. /\ SubSeq(s, 1, n) \in Text /\ v \in Text /\ s = SubSeq(s, 1, n) \o v
        /\ Len(v) = Len(s) - n /\ \A i \in 1..(Len(s) - n) : v[i] = s[n + i]
    BY <2>2, CutText
  <2>6. SubSeq(s, 1, n) = u \o x
    <3>1. 1 \in 1..(Len(s) + 1) /\ m - 1 \in (1 - 1)..Len(s) /\ n \in (m - 1)..Len(s)
          /\ (m - 1) + 1 = m
      BY <2>2
    <3>2. SubSeq(s, 1, m - 1) \o SubSeq(s, (m - 1) + 1, n) = SubSeq(s, 1, n)
      BY <3>1, ConcatAdjacentSubSeq DEF Text
    <3> QED BY <3>1, <3>2
  <2>7. x \in Text /\ Len(x) = n - m + 1 /\ x[Len(x)] = s[n]
    <3>1. m =< n /\ m \in 1..Len(s) /\ n \in 1..Len(s)
      BY <2>2
    <3>2. x \in Text
      BY <2>2, SubText
    <3>3. Len(x) = n - m + 1 /\ \A i \in 1..(n - m + 1) : x[i] = s[m + i - 1]
      BY <2>2, SubSeqProperties DEF Text
    <3>4. n - m + 1 \in 1..(n - m + 1) /\ m + (n - m + 1) - 1 = n
      BY <2>2
    <3> QED BY <3>2, <3>3, <3>4
  <2>8. \A i \in 1..(m - 1) : s[i] = SP
    BY <2>1, <2>2 DEF Ink
  <2>9. \A i \in 1..(Len(s) - n) : s[n + i] = SP
    <3>1. TAKE i \in 1..(Len(s) - n)
    <3>2. n + i \in 1..Len(s) /\ ~(n >= n + i)
      BY <2>2
    <3> QED BY <2>1, <3>2 DEF Ink
  <2> HIDE DEF u, v, x
  <2>10. IsBlank(u) /\ IsBlank(v)
    <3>1. (\A i \in 1..Len(u) : u[i] = SP) /\ (\A i \in 1..Len(v) : v[i] = SP)
      BY <2>4, <2>5, <2>8, <2>9
    <3> QED BY <2>4, <2>5, <3>1, BlankAt
  <2>11. s = u \o (x \o v)
    <3>1. (u \o x) \o v = u \o (x \o v)
      BY <2>4, <2>5, <2>7, TextConcat
    <3> QED BY <2>5, <2>6, <3>1
  <2> QED BY <2>2, <2>3, <2>4, <2>5, <2>7, <2>10, <2>11
<1> QED BY <1>1, <1>2

\* Trimming leaves the words of a text alone.
LEMMA WordsTrimmed ==
    ASSUME NEW s \in Text
    PROVE  Words(Trim(s)) = Words(s) /\ Words(TrimStart(s)) = Words(s)
<1>1. Words(Trim(s)) = Words(s)
  <2>1. PICK u, v \in Text : IsBlank(u) /\ IsBlank(v) /\ s = u \o (Trim(s) \o v)
    BY TrimParts
  <2>2. Words(u \o (Trim(s) \o v)) = Words(Trim(s))
    BY <2>1, TrimParts, WordsAround
  <2> QED BY <2>1, <2>2
<1>2. Words(TrimStart(s)) = Words(s)
  <2>1. PICK u \in Text : IsBlank(u) /\ s = u \o TrimStart(s)
    BY TrimStartParts
  <2>2. TrimStart(s) \in Text /\ TrimStart(s) \o << >> = TrimStart(s)
    BY TrimStartParts, TextConcat
  <2>3. << >> \in Text /\ IsBlank(<< >>)
    BY EmptyText, TextAt, BlankAt
  <2>4. Words(u \o (TrimStart(s) \o << >>)) = Words(TrimStart(s))
    BY <2>1, <2>2, <2>3, WordsAround
  <2> QED BY <2>1, <2>2, <2>4
<1> QED BY <1>1, <1>2

------------------------------------------------------------------------------
(***************************************************************************)
(* The opening tag.                                                        *)
(***************************************************************************)

\* The two tags as texts.
LEMMA Tags ==
    /\ LT \in Token /\ LT # SP /\ "think>" # LT /\ "/think>" # LT /\ "/think>" # SP
    /\ OpenTag \in Text /\ Len(OpenTag) = 2 /\ OpenTag[1] = LT /\ OpenTag[2] = "think>"
    /\ CloseTag \in Text /\ Len(CloseTag) = 2 /\ CloseTag[1] = LT /\ CloseTag[2] = "/think>"
<1>1. LT \in Token /\ "think>" \in Token /\ "/think>" \in Token
  BY DEF Token
<1>2. OpenTag \in Text /\ CloseTag \in Text
  BY <1>1 DEF OpenTag, CloseTag, Text
<1> QED BY <1>1, <1>2 DEF OpenTag, CloseTag, LT, SP

\* A text with an opening tag is white space, the tag, and what AfterOpen gives.
LEMMA OpenParts ==
    ASSUME NEW s \in Text, HasOpen(s)
    PROVE  /\ AfterOpen(s) \in Text
           /\ \E u \in Text : IsBlank(u) /\ s = u \o (OpenTag \o AfterOpen(s))
<1> DEFINE m == TrimStart(s)
<1>1. m \in Text /\ \E u \in Text : IsBlank(u) /\ s = u \o m
  BY TrimStartParts
<1>2. Len(m) >= 2 /\ SubSeq(m, 1, 2) = OpenTag /\ AfterOpen(s) = Drop(m, 2)
  BY Tags DEF HasOpen, StartsWith, AfterOpen
<1> HIDE DEF m
<1>3. 2 \in 0..Len(m)
  BY <1>1, <1>2, TextAt
<1>4. Drop(m, 2) \in Text /\ m = SubSeq(m, 1, 2) \o Drop(m, 2)
  BY <1>1, <1>3, CutText
<1> QED BY <1>1, <1>2, <1>4

\* And every text of that form has an opening tag.
LEMMA OpenUnique ==
    ASSUME NEW u \in Text, IsBlank(u), NEW q \in Text
    PROVE  LET s == u \o (OpenTag \o q) IN HasOpen(s) /\ AfterOpen(s) = q
<1> DEFINE m == OpenTag \o q
<1>1. m \in Text /\ Len(m) = 2 + Len(q) /\ Len(q) \in Nat /\ m[1] = LT
  <2>1. 1 \in 1..Len(OpenTag)
    BY Tags
  <2>2. /\ OpenTag \o q \in Text /\ Len(OpenTag \o q) = Len(OpenTag) + Len(q)
        /\ (OpenTag \o q)[1] = OpenTag[1]
    BY <2>1, Tags, ConcatAt
  <2> QED BY <2>2, Tags, TextAt
<1>2. SubSeq(m, 1, Len(OpenTag)) = OpenTag /\ Drop(m, Len(OpenTag)) = q
  BY Tags, PartText
<1> HIDE DEF m
<1>3. Sharp(m)
  BY <1>1, Tags DEF Sharp
<1>4. TrimStart(u \o m) = m
  BY <1>1, <1>3, TrimStartUnique
<1>5. HasOpen(u \o m) /\ AfterOpen(u \o m) = q
  BY <1>1, <1>2, <1>4, Tags DEF HasOpen, AfterOpen, StartsWith
<1> QED BY <1>5 DEF m

\* A text that goes on keeps its opening tag, and goes on behind it.
LEMMA OpenGoesOn ==
    ASSUME NEW s \in Text, HasOpen(s), NEW t \in Text
    PROVE  HasOpen(s \o t) /\ AfterOpen(s \o t) = AfterOpen(s) \o t
<1> DEFINE q == AfterOpen(s)
<1>1. q \in Text /\ \E u \in Text : IsBlank(u) /\ s = u \o (OpenTag \o q)
  BY OpenParts
<1> HIDE DEF q
<1>2. PICK u \in Text : IsBlank(u) /\ s = u \o (OpenTag \o q)
  BY <1>1
<1>3. q \o t \in Text /\ OpenTag \o q \in Text
  BY <1>1, Tags, TextConcat
<1>4. (u \o (OpenTag \o q)) \o t = u \o ((OpenTag \o q) \o t)
  BY <1>3, TextConcat, ZenonT(60)
<1>5. (OpenTag \o q) \o t = OpenTag \o (q \o t)
  BY <1>1, Tags, TextConcat
<1>6. HasOpen(u \o (OpenTag \o (q \o t))) /\ AfterOpen(u \o (OpenTag \o (q \o t))) = q \o t
  BY <1>2, <1>3, OpenUnique
<1>7. HasOpen(s \o t) /\ AfterOpen(s \o t) = q \o t
  BY <1>2, <1>4, <1>5, <1>6
<1> QED BY <1>7 DEF q

\* And one that has none and cannot become one stays so.
LEMMA NoOpenGoesOn ==
    ASSUME NEW s \in Text, ~HasOpen(s), ~MayBecomeOpen(s), NEW t \in Text
    PROVE  ~HasOpen(s \o t) /\ ~MayBecomeOpen(s \o t)
<1> DEFINE m == TrimStart(s)
<1>1. m \in Text /\ Sharp(m) /\ \E u \in Text : IsBlank(u) /\ s = u \o m
  BY TrimStartParts
<1>2. m # << >> /\ m # << LT >> /\ m # OpenTag /\ ~(Len(m) >= 2 /\ SubSeq(m, 1, 2) = OpenTag)
  BY Tags DEF MayBecomeOpen, HasOpen, StartsWith
<1> HIDE DEF m
<1>3. PICK u \in Text : IsBlank(u) /\ s = u \o m
  BY <1>1
<1> DEFINE w == m \o t
<1>4. /\ w \in Text /\ Len(w) = Len(m) + Len(t) /\ Len(m) \in Nat /\ Len(t) \in Nat
      /\ Len(m) > 0 /\ \A i \in 1..Len(m) : w[i] = m[i]
  BY <1>1, <1>2, ConcatAt, TextAt
<1>5. Sharp(w)
  BY <1>1, <1>2, <1>4 DEF Sharp
<1>6. w = m \o t
  OBVIOUS
<1> HIDE DEF w
<1>7. TrimStart(s \o t) = w
  <2>1. s \o t = u \o w
    BY <1>1, <1>3, <1>6, TextConcat, ZenonT(60)
  <2> QED BY <1>3, <1>4, <1>5, <2>1, TrimStartUnique
<1>8. w \notin { << >>, << LT >>, OpenTag } /\ ~(Len(w) >= 2 /\ SubSeq(w, 1, 2) = OpenTag)
  <2>1. CASE Len(m) = 1
    <3>1. m[1] # LT
      BY <1>1, <1>2, <2>1, SeqEqual, Tags DEF Text
    <3>2. w # << >> /\ w[1] # LT
      BY <1>4, <2>1, <3>1
    <3>3. ASSUME Len(w) >= 2 PROVE SubSeq(w, 1, 2)[1] = w[1]
      <4>1. 2 \in 0..Len(w)
        BY <1>4, <3>3
      <4> QED BY <1>4, <4>1, CutText
    <3> QED BY <3>2, <3>3, Tags
  <2>2. CASE Len(m) >= 2
    <3>1. 2 \in 0..Len(m) /\ 2 \in 1..Len(m) /\ 1 \in 1..Len(m) /\ Len(w) >= 2
      BY <1>4, <2>2
    <3>2. SubSeq(w, 1, 2) = SubSeq(m, 1, 2)
      BY <1>1, <1>6, <3>1, CutFirst
    <3>3. SubSeq(w, 1, 2) # OpenTag
      BY <1>2, <2>2, <3>2
    <3>4. w # OpenTag
      <4>1. SubSeq(OpenTag, 1, Len(OpenTag)) = OpenTag
        BY Tags, SubSeqFull DEF Text
      <4> QED BY <3>3, <4>1, Tags
    <3>5. w # << >> /\ w # << LT >>
      <4>1. Len(<< >>) = 0 /\ Len(<< LT >>) = 1
        OBVIOUS
      <4>2. Len(w) # 0 /\ Len(w) # 1
        BY <1>4, <3>1
      <4> QED BY <4>1, <4>2
    <3> QED BY <3>3, <3>4, <3>5
  <2>3. Len(m) = 1 \/ Len(m) >= 2
    BY <1>4
  <2> QED BY <2>1, <2>2, <2>3
<1> QED BY <1>7, <1>8, Tags DEF HasOpen, StartsWith, MayBecomeOpen

------------------------------------------------------------------------------
(***************************************************************************)
(* The closing tag.                                                        *)
(***************************************************************************)

\* s ends, and t begins, in the middle of a closing tag.
Meets(s, t) == s # << >> /\ t # << >> /\ s[Len(s)] = LT /\ t[1] = "/think>"

\* Where a text contains a closing tag, token by token.
LEMMA CloseAt ==
    ASSUME NEW s \in Text, NEW i \in Int
    PROVE  i \in ClosesAt(s) <=> i \in 1..(Len(s) - 1) /\ s[i] = LT /\ s[i + 1] = "/think>"
<1>1. Len(s) \in Nat
  BY TextAt
<1>2. CASE i \notin 1..(Len(s) - 1)
  BY <1>2 DEF ClosesAt
<1>3. CASE i \in 1..(Len(s) - 1)
  <2> DEFINE x == SubSeq(s, i, i + 1)
  <2>1. x \in Text /\ Len(x) = 2 /\ x[1] = s[i] /\ x[2] = s[i + 1]
    <3>1. i \in 1..Len(s) /\ i + 1 \in 1..Len(s) /\ i =< i + 1 /\ i >= 1 /\ i + 1 =< Len(s)
      BY <1>1, <1>3
    <3>2. x \in Text
      BY <3>1, SubText
    <3>3. /\ Len(x) = IF i <= i + 1 THEN (i + 1) - i + 1 ELSE 0
          /\ \A k \in 1..((i + 1) - i + 1) : x[k] = s[i + k - 1]
      BY <3>1, SubSeqProperties DEF Text
    <3>4. (i + 1) - i + 1 = 2 /\ i + 1 - 1 = i /\ i + 2 - 1 = i + 1
      BY <3>1
    <3>5. Len(x) = 2 /\ \A k \in 1..2 : x[k] = s[i + k - 1]
      BY <3>1, <3>3, <3>4
    <3> QED BY <3>2, <3>4, <3>5
  <2> HIDE DEF x
  <2>2. x = CloseTag <=> x[1] = LT /\ x[2] = "/think>"
    <3>1. ASSUME x[1] = LT, x[2] = "/think>" PROVE x = CloseTag
      <4>1. \A k \in 1..Len(x) : x[k] = CloseTag[k]
        BY <2>1, <3>1, Tags
      <4> QED BY <2>1, <4>1, Tags, SeqEqual DEF Text
    <3> QED BY <3>1, Tags
  <2>3. i \in ClosesAt(s) <=> x = CloseTag
    BY <1>3 DEF ClosesAt, x
  <2> QED BY <1>3, <2>1, <2>2, <2>3
<1> QED BY <1>2, <1>3

\* The closing tags are finitely many.
LEMMA ClosesFinite ==
    ASSUME NEW s \in Text
    PROVE  ClosesAt(s) \subseteq Int /\ IsFiniteSet(ClosesAt(s))
<1>1. Len(s) \in Nat
  BY TextAt
<1>2. ClosesAt(s) \in SUBSET (1..Len(s)) /\ ClosesAt(s) \subseteq Int
  BY <1>1 DEF ClosesAt
<1>3. IsFiniteSet(1..Len(s))
  BY <1>1, FS_Interval
<1> QED BY <1>2, <1>3, FS_Subset

\* A closing tag in the first of two texts, and in the second.
LEMMA CloseConcat ==
    ASSUME NEW s \in Text, NEW t \in Text
    PROVE  /\ HasClose(s) => HasClose(s \o t)
           /\ HasClose(t) => HasClose(s \o t)
           /\ HasClose(s \o t) => HasClose(s) \/ HasClose(t) \/ Meets(s, t)
<1> DEFINE w == s \o t
<1>1. /\ w \in Text /\ Len(w) = Len(s) + Len(t) /\ Len(s) \in Nat /\ Len(t) \in Nat
      /\ \A i \in 1..Len(s) : w[i] = s[i]
      /\ \A j \in 1..Len(t) : w[Len(s) + j] = t[j]
  BY ConcatAt, TextAt
<1> HIDE DEF w
<1>2. ASSUME NEW i \in ClosesAt(s) PROVE i \in ClosesAt(w)
  <2>1. i \in Int
    BY ClosesFinite
  <2>2. i \in 1..(Len(s) - 1) /\ s[i] = LT /\ s[i + 1] = "/think>"
    BY <2>1, CloseAt
  <2>3. i \in 1..Len(s) /\ i + 1 \in 1..Len(s) /\ i \in 1..(Len(w) - 1)
    BY <1>1, <2>2
  <2> QED BY <1>1, <2>1, <2>2, <2>3, CloseAt
<1>3. ASSUME NEW j \in ClosesAt(t) PROVE Len(s) + j \in ClosesAt(w)
  <2>1. j \in Int
    BY ClosesFinite
  <2>2. j \in 1..(Len(t) - 1) /\ t[j] = LT /\ t[j + 1] = "/think>"
    BY <2>1, CloseAt
  <2>3. /\ j \in 1..Len(t) /\ j + 1 \in 1..Len(t) /\ Len(s) + j \in 1..(Len(w) - 1)
        /\ Len(s) + j \in Int /\ (Len(s) + j) + 1 = Len(s) + (j + 1)
    BY <1>1, <2>2
  <2>4. w[Len(s) + j] = LT /\ w[(Len(s) + j) + 1] = "/think>"
    BY <1>1, <2>2, <2>3
  <2> QED BY <1>1, <2>3, <2>4, CloseAt
<1>4. ASSUME NEW i \in ClosesAt(w) PROVE HasClose(s) \/ HasClose(t) \/ Meets(s, t)
  <2>1. i \in Int
    BY <1>1, ClosesFinite
  <2>2. i \in 1..(Len(w) - 1) /\ w[i] = LT /\ w[i + 1] = "/think>"
    BY <1>1, <2>1, CloseAt
  <2>3. CASE i < Len(s)
    <3>1. i \in 1..Len(s) /\ i + 1 \in 1..Len(s) /\ i \in 1..(Len(s) - 1)
      BY <1>1, <2>2, <2>3
    <3>2. i \in ClosesAt(s)
      BY <1>1, <2>1, <2>2, <3>1, CloseAt
    <3> QED BY <3>2 DEF HasClose
  <2>4. CASE i = Len(s)
    <3>1. i \in 1..Len(s) /\ 1 \in 1..Len(t) /\ Len(s) > 0 /\ Len(t) > 0
      BY <1>1, <2>2, <2>4
    <3>2. s[Len(s)] = LT /\ t[1] = "/think>"
      BY <1>1, <2>2, <2>4, <3>1
    <3> QED BY <1>1, <3>1, <3>2, TextAt DEF Meets
  <2>5. CASE i > Len(s)
    <3> DEFINE j == i - Len(s)
    <3>1. /\ j \in Int /\ j \in 1..(Len(t) - 1) /\ j \in 1..Len(t) /\ j + 1 \in 1..Len(t)
          /\ Len(s) + j = i /\ Len(s) + (j + 1) = i + 1
      BY <1>1, <2>2, <2>5
    <3> HIDE DEF j
    <3>2. t[j] = LT /\ t[j + 1] = "/think>"
      BY <1>1, <2>2, <3>1
    <3>3. j \in ClosesAt(t)
      BY <3>1, <3>2, CloseAt
    <3> QED BY <3>3 DEF HasClose
  <2> QED BY <1>1, <2>1, <2>3, <2>4, <2>5
<1>5. /\ HasClose(s) => HasClose(w)
      /\ HasClose(t) => HasClose(w)
      /\ HasClose(w) => HasClose(s) \/ HasClose(t) \/ Meets(s, t)
  BY <1>2, <1>3, <1>4 DEF HasClose
<1> QED BY <1>5 DEF w

\* A text with a closing tag is what BeforeClose gives, the tag, and a rest.
LEMMA CloseParts ==
    ASSUME NEW s \in Text, HasClose(s)
    PROVE  /\ BeforeClose(s) \in Text /\ ~HasClose(BeforeClose(s))
           /\ \E q \in Text : /\ s = BeforeClose(s) \o (CloseTag \o q)
                              /\ AfterClose(s) = TrimStart(q)
<1> DEFINE i == Min(ClosesAt(s))
           p == SubSeq(s, 1, i - 1)
           x == Drop(s, i - 1)
           q == Drop(x, 2)
<1>1. i \in ClosesAt(s) /\ \A j \in ClosesAt(s) : i =< j
  BY ClosesFinite, MinIn DEF HasClose
<1>2. p = BeforeClose(s) /\ AfterClose(s) = TrimStart(Drop(s, i + 1))
  BY DEF BeforeClose, AfterClose
<1> HIDE DEF i
<1>3. i \in Int /\ i \in 1..(Len(s) - 1) /\ s[i] = LT /\ s[i + 1] = "/think>" /\ Len(s) \in Nat
  BY <1>1, ClosesFinite, CloseAt, TextAt
<1>4. i - 1 \in 0..Len(s) /\ (i - 1) + 1 = i /\ (i - 1) + 2 = i + 1 /\ i - 1 < i
  BY <1>3
<1>5. /\ p \in Text /\ Len(p) = i - 1 /\ x \in Text /\ Len(x) = Len(s) - (i - 1) /\ s = p \o x
      /\ \A j \in 1..(i - 1) : p[j] = s[j]
      /\ \A j \in 1..(Len(s) - (i - 1)) : x[j] = s[(i - 1) + j]
  BY <1>4, CutText
<1> HIDE DEF p, x
<1>6. 2 \in 0..Len(x) /\ x[1] = LT /\ x[2] = "/think>"
  <2>1. 1 \in 1..(Len(s) - (i - 1)) /\ 2 \in 1..(Len(s) - (i - 1)) /\ 2 \in 0..(Len(s) - (i - 1))
    BY <1>3
  <2> QED BY <1>3, <1>4, <1>5, <2>1
<1>7. /\ SubSeq(x, 1, 2) \in Text /\ Len(SubSeq(x, 1, 2)) = 2 /\ q \in Text
      /\ x = SubSeq(x, 1, 2) \o q
      /\ \A j \in 1..2 : SubSeq(x, 1, 2)[j] = x[j]
  BY <1>5, <1>6, CutText
<1>8. SubSeq(x, 1, 2) = CloseTag
  <2>1. \A j \in 1..Len(SubSeq(x, 1, 2)) : SubSeq(x, 1, 2)[j] = CloseTag[j]
    BY <1>6, <1>7, Tags
  <2> QED BY <1>7, <2>1, Tags, SeqEqual DEF Text
<1>9. q = Drop(s, i + 1)
  <2>1. Drop(p \o x, Len(p) + 2) = Drop(x, 2)
    BY <1>5, <1>6, CutSecond
  <2> QED BY <1>4, <1>5, <2>1
<1> HIDE DEF q
<1>10. ~HasClose(p)
  <2>1. ASSUME NEW j \in ClosesAt(p) PROVE FALSE
    <3>1. j \in Int /\ j \in 1..(Len(p) - 1) /\ p[j] = LT /\ p[j + 1] = "/think>"
      BY <1>5, ClosesFinite, CloseAt
    <3>2. j \in 1..(i - 1) /\ j + 1 \in 1..(i - 1) /\ j \in 1..(Len(s) - 1) /\ ~(i =< j)
      BY <1>3, <1>5, <3>1
    <3>3. j \in ClosesAt(s)
      BY <1>5, <3>1, <3>2, CloseAt
    <3> QED BY <1>1, <3>2, <3>3
  <2> QED BY <2>1 DEF HasClose
<1>11. s = p \o (CloseTag \o q) /\ AfterClose(s) = TrimStart(q)
  BY <1>2, <1>5, <1>7, <1>8, <1>9
<1> QED BY <1>2, <1>5, <1>7, <1>10, <1>11

\* And a text of that form is split at this tag, if no other comes before it.
LEMMA CloseUnique ==
    ASSUME NEW p \in Text, ~HasClose(p), NEW q \in Text
    PROVE  LET s == p \o (CloseTag \o q)
           IN  HasClose(s) /\ BeforeClose(s) = p /\ AfterClose(s) = TrimStart(q)
<1> DEFINE x == CloseTag \o q
           s == p \o x
<1>1. /\ x \in Text /\ Len(x) = 2 + Len(q) /\ Len(q) \in Nat /\ x[1] = LT /\ x[2] = "/think>"
      /\ Drop(x, 2) = q
  <2>1. 1 \in 1..Len(CloseTag) /\ 2 \in 1..Len(CloseTag)
    BY Tags
  <2>2. /\ CloseTag \o q \in Text /\ Len(CloseTag \o q) = Len(CloseTag) + Len(q)
        /\ \A i \in 1..Len(CloseTag) : (CloseTag \o q)[i] = CloseTag[i]
    BY Tags, ConcatAt
  <2>3. Drop(CloseTag \o q, Len(CloseTag)) = q
    BY Tags, PartText
  <2> QED BY <2>1, <2>2, <2>3, Tags, TextAt
<1> HIDE DEF x
<1>2. /\ s \in Text /\ Len(s) = Len(p) + Len(x) /\ Len(p) \in Nat
      /\ \A i \in 1..Len(p) : s[i] = p[i]
      /\ \A j \in 1..Len(x) : s[Len(p) + j] = x[j]
  BY <1>1, ConcatAt, TextAt
<1>3. SubSeq(s, 1, Len(p)) = p /\ Drop(s, Len(p) + 2) = q
  <2>1. 2 \in 0..Len(x)
    BY <1>1
  <2> QED BY <1>1, <2>1, PartText, CutSecond
<1> HIDE DEF s
<1>4. Len(p) + 1 \in ClosesAt(s)
  <2>1. 1 \in 1..Len(x) /\ 2 \in 1..Len(x) /\ Len(p) + 1 \in 1..(Len(s) - 1)
        /\ Len(p) + 1 \in Int /\ (Len(p) + 1) + 1 = Len(p) + 2
    BY <1>1, <1>2
  <2> QED BY <1>1, <1>2, <2>1, CloseAt
<1>5. ASSUME NEW i \in ClosesAt(s) PROVE i \in Int /\ Len(p) + 1 =< i
  <2>1. i \in Int /\ i \in 1..(Len(s) - 1) /\ s[i] = LT /\ s[i + 1] = "/think>"
    BY <1>2, ClosesFinite, CloseAt
  <2>2. ASSUME i < Len(p) PROVE FALSE
    <3>1. i \in 1..Len(p) /\ i + 1 \in 1..Len(p) /\ i \in 1..(Len(p) - 1)
      BY <1>2, <2>1, <2>2
    <3>2. i \in ClosesAt(p)
      BY <1>2, <2>1, <3>1, CloseAt
    <3> QED BY <3>2 DEF HasClose
  <2>3. i # Len(p)
    <3>1. 1 \in 1..Len(x)
      BY <1>1
    <3>2. s[Len(p) + 1] = LT
      BY <1>1, <1>2, <3>1
    <3> QED BY <2>1, <3>2, Tags
  <2> QED BY <1>2, <2>1, <2>2, <2>3
<1>6. Min(ClosesAt(s)) = Len(p) + 1
  <2>1. Min(ClosesAt(s)) \in ClosesAt(s) /\ \A j \in ClosesAt(s) : Min(ClosesAt(s)) =< j
    BY <1>2, <1>4, ClosesFinite, MinIn
  <2>2. Min(ClosesAt(s)) \in Int /\ Len(p) + 1 =< Min(ClosesAt(s)) /\ Min(ClosesAt(s)) =< Len(p) + 1
    BY <1>4, <1>5, <2>1
  <2>3. \A k \in Int : Len(p) + 1 =< k /\ k =< Len(p) + 1 => k = Len(p) + 1
    BY <1>2
  <2> QED BY <2>2, <2>3
<1>7. (Len(p) + 1) - 1 = Len(p) /\ (Len(p) + 1) + 1 = Len(p) + 2
  BY <1>2
<1>8. HasClose(s) /\ BeforeClose(s) = p /\ AfterClose(s) = TrimStart(q)
  BY <1>3, <1>4, <1>6, <1>7 DEF HasClose, BeforeClose, AfterClose
<1> QED BY <1>8 DEF s, x

\* A text put before another one does not move where that one is split.
LEMMA CloseShift ==
    ASSUME NEW p \in Text, NEW s \in Text, ~HasClose(p), ~Meets(p, s)
    PROVE  /\ HasClose(p \o s) <=> HasClose(s)
           /\ HasClose(s) => /\ BeforeClose(p \o s) = p \o BeforeClose(s)
                             /\ AfterClose(p \o s) = AfterClose(s)
<1>1. HasClose(p \o s) <=> HasClose(s)
  BY CloseConcat
<1>2. ASSUME HasClose(s)
      PROVE  /\ BeforeClose(p \o s) = p \o BeforeClose(s)
             /\ AfterClose(p \o s) = AfterClose(s)
  <2> DEFINE b == BeforeClose(s)
  <2>1. /\ b \in Text /\ ~HasClose(b)
        /\ \E q \in Text : s = b \o (CloseTag \o q) /\ AfterClose(s) = TrimStart(q)
    BY <1>2, CloseParts
  <2> HIDE DEF b
  <2>2. PICK q \in Text : s = b \o (CloseTag \o q) /\ AfterClose(s) = TrimStart(q)
    BY <2>1
  <2>3. CloseTag \o q \in Text /\ p \o b \in Text
    BY <2>1, Tags, TextConcat
  <2>4. p \o s = (p \o b) \o (CloseTag \o q)
    <3>1. p \o (b \o (CloseTag \o q)) = (p \o b) \o (CloseTag \o q)
      BY <2>1, <2>3, TextConcat, ZenonT(60)
    <3> QED BY <2>2, <3>1
  <2>5. ~Meets(p, b)
    <3>1. ASSUME b # << >> PROVE s # << >> /\ s[1] = b[1]
      <4>1. 1 \in 1..Len(b)
        BY <2>1, <3>1, TextAt
      <4>2. (b \o (CloseTag \o q))[1] = b[1]
        BY <2>1, <2>3, <4>1, ConcatAt
      <4>3. Len(b \o (CloseTag \o q)) = Len(b) + Len(CloseTag \o q)
            /\ Len(b) \in Nat /\ Len(CloseTag \o q) \in Nat
        BY <2>1, <2>3, ConcatAt, TextAt
      <4>4. Len(s) # 0
        BY <2>2, <4>1, <4>3
      <4> QED BY <2>2, <4>2, <4>4, TextAt
    <3> QED BY <3>1 DEF Meets
  <2>6. ~HasClose(p \o b)
    BY <2>1, <2>5, CloseConcat
  <2>7. /\ BeforeClose((p \o b) \o (CloseTag \o q)) = p \o b
        /\ AfterClose((p \o b) \o (CloseTag \o q)) = TrimStart(q)
    BY <2>3, <2>6, CloseUnique
  <2>8. BeforeClose(p \o s) = p \o b /\ AfterClose(p \o s) = AfterClose(s)
    BY <2>2, <2>4, <2>7
  <2> QED BY <2>8 DEF b
<1> QED BY <1>1, <1>2

\* A text that goes on is split where it was split.
LEMMA CloseGoesOn ==
    ASSUME NEW s \in Text, HasClose(s), NEW t \in Text
    PROVE  /\ HasClose(s \o t) /\ BeforeClose(s \o t) = BeforeClose(s)
           /\ Words(AfterClose(s \o t)) = Words(AfterClose(s)) \o Words(t)
<1> DEFINE b == BeforeClose(s)
<1>1. /\ b \in Text /\ ~HasClose(b)
      /\ \E q \in Text : s = b \o (CloseTag \o q) /\ AfterClose(s) = TrimStart(q)
  BY CloseParts
<1> HIDE DEF b
<1>2. PICK q \in Text : s = b \o (CloseTag \o q) /\ AfterClose(s) = TrimStart(q)
  BY <1>1
<1>3. CloseTag \o q \in Text /\ q \o t \in Text
  BY Tags, TextConcat
<1>4. s \o t = b \o (CloseTag \o (q \o t))
  <2>1. (b \o (CloseTag \o q)) \o t = b \o ((CloseTag \o q) \o t)
    BY <1>1, <1>3, TextConcat, ZenonT(60)
  <2>2. (CloseTag \o q) \o t = CloseTag \o (q \o t)
    BY Tags, TextConcat
  <2> QED BY <1>2, <2>1, <2>2
<1>5. LET w == b \o (CloseTag \o (q \o t))
      IN  HasClose(w) /\ BeforeClose(w) = b /\ AfterClose(w) = TrimStart(q \o t)
  BY <1>1, <1>3, CloseUnique
<1>6. Words(TrimStart(q \o t)) = Words(q \o t) /\ Words(TrimStart(q)) = Words(q)
  BY <1>3, WordsTrimmed
<1>7. Words(q \o t) = Words(q) \o Words(t)
  BY WordsConcat
<1>8. HasClose(s \o t) /\ BeforeClose(s \o t) = b /\ AfterClose(s \o t) = TrimStart(q \o t)
  BY <1>4, <1>5
<1>9. Words(AfterClose(s \o t)) = Words(AfterClose(s)) \o Words(t)
  BY <1>2, <1>6, <1>7, <1>8
<1> QED BY <1>8, <1>9 DEF b

\* A broken closing tag stays one in a longer text.
LEMMA BrokenConcat ==
    ASSUME NEW s \in Text, NEW t \in Text
    PROVE  /\ BrokenClose(s) => BrokenClose(s \o t)
           /\ BrokenClose(t) => BrokenClose(s \o t)
<1> DEFINE w == s \o t
<1>1. /\ w \in Text /\ Len(w) = Len(s) + Len(t) /\ Len(s) \in Nat /\ Len(t) \in Nat
      /\ \A i \in 1..Len(s) : w[i] = s[i]
      /\ \A j \in 1..Len(t) : w[Len(s) + j] = t[j]
  BY ConcatAt, TextAt
<1> HIDE DEF w
<1>2. ASSUME BrokenClose(s) PROVE BrokenClose(w)
  <2>1. PICK i, j \in 1..Len(s) : /\ i + 1 < j /\ s[i] = LT /\ s[j] = "/think>"
                                  /\ \A k \in (i + 1)..(j - 1) : s[k] = SP
    BY <1>2 DEF BrokenClose
  <2>2. i \in 1..Len(w) /\ j \in 1..Len(w)
    BY <1>1
  <2>3. \A k \in (i + 1)..(j - 1) : w[k] = SP
    <3>1. \A k \in (i + 1)..(j - 1) : k \in 1..Len(s)
      BY <1>1
    <3> QED BY <1>1, <2>1, <3>1
  <2> QED BY <1>1, <2>1, <2>2, <2>3 DEF BrokenClose
<1>3. ASSUME BrokenClose(t) PROVE BrokenClose(w)
  <2>1. PICK i, j \in 1..Len(t) : /\ i + 1 < j /\ t[i] = LT /\ t[j] = "/think>"
                                  /\ \A k \in (i + 1)..(j - 1) : t[k] = SP
    BY <1>3 DEF BrokenClose
  <2> DEFINE m == Len(s) + i
             n == Len(s) + j
  <2>2. m \in 1..Len(w) /\ n \in 1..Len(w) /\ m + 1 < n
    BY <1>1, <2>1
  <2>3. w[m] = LT /\ w[n] = "/think>"
    BY <1>1, <2>1
  <2>4. \A k \in (m + 1)..(n - 1) : w[k] = SP
    <3>1. TAKE k \in (m + 1)..(n - 1)
    <3>2. /\ k - Len(s) \in 1..Len(t) /\ k - Len(s) \in (i + 1)..(j - 1)
          /\ Len(s) + (k - Len(s)) = k
      BY <1>1
    <3> QED BY <1>1, <2>1, <3>2
  <2> HIDE DEF m, n
  <2> QED BY <2>2, <2>3, <2>4 DEF BrokenClose
<1>4. (BrokenClose(s) => BrokenClose(w)) /\ (BrokenClose(t) => BrokenClose(w))
  BY <1>2, <1>3
<1> QED BY <1>4 DEF w

\* White space between the two halves of a closing tag breaks it.
LEMMA BrokenHere ==
    ASSUME NEW v \in Text, IsBlank(v), v # << >>, NEW t \in Text, t # << >>, t[1] = "/think>"
    PROVE  BrokenClose(<< LT >> \o (v \o t))
<1> DEFINE x == << LT >>
           y == v \o t
           w == x \o y
<1>1. x \in Text /\ Len(x) = 1 /\ x[1] = LT
  BY WordsOne, Tags, EmptyText
<1> HIDE DEF x
<1>2. /\ y \in Text /\ Len(y) = Len(v) + Len(t) /\ Len(v) \in Nat /\ Len(t) \in Nat
      /\ Len(v) > 0 /\ Len(t) > 0
      /\ \A i \in 1..Len(v) : y[i] = v[i]
      /\ \A i \in 1..Len(t) : y[Len(v) + i] = t[i]
  BY ConcatAt, TextAt, TextConcat
<1> HIDE DEF y
<1>3. /\ w \in Text /\ Len(w) = 1 + Len(y)
      /\ \A i \in 1..1 : w[i] = x[i]
      /\ \A i \in 1..Len(y) : w[1 + i] = y[i]
  <2>1. /\ x \o y \in Text /\ Len(x \o y) = Len(x) + Len(y)
        /\ \A i \in 1..Len(x) : (x \o y)[i] = x[i]
        /\ \A i \in 1..Len(y) : (x \o y)[Len(x) + i] = y[i]
    BY <1>1, <1>2, ConcatAt
  <2> QED BY <1>1, <2>1
<1> HIDE DEF w
<1> DEFINE n == Len(v) + 2
<1>4. /\ 1 \in 1..Len(w) /\ n \in 1..Len(w) /\ 1 + 1 < n
      /\ 1 \in 1..1 /\ 1 \in 1..Len(t) /\ Len(v) + 1 \in 1..Len(y) /\ 1 + (Len(v) + 1) = n
  BY <1>2, <1>3
<1>5. w[1] = LT /\ w[n] = "/think>"
  BY <1>1, <1>2, <1>3, <1>4
<1>6. \A k \in (1 + 1)..(n - 1) : w[k] = SP
  <2>1. TAKE k \in (1 + 1)..(n - 1)
  <2>2. k - 1 \in 1..Len(v) /\ k - 1 \in 1..Len(y) /\ 1 + (k - 1) = k
    BY <1>2
  <2>3. w[k] = v[k - 1]
    BY <1>2, <1>3, <2>2
  <2> QED BY <2>2, <2>3, BlankAt
<1> HIDE DEF n
<1>7. BrokenClose(w)
  BY <1>4, <1>5, <1>6 DEF BrokenClose
<1> QED BY <1>7 DEF w, x, y

------------------------------------------------------------------------------
(***************************************************************************)
(* A think block that is not closed yet.                                   *)
(*                                                                         *)
(* q is the text behind the opening tag so far, r what was sent of it as   *)
(* reasoning and b what is held back.  If something is held back, it is an *)
(* LT with nothing but white space behind it: the white space that the     *)
(* first delta of a block loses when it is trimmed.                        *)
(***************************************************************************)
EndsInTag(q, r) ==
    \E p, v \in Text : q = p \o (<< LT >> \o v) /\ IsBlank(v) /\ Words(r) = Words(p)

Thinks(q, r, b) ==
    \/ b = << >> /\ Held(q) = << >> /\ Words(r) = Words(q)
    \/ b = << LT >> /\ EndsInTag(q, r)

\* What is held back is the end of the text, and the rest of it is settled.
LEMMA HeldParts ==
    ASSUME NEW s \in Text
    PROVE  /\ Held(s) \in { << >>, << LT >> } /\ Held(s) \in Text /\ Settled(s) \in Text
           /\ s = Settled(s) \o Held(s)
           /\ Len(Held(s)) \in Nat /\ Len(Held(s)) =< Len(s)
           /\ IsBlank(s) => Held(s) = << >>
<1>1. /\ << LT >> \in Text /\ Len(<< LT >>) = 1 /\ << LT >>[1] = LT
      /\ << >> \in Text /\ Len(<< >>) = 0
  BY WordsOne, Tags, EmptyText
<1>2. Held(s) \in { << >>, << LT >> } /\ Held(s) \in Text /\ Settled(s) \in Text
  BY <1>1, HeldTypes, SMTT(30) DEF Held
<1>3. CASE s # << >> /\ s[Len(s)] = LT
  <2> DEFINE n == Len(s) - 1
             x == Drop(s, n)
  <2>1. n \in 0..Len(s) /\ Len(s) - n = 1 /\ n + 1 = Len(s) /\ Len(s) \in Nat /\ 1 =< Len(s)
    <3>1. Len(s) \in Nat /\ Len(s) # 0
      BY <1>3, TextAt
    <3> QED BY <3>1
  <2>2. /\ x \in Text /\ Len(x) = 1 /\ s = SubSeq(s, 1, n) \o x
        /\ \A i \in 1..1 : x[i] = s[n + i]
    <3> HIDE DEF n
    <3>1. /\ Drop(s, n) \in Text /\ Len(Drop(s, n)) = Len(s) - n
          /\ s = SubSeq(s, 1, n) \o Drop(s, n)
          /\ \A i \in 1..(Len(s) - n) : Drop(s, n)[i] = s[n + i]
      BY <2>1, CutText
    <3> QED BY <2>1, <3>1
  <2> HIDE DEF x
  <2>3. x = << LT >>
    <3>1. \A i \in 1..Len(x) : x[i] = << LT >>[i]
      BY <1>1, <1>3, <2>1, <2>2
    <3> QED BY <1>1, <2>2, <3>1, SeqEqual DEF Text
  <2>4. Held(s) = << LT >> /\ Settled(s) = SubSeq(s, 1, n)
    BY <1>1, <1>3 DEF Held, Settled
  <2>5. ~IsBlank(s)
    BY <1>3, <2>1, TextAt, BlankAt, Tags, SMTT(30)
  <2>6. s = Settled(s) \o Held(s)
    BY <2>2, <2>3, <2>4
  <2>7. Len(Held(s)) = 1
    BY <1>1, <2>4
  <2> QED BY <1>2, <2>1, <2>5, <2>6, <2>7
<1>4. CASE ~(s # << >> /\ s[Len(s)] = LT)
  <2>1. Held(s) = << >> /\ Len(s) \in Nat /\ Len(s) - 0 = Len(s)
    BY <1>4, TextAt DEF Held
  <2>2. Settled(s) = s
    BY <1>1, <2>1, SubSeqFull DEF Settled, Text
  <2> QED BY <1>1, <1>2, <2>1, <2>2, TextConcat
<1> QED BY <1>3, <1>4

\* It depends on the last of the texts that come one after the other.
LEMMA HeldConcat ==
    ASSUME NEW s \in Text, NEW t \in Text, t # << >>
    PROVE  Held(s \o t) = Held(t) /\ Settled(s \o t) = s \o Settled(t)
<1> DEFINE w == s \o t
<1>1. /\ w \in Text /\ Len(w) = Len(s) + Len(t) /\ Len(s) \in Nat /\ Len(t) \in Nat /\ Len(t) > 0
      /\ \A j \in 1..Len(t) : w[Len(s) + j] = t[j]
  BY ConcatAt, TextAt, TextConcat
<1>2. w # << >> /\ w[Len(w)] = t[Len(t)]
  <2>1. Len(t) \in 1..Len(t) /\ Len(w) # 0
    BY <1>1
  <2>2. w[Len(w)] = t[Len(t)]
    BY <1>1, <2>1
  <2> QED BY <1>1, <2>1, <2>2, TextAt
<1>3. Held(w) = Held(t)
  BY <1>2 DEF Held
<1> DEFINE n == Len(t) - Len(Held(t))
<1>4. n \in 0..Len(t) /\ Len(w) - Len(Held(w)) = Len(s) + n
  BY <1>1, <1>3, HeldParts
<1>5. SubSeq(s \o t, 1, Len(s) + n) = s \o SubSeq(t, 1, n)
  <2> HIDE DEF n
  <2> QED BY <1>4, CutSecond
<1> QED BY <1>3, <1>4, <1>5 DEF Settled

\* A text that is sent on, but for what it holds back.
LEMMA ThinksOn ==
    ASSUME NEW q \in Text, NEW r \in Text, Words(r) = Words(q), NEW s \in Text, s # << >>
    PROVE  Thinks(q \o s, r \o Settled(s), Held(s))
<1> DEFINE x == Settled(s)
<1>1. x \in Text /\ s = x \o Held(s) /\ Held(s) \in { << >>, << LT >> } /\ Held(q \o s) = Held(s)
  BY HeldParts, HeldConcat
<1>2. Words(r \o x) = Words(q \o x)
  <2>1. x \in Text
    BY <1>1
  <2> HIDE DEF x
  <2>2. Words(r \o x) = Words(r) \o Words(x) /\ Words(q \o x) = Words(q) \o Words(x)
    BY <2>1, WordsConcat
  <2> QED BY <2>2
<1> HIDE DEF x
<1>3. CASE Held(s) = << >>
  <2>1. s = x
    BY <1>1, <1>3, TextConcat
  <2> QED BY <1>1, <1>2, <1>3, <2>1 DEF Thinks, x
<1>4. CASE Held(s) = << LT >>
  <2>1. << LT >> \in Text /\ << >> \in Text /\ IsBlank(<< >>)
    BY WordsOne, Tags, EmptyText
  <2>2. q \o s = (q \o x) \o (<< LT >> \o << >>) /\ q \o x \in Text
    <3>1. << LT >> \o << >> = << LT >> /\ q \o x \in Text
      BY <1>1, <2>1, TextConcat
    <3>2. q \o (x \o << LT >>) = (q \o x) \o << LT >>
      BY <1>1, <2>1, TextConcat
    <3> QED BY <1>1, <1>4, <3>1, <3>2
  <2>3. EndsInTag(q \o s, r \o x)
    BY <1>2, <2>1, <2>2 DEF EndsInTag
  <2> QED BY <1>4, <2>3 DEF Thinks, x
<1> QED BY <1>1, <1>3, <1>4

\* The first text behind an opening tag, which is trimmed.
LEMMA ThinksFirst ==
    ASSUME NEW q \in Text, ~HasClose(q)
    PROVE  ~HasClose(Trim(q)) /\ Thinks(q, Settled(Trim(q)), Held(Trim(q)))
<1> DEFINE x == Trim(q)
           y == Settled(x)
<1>1. x \in Text /\ \E u, v \in Text : IsBlank(u) /\ IsBlank(v) /\ q = u \o (x \o v)
  BY TrimParts
<1>2. Words(x) = Words(q)
  BY WordsTrimmed
<1> HIDE DEF x
<1>3. PICK u, v \in Text : IsBlank(u) /\ IsBlank(v) /\ q = u \o (x \o v)
  BY <1>1
<1>4. x \o v \in Text
  BY <1>1, TextConcat
<1>5. ~HasClose(x)
  <2>1. HasClose(x) => HasClose(x \o v)
    BY <1>1, CloseConcat
  <2>2. HasClose(x \o v) => HasClose(q)
    BY <1>3, <1>4, CloseConcat
  <2> QED BY <2>1, <2>2
<1>6. y \in Text /\ x = y \o Held(x) /\ Held(x) \in { << >>, << LT >> }
  BY <1>1, HeldParts
<1>7. CASE Held(x) = << >>
  <2>1. y = x
    BY <1>6, <1>7, TextConcat
  <2>2. Held(x \o v) = << >>
    <3>1. CASE v = << >>
      <4>1. x \o v = x
        BY <1>1, <3>1, TextConcat
      <4> QED BY <1>7, <4>1
    <3>2. CASE v # << >>
      BY <1>1, <1>3, <3>2, HeldConcat, HeldParts
    <3> QED BY <3>1, <3>2
  <2>3. Held(q) = << >>
    <3>1. CASE x \o v = << >>
      <4>1. q = u
        BY <1>3, <3>1, TextConcat
      <4> QED BY <1>3, <4>1, HeldParts
    <3>2. CASE x \o v # << >>
      <4>1. Held(u \o (x \o v)) = Held(x \o v)
        BY <1>4, <3>2, HeldConcat
      <4> QED BY <1>3, <2>2, <4>1
    <3> QED BY <3>1, <3>2
  <2> QED BY <1>2, <1>5, <1>7, <2>1, <2>3 DEF Thinks, x
<1>8. CASE Held(x) = << LT >>
  <2> HIDE DEF y
  <2>1. << LT >> \in Text /\ << LT >> \o v \in Text /\ u \o y \in Text
    BY <1>6, WordsOne, Tags, EmptyText, TextConcat
  <2>2. q = (u \o y) \o (<< LT >> \o v)
    <3>1. (y \o << LT >>) \o v = y \o (<< LT >> \o v)
      BY <1>6, <2>1, TextConcat, ZenonT(60)
    <3>2. u \o (y \o (<< LT >> \o v)) = (u \o y) \o (<< LT >> \o v)
      BY <1>6, <2>1, TextConcat, ZenonT(60)
    <3> QED BY <1>3, <1>6, <1>8, <3>1, <3>2
  <2>3. Words(y) = Words(u \o y)
    <3>1. Words(u \o y) = Words(u) \o Words(y) /\ Words(u) = << >> /\ Words(y) \in Text
      BY <1>3, <1>6, WordsConcat, WordsBlank, WordsOf
    <3> QED BY <3>1, TextConcat
  <2>4. EndsInTag(q, y)
    BY <1>3, <2>1, <2>2, <2>3 DEF EndsInTag
  <2> QED BY <1>5, <1>8, <2>4 DEF Thinks, x, y
<1> QED BY <1>6, <1>7, <1>8

\* What was held back completes the reasoning.
LEMMA ThinksAll ==
    ASSUME NEW q \in Text, NEW r \in Text, NEW b \in Text, Thinks(q, r, b)
    PROVE  Words(r \o b) = Words(q)
<1>1. CASE b = << >> /\ Words(r) = Words(q)
  BY <1>1, TextConcat
<1>2. CASE b = << LT >> /\ EndsInTag(q, r)
  <2>1. PICK p, v \in Text : q = p \o (<< LT >> \o v) /\ IsBlank(v) /\ Words(r) = Words(p)
    BY <1>2 DEF EndsInTag
  <2>2. << LT >> \o v \in Text /\ b \in Text
    BY <1>2, TextConcat
  <2>3. Words(r \o b) = Words(r) \o Words(b)
    BY WordsConcat
  <2>4. Words(p \o (<< LT >> \o v)) = Words(p) \o Words(<< LT >> \o v)
    BY <2>2, WordsConcat
  <2>5. Words(<< LT >> \o v) = Words(b)
    <3>1. Words(b \o v) = Words(b) \o Words(v) /\ Words(v) = << >> /\ Words(b) \in Text
      BY <2>1, WordsConcat, WordsBlank, WordsOf
    <3> QED BY <1>2, <3>1, TextConcat
  <2> QED BY <2>1, <2>3, <2>4, <2>5
<1> QED BY <1>1, <1>2 DEF Thinks

\* The next text t of a block, if all of q was sent on.
LEMMA ThinksMore ==
    ASSUME NEW q \in Text, NEW r \in Text, ~HasClose(q), Words(r) = Words(q),
           NEW s \in Text, s # << >>, ~Meets(q, s)
    PROVE  /\ HasClose(s) <=> HasClose(q \o s)
           /\ HasClose(s) => /\ Words(r \o BeforeClose(s)) = Words(BeforeClose(q \o s))
                             /\ AfterClose(s) = AfterClose(q \o s)
           /\ ~HasClose(s) => Thinks(q \o s, r \o Settled(s), Held(s))
<1>1. /\ HasClose(q \o s) <=> HasClose(s)
      /\ HasClose(s) => /\ BeforeClose(q \o s) = q \o BeforeClose(s)
                        /\ AfterClose(q \o s) = AfterClose(s)
  BY CloseShift
<1>2. ASSUME HasClose(s)
      PROVE  Words(r \o BeforeClose(s)) = Words(BeforeClose(q \o s))
  <2> DEFINE x == BeforeClose(s)
  <2>1. x \in Text
    BY <1>2, CloseParts
  <2>2. BeforeClose(q \o s) = q \o x
    BY <1>1, <1>2
  <2> HIDE DEF x
  <2>3. Words(r \o x) = Words(r) \o Words(x) /\ Words(q \o x) = Words(q) \o Words(x)
    BY <2>1, WordsConcat
  <2>4. Words(r \o x) = Words(BeforeClose(q \o s))
    BY <2>2, <2>3
  <2> QED BY <2>4 DEF x
<1>3. Thinks(q \o s, r \o Settled(s), Held(s))
  BY ThinksOn
<1> QED BY <1>1, <1>2, <1>3

\* The next text t of a block: what was held back is looked at again with it.
LEMMA ThinksNext ==
    ASSUME NEW q \in Text, NEW r \in Text, NEW b \in Text, Thinks(q, r, b), ~HasClose(q),
           NEW t \in Text, t # << >>, ~BrokenClose(q \o t)
    PROVE  LET s == b \o t
           IN  /\ HasClose(s) <=> HasClose(q \o t)
               /\ HasClose(s) => /\ Words(r \o BeforeClose(s)) = Words(BeforeClose(q \o t))
                                 /\ AfterClose(s) = AfterClose(q \o t)
               /\ ~HasClose(s) => Thinks(q \o t, r \o Settled(s), Held(s))
<1>1. CASE b = << >> /\ Held(q) = << >> /\ Words(r) = Words(q)
  <2>1. b \o t = t
    BY <1>1, TextConcat
  <2>2. ~Meets(q, t)
    <3>1. << LT >> # << >>
      OBVIOUS
    <3> QED BY <1>1, <3>1 DEF Meets, Held
  <2>3. /\ HasClose(t) <=> HasClose(q \o t)
        /\ HasClose(t) => /\ Words(r \o BeforeClose(t)) = Words(BeforeClose(q \o t))
                          /\ AfterClose(t) = AfterClose(q \o t)
        /\ ~HasClose(t) => Thinks(q \o t, r \o Settled(t), Held(t))
    BY <1>1, <2>2, ThinksMore
  <2> QED BY <2>1, <2>3
<1>2. CASE b = << LT >> /\ EndsInTag(q, r)
  <2>1. PICK p, v \in Text : q = p \o (<< LT >> \o v) /\ IsBlank(v) /\ Words(r) = Words(p)
    BY <1>2 DEF EndsInTag
  <2> DEFINE x == b \o t
             y == b \o v
  <2>2. /\ Len(b) = 1 /\ b[1] = LT /\ 1 \in 1..Len(b) /\ Words(b) = b
        /\ x \in Text /\ x # << >> /\ x[1] = LT /\ y \in Text
    <3>1. Len(b) = 1 /\ b[1] = LT /\ 1 \in 1..Len(b)
      BY <1>2
    <3>2. Words(b) = b
      BY <1>2, WordsOne, Tags, EmptyText
    <3>3. x \in Text /\ Len(x) = Len(b) + Len(t) /\ x[1] = b[1] /\ Len(t) \in Nat /\ y \in Text
      <4>1. b \o t \in Text /\ Len(b \o t) = Len(b) + Len(t) /\ (b \o t)[1] = b[1]
        BY <3>1, ConcatAt, ZenonT(60)
      <4>2. Len(t) \in Nat /\ b \o v \in Text
        BY TextAt, TextConcat
      <4> QED BY <4>1, <4>2
    <3>4. Len(x) # 0
      BY <3>1, <3>3
    <3> QED BY <3>1, <3>2, <3>3, <3>4, TextAt
  <2>3. q = p \o y
    BY <1>2, <2>1
  <2> HIDE DEF x, y
  <2>4. ~HasClose(p) /\ ~HasClose(b)
    <3>1. (HasClose(p) => HasClose(p \o y)) /\ (HasClose(y) => HasClose(p \o y))
      BY <2>2, CloseConcat
    <3>2. HasClose(b) => HasClose(y)
      BY CloseConcat DEF y
    <3> QED BY <2>3, <3>1, <3>2
  <2>5. CASE v = << >>
    <3>1. q \o t = p \o x
      <4>1. y = b
        BY <2>5, TextConcat DEF y
      <4>2. (p \o b) \o t = p \o (b \o t)
        BY TextConcat, ZenonT(60)
      <4> QED BY <2>3, <4>1, <4>2 DEF x
    <3>2. ~Meets(p, x)
      BY <2>2, Tags DEF Meets
    <3>3. /\ HasClose(x) <=> HasClose(p \o x)
          /\ HasClose(x) => /\ Words(r \o BeforeClose(x)) = Words(BeforeClose(p \o x))
                            /\ AfterClose(x) = AfterClose(p \o x)
          /\ ~HasClose(x) => Thinks(p \o x, r \o Settled(x), Held(x))
      BY <2>1, <2>2, <2>4, <3>2, ThinksMore
    <3> QED BY <3>1, <3>3 DEF x
  <2>6. CASE v # << >>
    <3>1. t[1] # "/think>"
      <4>1. ASSUME t[1] = "/think>" PROVE FALSE
        <5>1. BrokenClose(<< LT >> \o (v \o t))
          BY <2>1, <2>6, <4>1, BrokenHere
        <5>2. v \o t \in Text /\ b \o (v \o t) \in Text
          BY TextConcat
        <5>3. BrokenClose(p \o (b \o (v \o t)))
          BY <1>2, <5>1, <5>2, BrokenConcat
        <5>4. (b \o v) \o t = b \o (v \o t)
          BY TextConcat, ZenonT(60)
        <5>5. ASSUME NEW z \in Text PROVE (p \o z) \o t = p \o (z \o t)
          BY TextConcat, ZenonT(60)
        <5>6. (p \o y) \o t = p \o (y \o t)
          BY <2>2, <5>5
        <5> QED BY <2>3, <5>3, <5>4, <5>6 DEF y
      <4> QED BY <4>1
    <3>2. ~Meets(q, t) /\ ~Meets(b, t)
      BY <3>1 DEF Meets
    <3>3. /\ HasClose(x) <=> HasClose(t)
          /\ HasClose(t) => /\ BeforeClose(x) = b \o BeforeClose(t)
                            /\ AfterClose(x) = AfterClose(t)
      BY <2>4, <3>2, CloseShift DEF x
    <3> DEFINE rr == r \o b
    <3>4. rr \in Text /\ Words(rr) = Words(q)
      BY TextConcat, ThinksAll
    <3> HIDE DEF rr
    <3>5. /\ HasClose(t) <=> HasClose(q \o t)
          /\ HasClose(t) => /\ Words(rr \o BeforeClose(t)) = Words(BeforeClose(q \o t))
                            /\ AfterClose(t) = AfterClose(q \o t)
          /\ ~HasClose(t) => Thinks(q \o t, rr \o Settled(t), Held(t))
      BY <3>2, <3>4, ThinksMore
    <3>6. HasClose(t) => rr \o BeforeClose(t) = r \o BeforeClose(x)
      <4>1. ASSUME NEW z \in Text PROVE (r \o b) \o z = r \o (b \o z)
        BY TextConcat, ZenonT(60)
      <4>2. HasClose(t) => BeforeClose(t) \in Text
        BY CloseParts
      <4> QED BY <3>3, <4>1, <4>2 DEF rr
    <3>7. Held(x) = Held(t) /\ rr \o Settled(t) = r \o Settled(x)
      <4>1. Held(x) = Held(t) /\ Settled(x) = b \o Settled(t)
        BY HeldConcat DEF x
      <4>2. ASSUME NEW z \in Text PROVE (r \o b) \o z = r \o (b \o z)
        BY TextConcat
      <4>3. Settled(t) \in Text
        BY HeldParts
      <4> QED BY <4>1, <4>2, <4>3 DEF rr
    <3>8. /\ HasClose(x) <=> HasClose(q \o t)
          /\ HasClose(x) => /\ Words(r \o BeforeClose(x)) = Words(BeforeClose(q \o t))
                            /\ AfterClose(x) = AfterClose(q \o t)
          /\ ~HasClose(x) => Thinks(q \o t, r \o Settled(x), Held(x))
      BY <3>3, <3>5, <3>6, <3>7
    <3> QED BY <3>8 DEF x
  <2> QED BY <2>5, <2>6
<1> QED BY <1>1, <1>2 DEF Thinks

------------------------------------------------------------------------------
(***************************************************************************)
(* What the assembler has gathered.                                        *)
(*                                                                         *)
(* s is the content heard so far and h all that was heard.  Inside a block *)
(* all of it but the tags was sent as reasoning, or is held back.  When    *)
(* the detection is over, there was no block and the content is the        *)
(* message, or the block was split as build_response splits it, or it was  *)
(* never closed and all of it is reasoning.                                *)
(***************************************************************************)
Within(b, s) ==
    /\ HasOpen(s) /\ ~HasClose(AfterOpen(s))
    /\ b.content = << >> /\ Thinks(AfterOpen(s), b.reasoning, b.buf)

Split(b, s) ==
    /\ HasBlock(s)
    /\ Words(b.reasoning) = Words(BlockReasoning(s))
    /\ Words(b.content) = Words(BlockAnswer(s))

Parted(b, s) ==
    \/ ~HasOpen(s) /\ b.content = s /\ b.reasoning = << >>
    \/ Split(b, s)
    \/ HasOpen(s) /\ ~HasBlock(s) /\ b.content = << >> /\ Words(b.reasoning) = Words(AfterOpen(s))

Detected(b, s, tools) ==
    /\ b.think = "Detecting" => /\ b.content = << >> /\ b.reasoning = << >> /\ b.buf = s
                                /\ MayBecomeOpen(s) /\ ~HasOpen(s)
    /\ b.think = "InThink" => Within(b, s)
    /\ b.think = "Done" => /\ Parted(b, s)
                           /\ tools \/ HasBlock(s) \/ (~MayBecomeOpen(s) /\ ~HasOpen(s))

SameArgs(b, h) == \A k \in Indices : b.calls[k].args = h.args[k]

Gathered(b, h) ==
    /\ SameArgs(b, h)
    /\ h.reasoning # << >> =>
         b.think = "Done" /\ b.reasoning = h.reasoning /\ b.content = h.content
    /\ h.reasoning = << >> /\ ~BrokenClose(h.content) => Detected(b, h.content, h.tools)

Rendered(b, h) ==
    /\ SameArgs(b, h)
    /\ h.reasoning # << >> => b.reasoning = h.reasoning /\ b.content = h.content
    /\ h.reasoning = << >> /\ ~BrokenClose(h.content) => Parted(b, h.content)

\* Reasoning that is pushed is gathered, and nothing else changes.
LEMMA PushReasoningReads ==
    ASSUME NEW d, Good(d), NEW t \in Text
    PROVE  LET b == PushReasoning(d, t)
           IN  /\ b.reasoning = d.reasoning \o t /\ b.content = d.content /\ b.buf = d.buf
               /\ b.think = d.think /\ b.calls = d.calls
<1> DEFINE b == PushReasoning(d, t)
<1>1. d.reasoning \in Text
  BY DEF Good, AssemblerType
<1>2. CASE t = << >>
  <2>1. b = d
    BY <1>2 DEF PushReasoning
  <2> HIDE DEF b
  <2>2. d.reasoning \o t = d.reasoning
    BY <1>1, <1>2, TextConcat
  <2>3. /\ b.reasoning = d.reasoning \o t /\ b.content = d.content /\ b.buf = d.buf
        /\ b.think = d.think /\ b.calls = d.calls
    BY <2>1, <2>2
  <2> QED BY <2>3 DEF b
<1>3. CASE t # << >>
  <2>1. Frame(d, b, { "rIdx", "next", "out", "reasoning" }) /\ b.reasoning = d.reasoning \o t
    BY <1>3, PushReasoningFields
  <2> HIDE DEF b
  <2>2. /\ b.reasoning = d.reasoning \o t /\ b.content = d.content /\ b.buf = d.buf
        /\ b.think = d.think /\ b.calls = d.calls
    BY <2>1 DEF Frame, Fields
  <2> QED BY <2>2 DEF b
<1> QED BY <1>2, <1>3

\* The same for text.
LEMMA PushTextReads ==
    ASSUME NEW d, Good(d), Told(d), NEW t \in Text
    PROVE  LET b == PushText(d, t)
           IN  /\ b.content = d.content \o t /\ b.reasoning = d.reasoning /\ b.buf = d.buf
               /\ b.think = d.think /\ b.calls = d.calls
<1> DEFINE b == PushText(d, t)
<1>1. Frame(d, b, { "out", "rDone", "next", "tIdx", "content" }) /\ b.content = d.content \o t
  BY PushTextTold
<1> HIDE DEF b
<1>2. /\ b.content = d.content \o t /\ b.reasoning = d.reasoning /\ b.buf = d.buf
      /\ b.think = d.think /\ b.calls = d.calls
  BY <1>1 DEF Frame, Fields
<1> QED BY <1>2 DEF b

\* Setting the state of the detection.
LEMMA SetReads ==
    ASSUME NEW d, Good(d), Told(d), NEW s \in Text, NEW st \in Thinking
    PROVE  LET b == [ d EXCEPT !.buf = s, !.think = st ]
           IN  /\ Good(b) /\ Told(b)
               /\ b.reasoning = d.reasoning /\ b.content = d.content /\ b.buf = s
               /\ b.think = st /\ b.calls = d.calls /\ b.rDone = d.rDone
<1> DEFINE b == [ d EXCEPT !.buf = s, !.think = st ]
<1>1. Good(b)
  BY SetThinkGood
<1>2. Frame(d, b, { "buf", "think" }) /\ b.buf = s /\ b.think = st
  BY DEF Frame, Fields, Good, AssemblerType
<1> HIDE DEF b
<1>3. Told(b)
  BY <1>1, <1>2, SetSays DEF Says, Tells
<1>4. /\ b.reasoning = d.reasoning /\ b.content = d.content /\ b.calls = d.calls
      /\ b.rDone = d.rDone
  BY <1>2 DEF Frame, Fields
<1> QED BY <1>1, <1>2, <1>3, <1>4 DEF b

\* Leaving a block gathers what was inside it and what follows it.
LEMMA LeaveThinkReads ==
    ASSUME NEW d, Good(d), Told(d), d.content = << >>, ~d.rDone, NEW r \in Text, NEW t \in Text
    PROVE  LET b == LeaveThink(d, r, t)
           IN  /\ b.reasoning = d.reasoning \o r /\ b.content = t
               /\ b.think = "Done" /\ b.calls = d.calls
<1> DEFINE x == PushReasoning(d, r)
           y == [ x EXCEPT !.buf = << >>, !.think = "Done" ]
           z == PushText(y, t)
<1>1. Good(x) /\ Told(x)
  BY PushReasoningGood, PushReasoningSays DEF Tells
<1>2. x.reasoning = d.reasoning \o r /\ x.content = d.content /\ x.calls = d.calls
  BY PushReasoningReads
<1>3. z = LeaveThink(d, r, t)
  BY DEF LeaveThink
<1> HIDE DEF x
<1>4. /\ Good(y) /\ Told(y) /\ y.reasoning = x.reasoning /\ y.content = x.content
      /\ y.think = "Done" /\ y.calls = x.calls
  <2>1. << >> \in Text /\ "Done" \in Thinking
    BY EmptyText DEF Thinking
  <2>2. LET w == [ x EXCEPT !.buf = << >>, !.think = "Done" ]
        IN  /\ Good(w) /\ Told(w)
            /\ w.reasoning = x.reasoning /\ w.content = x.content /\ w.buf = << >>
            /\ w.think = "Done" /\ w.calls = x.calls /\ w.rDone = x.rDone
    BY <1>1, <2>1, SetReads, ZenonT(60)
  <2> QED BY <2>2
<1> HIDE DEF y
<1>5. /\ z.content = y.content \o t /\ z.reasoning = y.reasoning
      /\ z.think = y.think /\ z.calls = y.calls
  BY <1>4, PushTextReads
<1> HIDE DEF z
<1>6. << >> \o t = t
  BY TextConcat
<1> QED BY <1>2, <1>3, <1>4, <1>5, <1>6

\* Text inside a block is gathered as reasoning up to the closing tag, if there is one.
LEMMA InThinkReads ==
    ASSUME NEW d, Good(d), Told(d), d.content = << >>, ~d.rDone, NEW t \in Text
    PROVE  LET b == AcceptInThink(d, t)
               s == d.buf \o t
           IN  /\ s \in Text /\ b.calls = d.calls
               /\ HasClose(s) => /\ b.reasoning = d.reasoning \o BeforeClose(s)
                                 /\ b.content = AfterClose(s) /\ b.think = "Done"
               /\ ~HasClose(s) => /\ b.reasoning = d.reasoning \o Settled(s)
                                  /\ b.content = << >> /\ b.buf = Held(s) /\ b.think = d.think
<1> DEFINE b == AcceptInThink(d, t)
           s == d.buf \o t
<1>1. s \in Text /\ d.buf \in Text
  BY TextConcat DEF Good, AssemblerType
<1>2. b = IF HasClose(s) THEN LeaveThink(d, BeforeClose(s), AfterClose(s))
          ELSE [ PushReasoning(d, Settled(s)) EXCEPT !.buf = Held(s) ]
  BY DEF AcceptInThink
<1> HIDE DEF b, s
<1>3. CASE HasClose(s)
  <2>1. BeforeClose(s) \in Text /\ AfterClose(s) \in Text
    BY <1>1, <1>3, CloseTypes
  <2>2. LET c == LeaveThink(d, BeforeClose(s), AfterClose(s))
        IN  /\ c.reasoning = d.reasoning \o BeforeClose(s) /\ c.content = AfterClose(s)
            /\ c.think = "Done" /\ c.calls = d.calls
    BY <2>1, LeaveThinkReads
  <2>3. /\ b.reasoning = d.reasoning \o BeforeClose(s) /\ b.content = AfterClose(s)
        /\ b.think = "Done" /\ b.calls = d.calls
    BY <1>2, <1>3, <2>2
  <2> QED BY <1>1, <1>3, <2>3 DEF b, s
<1>4. CASE ~HasClose(s)
  <2> DEFINE x == PushReasoning(d, Settled(s))
  <2>1. Settled(s) \in Text
    BY <1>1, HeldTypes
  <2>2. /\ x.reasoning = d.reasoning \o Settled(s) /\ x.content = d.content
        /\ x.think = d.think /\ x.calls = d.calls
    BY <2>1, PushReasoningReads
  <2>3. DOMAIN x = Fields
    BY <2>1, PushReasoningGood DEF Good, AssemblerType
  <2>4. b = [ x EXCEPT !.buf = Held(s) ]
    BY <1>2, <1>4
  <2> HIDE DEF x
  <2>5. /\ b.reasoning = d.reasoning \o Settled(s) /\ b.content = << >> /\ b.buf = Held(s)
        /\ b.think = d.think /\ b.calls = d.calls
    BY <2>2, <2>3, <2>4 DEF Fields
  <2> QED BY <1>1, <1>4, <2>5 DEF b, s
<1> QED BY <1>3, <1>4

\* A block that is not closed yet goes on, or is closed and split.
LEMMA WithinGoesOn ==
    ASSUME NEW d, Good(d), Told(d), d.think = "InThink", ~d.rDone, NEW s \in Text, Within(d, s),
           NEW t \in Text, t # << >>, ~BrokenClose(s \o t), NEW tools
    PROVE  Detected(AcceptInThink(d, t), s \o t, tools)
<1> DEFINE q == AfterOpen(s)
           w == s \o t
           x == d.buf \o t
           b == AcceptInThink(d, t)
<1>1. /\ HasOpen(s) /\ q \in Text /\ ~HasClose(q) /\ d.content = << >>
      /\ Thinks(q, d.reasoning, d.buf) /\ d.reasoning \in Text /\ d.buf \in Text
  BY OpenParts DEF Within, Good, AssemblerType
<1>2. HasOpen(w) /\ AfterOpen(w) = q \o t /\ w \in Text
  BY <1>1, OpenGoesOn, TextConcat
<1>3. ~BrokenClose(q \o t)
  <2>1. PICK u \in Text : IsBlank(u) /\ w = u \o (OpenTag \o AfterOpen(w))
    BY <1>2, OpenParts
  <2>2. q \o t \in Text /\ OpenTag \o (q \o t) \in Text
    BY <1>1, Tags, TextConcat
  <2>3. BrokenClose(q \o t) => BrokenClose(OpenTag \o (q \o t))
    BY <2>2, Tags, BrokenConcat
  <2>4. BrokenClose(OpenTag \o (q \o t)) => BrokenClose(u \o (OpenTag \o (q \o t)))
    BY <2>2, BrokenConcat
  <2> QED BY <1>2, <2>1, <2>3, <2>4
<1> HIDE DEF q
<1>4. /\ HasClose(x) <=> HasClose(q \o t)
      /\ HasClose(x) => /\ Words(d.reasoning \o BeforeClose(x)) = Words(BeforeClose(q \o t))
                        /\ AfterClose(x) = AfterClose(q \o t)
      /\ ~HasClose(x) => Thinks(q \o t, d.reasoning \o Settled(x), Held(x))
  BY <1>1, <1>3, ThinksNext
<1>5. /\ HasClose(x) => /\ b.reasoning = d.reasoning \o BeforeClose(x)
                        /\ b.content = AfterClose(x) /\ b.think = "Done"
      /\ ~HasClose(x) => /\ b.reasoning = d.reasoning \o Settled(x)
                         /\ b.content = << >> /\ b.buf = Held(x) /\ b.think = d.think
  BY <1>1, InThinkReads
<1> HIDE DEF x, b, w
<1>6. CASE HasClose(x)
  <2>1. HasBlock(w)
    BY <1>2, <1>4, <1>6 DEF HasBlock
  <2>2. Words(BlockReasoning(w)) = Words(BeforeClose(q \o t))
    <3>1. BeforeClose(q \o t) \in Text
      <4>1. q \o t \in Text
        BY <1>1, TextConcat
      <4> QED BY <1>4, <1>6, <4>1, CloseParts
    <3> QED BY <1>2, <3>1, WordsTrimmed DEF BlockReasoning
  <2>3. Split(b, w)
    BY <1>2, <1>4, <1>5, <1>6, <2>1, <2>2 DEF Split, BlockAnswer
  <2>4. Detected(b, w, tools)
    BY <1>5, <1>6, <2>1, <2>3 DEF Detected, Parted
  <2> QED BY <2>4 DEF b, w
<1>7. CASE ~HasClose(x)
  <2>1. Within(b, w)
    BY <1>2, <1>4, <1>5, <1>7 DEF Within
  <2>2. Detected(b, w, tools)
    BY <1>5, <1>7, <2>1 DEF Detected
  <2> QED BY <2>2 DEF b, w
<1> QED BY <1>6, <1>7

\* The buffer was emptied and the detection goes to st.
Cleared(d, st) ==
    LET b == [ d EXCEPT !.buf = << >>, !.think = st ]
    IN  /\ Good(b) /\ Told(b)
        /\ b.reasoning = d.reasoning /\ b.content = d.content /\ b.buf = << >>
        /\ b.think = st /\ b.calls = d.calls /\ b.rDone = d.rDone

\* Doing so changes nothing else.
LEMMA ClearedBuffer ==
    ASSUME NEW d, Good(d), Told(d), NEW st \in Thinking
    PROVE  Cleared(d, st)
<1> DEFINE b == [ d EXCEPT !.buf = << >>, !.think = st ]
<1>1. << >> \in Text
  BY EmptyText
<1>2. Good(b)
  BY <1>1, SetThinkGood
<1>3. Frame(d, b, { "buf", "think" }) /\ b.buf = << >> /\ b.think = st
  BY DEF Frame, Fields, Good, AssemblerType
<1> HIDE DEF b
<1>4. Told(b)
  BY <1>2, <1>3, SetSays DEF Says, Tells
<1>5. /\ b.reasoning = d.reasoning /\ b.content = d.content /\ b.calls = d.calls
      /\ b.rDone = d.rDone
  BY <1>3 DEF Frame, Fields
<1> QED BY <1>2, <1>3, <1>4, <1>5 DEF Cleared, b

\* Content that may begin with a block is split, taken for a block, held back or sent.
LEMMA DetectsBlock ==
    ASSUME NEW d, Good(d), Told(d), d.think = "Detecting", ~d.rDone, d.content = << >>,
           d.reasoning = << >>, NEW s \in Text, NEW tools
    PROVE  Detected(DetectThink(d, s), s, tools)
<1> DEFINE b == DetectThink(d, s)
<1>0. "Done" \in Thinking /\ "InThink" \in Thinking
  BY DEF Thinking
<1>1. \A x \in Text : << >> \o x = x
  BY TextConcat
<1>2. Cleared(d, "InThink") /\ Cleared(d, "Done")
  BY <1>0, ClearedBuffer
<1>3. CASE HasBlock(s)
  <2>1. BlockReasoning(s) \in Text /\ BlockAnswer(s) \in Text
    BY <1>3, BlockTypes
  <2>2. LET c == LeaveThink(d, BlockReasoning(s), BlockAnswer(s))
        IN  /\ c.reasoning = d.reasoning \o BlockReasoning(s) /\ c.content = BlockAnswer(s)
            /\ c.think = "Done" /\ c.calls = d.calls
    BY <2>1, LeaveThinkReads, ZenonT(60)
  <2>3. b = LeaveThink(d, BlockReasoning(s), BlockAnswer(s))
    BY <1>3 DEF DetectThink
  <2> HIDE DEF b
  <2>4. b.reasoning = BlockReasoning(s) /\ b.content = BlockAnswer(s) /\ b.think = "Done"
    BY <1>1, <2>1, <2>2, <2>3
  <2>5. Detected(b, s, tools)
    BY <1>3, <2>4 DEF Detected, Parted, Split
  <2> QED BY <2>5 DEF b
<1>4. CASE ~HasBlock(s) /\ HasOpen(s)
  <2> DEFINE c == [ d EXCEPT !.buf = << >>, !.think = "InThink" ]
             q == AfterOpen(s)
             x == Trim(q)
  <2>1. q \in Text /\ ~HasClose(q) /\ x \in Text
    BY <1>4, OpenParts, TrimParts DEF HasBlock
  <2>2. ~HasClose(x) /\ Thinks(q, Settled(x), Held(x)) /\ Settled(x) \in Text
    BY <2>1, ThinksFirst, HeldParts
  <2>3. b = AcceptInThink(c, x)
    BY <1>4 DEF DetectThink
  <2>5. /\ Good(c) /\ Told(c) /\ c.reasoning = << >> /\ c.content = << >> /\ c.buf = << >>
        /\ c.think = "InThink" /\ ~c.rDone
    BY <1>2 DEF Cleared
  <2> HIDE DEF c, x, b
  <2>6. LET y == c.buf \o x
        IN  ~HasClose(y) => /\ AcceptInThink(c, x).reasoning = c.reasoning \o Settled(y)
                            /\ AcceptInThink(c, x).content = << >>
                            /\ AcceptInThink(c, x).buf = Held(y)
                            /\ AcceptInThink(c, x).think = c.think
    BY <2>1, <2>5, InThinkReads
  <2>7. c.buf \o x = x /\ c.reasoning \o Settled(x) = Settled(x)
    BY <1>1, <2>1, <2>2, <2>5
  <2>8. /\ b.reasoning = Settled(x) /\ b.content = << >> /\ b.buf = Held(x)
        /\ b.think = "InThink"
    BY <2>2, <2>3, <2>5, <2>6, <2>7
  <2>9. Within(b, s)
    BY <1>4, <2>1, <2>2, <2>8 DEF Within
  <2>10. Detected(b, s, tools)
    BY <2>8, <2>9 DEF Detected
  <2> QED BY <2>10 DEF b
<1>5. CASE ~HasBlock(s) /\ ~HasOpen(s) /\ MayBecomeOpen(s)
  <2>1. b = [ d EXCEPT !.buf = s ]
    BY <1>5 DEF DetectThink
  <2> HIDE DEF b
  <2>2. b.think = "Detecting" /\ b.buf = s /\ b.content = << >> /\ b.reasoning = << >>
    BY <2>1 DEF Good, AssemblerType, Fields
  <2>3. Detected(b, s, tools)
    BY <1>5, <2>2 DEF Detected
  <2> QED BY <2>3 DEF b
<1>6. CASE ~HasBlock(s) /\ ~HasOpen(s) /\ ~MayBecomeOpen(s)
  <2> DEFINE c == [ d EXCEPT !.buf = << >>, !.think = "Done" ]
  <2>1. b = PushText(c, s)
    BY <1>6 DEF DetectThink
  <2>3. Good(c) /\ Told(c) /\ c.reasoning = << >> /\ c.content = << >> /\ c.think = "Done"
    BY <1>2 DEF Cleared
  <2> HIDE DEF c, b
  <2>4. LET y == PushText(c, s)
        IN  y.content = c.content \o s /\ y.reasoning = c.reasoning /\ y.think = c.think
    BY <2>3, PushTextReads
  <2>5. b.content = s /\ b.reasoning = << >> /\ b.think = "Done"
    BY <1>1, <2>1, <2>3, <2>4
  <2>6. Detected(b, s, tools)
    BY <1>6, <2>5 DEF Detected, Parted
  <2> QED BY <2>6 DEF b
<1> QED BY <1>3, <1>4, <1>5, <1>6

\* When the detection is over, the content goes on as the message does.
LEMMA PartedGoesOn ==
    ASSUME NEW d, Good(d), Told(d), d.think = "Done", NEW s \in Text, Detected(d, s, FALSE),
           NEW t \in Text, NEW tools
    PROVE  Detected(PushText(d, t), s \o t, tools)
<1> DEFINE b == PushText(d, t)
           w == s \o t
<1>1. /\ b.content = d.content \o t /\ b.reasoning = d.reasoning /\ b.think = "Done"
      /\ d.content \in Text /\ d.reasoning \in Text
  BY PushTextReads DEF Good, AssemblerType
<1> HIDE DEF b
<1>2. Parted(d, s) /\ (HasBlock(s) \/ (~MayBecomeOpen(s) /\ ~HasOpen(s)))
  BY DEF Detected
<1>3. CASE HasBlock(s)
  <2> DEFINE q == AfterOpen(s)
  <2>1. HasOpen(s) /\ HasClose(q)
    BY <1>3 DEF HasBlock
  <2>2. Split(d, s)
    BY <1>2, <1>3, <2>1 DEF Parted
  <2>3. q \in Text /\ HasOpen(w) /\ AfterOpen(w) = q \o t
    BY <2>1, OpenParts, OpenGoesOn
  <2> HIDE DEF q
  <2>4. /\ HasClose(q \o t) /\ BeforeClose(q \o t) = BeforeClose(q)
        /\ Words(AfterClose(q \o t)) = Words(AfterClose(q)) \o Words(t)
    BY <2>1, <2>3, CloseGoesOn
  <2> HIDE DEF w
  <2>5. HasBlock(w) /\ BlockReasoning(w) = BlockReasoning(s)
        /\ Words(BlockAnswer(w)) = Words(BlockAnswer(s)) \o Words(t)
    BY <2>3, <2>4 DEF HasBlock, BlockReasoning, BlockAnswer, q
  <2>6. Words(b.content) = Words(d.content) \o Words(t)
    BY <1>1, WordsConcat
  <2>7. Split(b, w)
    BY <1>1, <2>2, <2>5, <2>6 DEF Split
  <2> QED BY <1>1, <2>5, <2>7 DEF Detected, Parted, b, w
<1>4. CASE ~HasBlock(s) /\ ~MayBecomeOpen(s) /\ ~HasOpen(s)
  <2>1. d.content = s /\ d.reasoning = << >>
    BY <1>2, <1>4 DEF Parted, Split
  <2>2. ~HasOpen(w) /\ ~MayBecomeOpen(w)
    BY <1>4, NoOpenGoesOn
  <2>3. b.content = w /\ b.reasoning = << >>
    BY <1>1, <2>1
  <2> HIDE DEF w
  <2> QED BY <1>1, <2>2, <2>3 DEF Detected, Parted, b, w
<1> QED BY <1>2, <1>3, <1>4

\* Content that was heard is gathered.
LEMMA ContentGathered ==
    ASSUME NEW b, Good(b), Told(b), Thought(b), NEW h, Gathered(b, h), h.tools = FALSE,
           h.content \in Text, NEW t \in Text, t # << >>,
           NEW g, g.content = h.content \o t, g.reasoning = h.reasoning, g.args = h.args,
           g.tools = h.tools
    PROVE  Gathered(AcceptContent(b, t), g)
<1> DEFINE c == AcceptContent(b, t)
<1>1. SameArgs(c, g)
  <2>1. c.calls = b.calls
    BY AcceptContentSays DEF Says
  <2> HIDE DEF c
  <2>2. SameArgs(c, g)
    BY <2>1 DEF Gathered, SameArgs
  <2> QED BY <2>2
<1>2. CASE h.reasoning # << >>
  <2>1. b.think = "Done" /\ b.reasoning = h.reasoning /\ b.content = h.content
    BY <1>2 DEF Gathered
  <2>2. c = PushText(b, t)
    BY <2>1 DEF AcceptContent
  <2> HIDE DEF c
  <2>3. /\ PushText(b, t).content = b.content \o t
        /\ PushText(b, t).reasoning = b.reasoning /\ PushText(b, t).think = b.think
    BY PushTextReads
  <2>4. c.content = g.content /\ c.reasoning = g.reasoning /\ c.think = "Done"
    BY <2>1, <2>2, <2>3
  <2> QED BY <1>1, <1>2, <2>4 DEF Gathered, c
<1>3. CASE h.reasoning = << >>
  <2>1. ASSUME ~BrokenClose(g.content) PROVE Detected(c, g.content, g.tools)
    <3>1. Detected(b, h.content, FALSE) /\ g.content \in Text
      <4>1. ~BrokenClose(h.content)
        BY <2>1, BrokenConcat
      <4> QED BY <1>3, <4>1, TextConcat DEF Gathered
    <3>2. CASE b.think = "Detecting"
      <4>1. b.content = << >> /\ b.reasoning = << >> /\ b.buf = h.content /\ ~b.rDone
        BY <3>1, <3>2 DEF Detected, Thought
      <4>2. c = DetectThink(b, g.content)
        BY <3>2, <4>1 DEF AcceptContent
      <4> HIDE DEF c
      <4> QED BY <3>1, <3>2, <4>1, <4>2, DetectsBlock
    <3>3. CASE b.think = "InThink"
      <4>1. Within(b, h.content) /\ ~b.rDone
        BY <3>1, <3>3 DEF Detected, Thought
      <4>2. c = AcceptInThink(b, t)
        BY <3>3 DEF AcceptContent
      <4>3. Detected(AcceptInThink(b, t), h.content \o t, g.tools)
        BY <2>1, <3>3, <4>1, WithinGoesOn
      <4> QED BY <4>2, <4>3
    <3>4. CASE b.think = "Done"
      <4>1. c = PushText(b, t)
        BY <3>4 DEF AcceptContent
      <4>2. Detected(PushText(b, t), h.content \o t, g.tools)
        BY <3>1, <3>4, PartedGoesOn
      <4> QED BY <4>1, <4>2
    <3>5. b.think \in Thinking
      BY DEF Good, AssemblerType
    <3> QED BY <3>2, <3>3, <3>4, <3>5 DEF Thinking
  <2> QED BY <1>1, <1>3, <2>1 DEF Gathered
<1> QED BY <1>2, <1>3

\* Reasoning that was heard is gathered too; an orderly upstream sends it first.
LEMMA ReasoningGathered ==
    ASSUME NEW b, Good(b), Told(b), Thought(b), NEW h, Gathered(b, h), Arranged(b, h),
           h.tools = FALSE, h.content = << >>, h.reasoning \in Text, NEW t \in Text, t # << >>,
           NEW g, g.content = h.content, g.reasoning = h.reasoning \o t, g.args = h.args,
           g.tools = h.tools
    PROVE  Gathered(AcceptReasoning(b, t), g)
<1> DEFINE x == DisableThinkDetection(b)
           c == AcceptReasoning(b, t)
<1>1. b.content = << >> /\ b.buf = << >> /\ b.think # "InThink" /\ b.think \in Thinking
  BY DEF Arranged, Good, AssemblerType
<1>2. b.reasoning = h.reasoning
  <2>1. CASE h.reasoning # << >>
    BY <2>1 DEF Gathered
  <2>2. CASE h.reasoning = << >>
    <3>1. << >> \in Text /\ IsBlank(<< >>) /\ Len(<< >>) = 0
      BY EmptyText, Tags, WordsOne, TextAt
    <3>2. ~BrokenClose(<< >>)
      BY <3>1 DEF BrokenClose
    <3>3. Detected(b, << >>, FALSE)
      BY <2>2, <3>2 DEF Gathered
    <3>4. ~HasOpen(<< >>)
      BY <3>1, Tags DEF HasOpen, StartsWith, TrimStart
    <3>5. b.think = "Detecting" \/ b.think = "Done"
      BY <1>1 DEF Thinking
    <3>6. b.reasoning = << >>
      BY <3>3, <3>4, <3>5 DEF Detected, Parted, Split, HasBlock
    <3> QED BY <2>2, <3>6
  <2> QED BY <2>1, <2>2
<1>3. x = [ b EXCEPT !.think = "Done" ]
  <2>1. FlushThinkBuffer(b) = b
    BY <1>1 DEF FlushThinkBuffer, Thinking
  <2> QED BY <2>1 DEF DisableThinkDetection
<1>4. Good(x)
  <2>1. "Done" \in Thinking
    BY DEF Thinking
  <2> QED BY <1>3, <2>1, SetStateGood
<1>5. x.reasoning = b.reasoning /\ x.content = b.content /\ x.think = "Done" /\ x.calls = b.calls
  BY <1>3 DEF Good, AssemblerType, Fields
<1>6. c = PushReasoning(x, t)
  BY DEF AcceptReasoning
<1> HIDE DEF x, c
<1>7. LET y == PushReasoning(x, t)
      IN  /\ y.reasoning = x.reasoning \o t /\ y.content = x.content
          /\ y.think = x.think /\ y.calls = x.calls
  BY <1>4, PushReasoningReads
<1>8. /\ c.reasoning = g.reasoning /\ c.content = g.content /\ c.think = "Done"
      /\ c.calls = b.calls
  BY <1>1, <1>2, <1>5, <1>6, <1>7
<1>9. g.reasoning # << >>
  BY LongerConcat
<1>10. Gathered(c, g)
  BY <1>8, <1>9 DEF Gathered, SameArgs
<1> QED BY <1>10 DEF c

\* What was held back is part of the message, or of a block that is not closed.
LEMMA FlushDetected ==
    ASSUME NEW b, Good(b), Told(b), Thought(b), NEW s \in Text, NEW tools, Detected(b, s, tools)
    PROVE  LET c == FlushThinkBuffer(b) IN Parted(c, s) /\ Detected(c, s, TRUE)
<1> DEFINE c == FlushThinkBuffer(b)
           x == [ b EXCEPT !.buf = << >>, !.think = "Done" ]
<1>1. b.think \in Thinking /\ b.buf \in Text /\ b.reasoning \in Text
  BY DEF Good, AssemblerType
<1>2. \A z \in Text : << >> \o z = z
  BY TextConcat
<1>3. /\ Good(x) /\ Told(x) /\ x.content = b.content /\ x.reasoning = b.reasoning
      /\ x.think = "Done"
  <2>1. "Done" \in Thinking
    BY DEF Thinking
  <2>2. Cleared(b, "Done")
    BY <2>1, ClearedBuffer
  <2> QED BY <2>2 DEF Cleared
<1>4. CASE b.think = "Detecting" /\ b.buf = << >>
  <2>1. c = b
    BY <1>4, FlushSays
  <2> HIDE DEF c, x
  <2>2. Parted(c, s) /\ Detected(c, s, TRUE)
    BY <1>4, <2>1 DEF Detected, Parted
  <2> QED BY <2>2 DEF c
<1>5. CASE b.think = "Detecting" /\ b.buf # << >>
  <2>1. /\ b.content = << >> /\ b.reasoning = << >> /\ b.buf = s
        /\ MayBecomeOpen(s) /\ ~HasOpen(s)
    BY <1>5 DEF Detected
  <2>2. c = PushText(x, s)
    BY <1>5, <2>1 DEF FlushThinkBuffer
  <2> HIDE DEF c, x
  <2>3. LET y == PushText(x, s)
        IN  y.content = x.content \o s /\ y.reasoning = x.reasoning /\ y.think = x.think
    BY <1>3, PushTextReads
  <2>4. c.content = s /\ c.reasoning = << >> /\ c.think = "Done"
    BY <1>2, <1>3, <2>1, <2>2, <2>3
  <2>5. Parted(c, s)
    BY <2>1, <2>4 DEF Parted
  <2> QED BY <2>4, <2>5 DEF Detected, c
<1>6. CASE b.think = "InThink"
  <2>1. Within(b, s)
    BY <1>6 DEF Detected
  <2>2. c = PushReasoning(x, b.buf)
    BY <1>6 DEF FlushThinkBuffer
  <2> HIDE DEF c, x
  <2>3. LET y == PushReasoning(x, b.buf)
        IN  /\ y.reasoning = x.reasoning \o b.buf /\ y.content = x.content
            /\ y.think = x.think
    BY <1>1, <1>3, PushReasoningReads
  <2>4. HasOpen(s) /\ ~HasBlock(s) /\ b.content = << >> /\ AfterOpen(s) \in Text
    BY <2>1, OpenParts DEF Within, HasBlock
  <2>5. Words(b.reasoning \o b.buf) = Words(AfterOpen(s))
    BY <1>1, <2>1, <2>4, ThinksAll DEF Within
  <2>6. Parted(c, s) /\ c.think = "Done"
    BY <1>3, <2>2, <2>3, <2>4, <2>5 DEF Parted
  <2> QED BY <2>6 DEF Detected, c
<1>7. CASE b.think = "Done"
  <2>1. c = b
    BY <1>7, FlushSays
  <2> HIDE DEF c, x
  <2>2. Parted(c, s) /\ Detected(c, s, TRUE)
    BY <1>7, <2>1 DEF Detected
  <2> QED BY <2>2 DEF c
<1> QED BY <1>1, <1>4, <1>5, <1>6, <1>7 DEF Thinking

\* So it is when a "tool_calls" array comes.
LEMMA BeginToolsGathered ==
    ASSUME NEW b, Good(b), Told(b), Thought(b), NEW h, Gathered(b, h), h.content \in Text,
           NEW g, g.content = h.content, g.reasoning = h.reasoning, g.args = h.args,
           g.tools = TRUE
    PROVE  LET c == BeginTools(b)
           IN  Rendered(c, h) /\ Gathered(c, g) /\ c.calls = b.calls
<1> DEFINE x == FlushThinkBuffer(b)
           c == BeginTools(b)
<1>1. Good(x) /\ x.calls = b.calls /\ (b.think = "Done" => x = b)
  BY FlushSays DEF Says, Tells
<1>2. h.reasoning = << >> /\ ~BrokenClose(h.content) =>
        Parted(x, h.content) /\ Detected(x, h.content, TRUE)
  BY FlushDetected DEF Gathered
<1>3. h.reasoning # << >> =>
        x.think = "Done" /\ x.reasoning = h.reasoning /\ x.content = h.content
  BY <1>1 DEF Gathered
<1>4. c = FinishReasoning(x)
  BY DEF BeginTools
<1> HIDE DEF x, c
<1>5. /\ c.think = x.think /\ c.reasoning = x.reasoning /\ c.content = x.content
      /\ c.buf = x.buf /\ c.calls = x.calls
  <2>1. Frame(x, c, { "out", "rDone" })
    BY <1>1, <1>4, FinishReasoningGood
  <2> QED BY <2>1 DEF Frame, Fields
<1>6. h.reasoning = << >> /\ ~BrokenClose(h.content) =>
        Parted(c, h.content) /\ Detected(c, h.content, TRUE)
  BY <1>2, <1>5 DEF Parted, Split, Detected, Within
<1>7. SameArgs(c, h) /\ SameArgs(c, g)
  BY <1>1, <1>5 DEF Gathered, SameArgs
<1>8. Rendered(c, h) /\ Gathered(c, g)
  BY <1>3, <1>5, <1>6, <1>7 DEF Rendered, Gathered
<1> QED BY <1>1, <1>5, <1>8 DEF c

\* What was heard, but for arguments that were added to those of call k.
MoreArgs(g, k, args) ==
    \A j \in Indices : g.args[j] = IF j = k THEN heard.args[k] \o args ELSE heard.args[j]

\* So the arguments heard are gathered.
LEMMA ToolGathered ==
    ASSUME Good(a), Told(a), Thought(a), Gathered(a, heard), heard.content \in Text,
           NEW k \in Indices, NEW id \in Ids, NEW name \in Names \cup { Absent },
           NEW args \in Text,
           NEW g, g.content = heard.content, g.reasoning = heard.reasoning, g.tools = TRUE,
           MoreArgs(g, k, args)
    PROVE  Gathered(AcceptToolDelta(BeginTools(a), k, id, name, args), g)
<1> DEFINE c == BeginTools(a)
           d == AcceptToolDelta(c, k, id, name, args)
           m == [ content |-> heard.content, reasoning |-> heard.reasoning, args |-> heard.args,
                  tools |-> TRUE ]
<1>1. Good(c) /\ Told(c)
  BY BeginToolsTells DEF Tells
<1>2. Gathered(c, m)
  BY BeginToolsGathered
<1>3. m.content = g.content /\ m.reasoning = g.reasoning /\ m.args = heard.args /\ m.tools = TRUE
  OBVIOUS
<1> HIDE DEF c, m
<1>4. \A j \in Indices : d.calls[j].args = IF j = k THEN c.calls[k].args \o args
                                           ELSE c.calls[j].args
  BY <1>1, DeltaAddsArgs
<1>5. Frame(c, d, { "out", "rDone", "next", "tIdx", "tDone", "calls" })
  BY <1>1, AcceptToolDeltaTold
<1> HIDE DEF d
<1>6. SameArgs(d, g)
  BY <1>2, <1>3, <1>4 DEF Gathered, SameArgs, MoreArgs
<1>7. /\ d.content = c.content /\ d.reasoning = c.reasoning /\ d.buf = c.buf
      /\ d.think = c.think
  BY <1>5 DEF Frame, Fields
<1>8. Gathered(d, g)
  BY <1>2, <1>3, <1>6, <1>7 DEF Gathered, Detected, Parted, Split, Within
<1> QED BY <1>8 DEF c, d

\* A finish reason changes nothing of what is gathered.
LEMMA FinishGathered ==
    ASSUME NEW b, NEW h, Gathered(b, h), NEW c, Frame(b, c, { "finish" }),
           NEW g, g.content = h.content, g.reasoning = h.reasoning, g.args = h.args,
           g.tools = h.tools
    PROVE  Gathered(c, g)
<1>1. /\ c.content = b.content /\ c.reasoning = b.reasoning /\ c.buf = b.buf
      /\ c.think = b.think /\ c.calls = b.calls
  BY DEF Frame, Fields
<1> QED BY <1>1 DEF Gathered, SameArgs, Detected, Parted, Split, Within

\* What was gathered is what the closed items show.
LEMMA ClosedItemsRendered ==
    ASSUME NEW b, Good(b), Told(b), Thought(b), NEW h, Gathered(b, h), h.content \in Text
    PROVE  Rendered(CloseItems(b), h)
<1> DEFINE c == BeginTools(b)
           x == IF HasToolOutput(c) THEN c ELSE FinishText(c)
           d == CloseItems(b)
           m == [ content |-> h.content, reasoning |-> h.reasoning, args |-> h.args,
                  tools |-> TRUE ]
<1>1. Good(c) /\ Told(c)
  BY BeginToolsTells DEF Tells
<1>2. Rendered(c, h)
  <2>1. /\ m.content = h.content /\ m.reasoning = h.reasoning /\ m.args = h.args
        /\ m.tools = TRUE
    OBVIOUS
  <2> HIDE DEF m
  <2> QED BY <2>1, BeginToolsGathered
<1>3. d = FinishTools(x)
  BY DEF CloseItems
<1> HIDE DEF c, d
<1>4. Good(x) /\ x.content = c.content /\ x.reasoning = c.reasoning /\ x.calls = c.calls
  <2>1. CASE HasToolOutput(c)
    <3>1. x = c
      BY <2>1
    <3> HIDE DEF x
    <3> QED BY <1>1, <3>1
  <2>2. CASE ~HasToolOutput(c)
    <3>1. x = FinishText(c)
      BY <2>2
    <3> HIDE DEF x
    <3>2. Good(x) /\ Frame(c, x, { "out", "rDone", "next", "tIdx", "tDone" })
      BY <1>1, <3>1, FinishTextGood, FinishTextTold
    <3> QED BY <3>2 DEF Frame, Fields
  <2> QED BY <2>1, <2>2
<1> HIDE DEF x
<1>5. /\ Frame(x, d, { "next", "calls", "out" })
      /\ d.calls = [ k \in Indices |->
                       IF k \in Named(x) THEN Announced(x.calls[k], FinalId(x, k), Place(x, k))
                       ELSE x.calls[k] ]
  BY <1>3, <1>4, FinishToolsFields
<1>6. d.content = c.content /\ d.reasoning = c.reasoning
  BY <1>4, <1>5 DEF Frame, Fields
<1>7. SameArgs(d, h)
  BY <1>2, <1>4, <1>5 DEF Rendered, SameArgs, Announced
<1>8. Rendered(d, h)
  BY <1>2, <1>6, <1>7 DEF Rendered, Parted, Split
<1> QED BY <1>8 DEF d

\* So is what is stored, when finalize succeeds.
LEMMA FinalizeRendered ==
    ASSUME NEW b, Good(b), Told(b), Thought(b), b.terminal = Absent, b.stored = {},
           NEW h, Gathered(b, h), h.content \in Text, NEW ok \in BOOLEAN
    PROVE  LET c == Finalize(b, ok)
           IN  Rendered(c, h) /\ (c.terminal \in Success => c.stored = { Record(c) })
<1> DEFINE d == CloseItems(b)
           c == Finalize(b, ok)
<1>1. Rendered(d, h)
  BY ClosedItemsRendered
<1>2. Frame(d, c, Verdict)
  BY FinalizeFields
<1>3. d.terminal = Absent /\ d.stored = {} /\ DOMAIN d = Fields
  BY CloseItemsDelivered DEF Keeps, Outcomes, Delivered, AssemblerType
<1>4. c = IF ok THEN [ d EXCEPT !.stored = @ \cup { Record(d) }, !.response = Output(d),
                                !.terminal = Status(d.finish) ]
          ELSE Fail(d)
  BY DEF Finalize
<1> HIDE DEF c, d
<1>5. c.content = d.content /\ c.reasoning = d.reasoning /\ c.calls = d.calls
  BY <1>2 DEF Frame, Fields, Verdict
<1>6. Rendered(c, h)
  BY <1>1, <1>5 DEF Rendered, SameArgs, Parted, Split
<1>7. c.terminal \in Success => ok
  BY <1>3, <1>4 DEF Fail, Fields, Success
<1>8. ok => c.stored = { Record(d) }
  BY <1>3, <1>4 DEF Fields
<1>9. Record(c) = Record(d)
  BY <1>5 DEF Record, Named
<1> QED BY <1>6, <1>7, <1>8, <1>9 DEF c

------------------------------------------------------------------------------
(***************************************************************************)
(* The invariant of an orderly stream: what was heard is gathered, and a   *)
(* stream that ends in success shows it and stores it.                     *)
(***************************************************************************)
GInv ==
    /\ phase # "ended" => Gathered(a, heard)
    /\ phase = "ended" /\ a.terminal \in Success =>
         Rendered(a, heard) /\ a.stored = { Record(a) }

\* Nothing was heard of a new stream.
LEMMA InitGathered == Init => GInv
<1> SUFFICES ASSUME Init PROVE GInv
  OBVIOUS
<1>1. PICK buffered \in ToolsDeclared : a = NewAssembler(buffered)
  BY DEF Init
<1>2. /\ a.think = "Detecting" /\ a.content = << >> /\ a.reasoning = << >> /\ a.buf = << >>
      /\ \A k \in Indices : a.calls[k].args = << >>
  BY <1>1 DEF NewAssembler, NewCall
<1>3. /\ heard.content = << >> /\ heard.reasoning = << >>
      /\ heard.args = [ k \in Indices |-> << >> ] /\ phase # "ended"
  BY DEF Init
<1>4. << >> \in Text /\ IsBlank(<< >>) /\ Len(<< >>) = 0
  BY EmptyText, Tags, WordsOne, TextAt
<1>5. MayBecomeOpen(<< >>) /\ ~HasOpen(<< >>)
  BY <1>4, Tags DEF HasOpen, StartsWith, TrimStart, MayBecomeOpen
<1>6. SameArgs(a, heard)
  BY <1>2, <1>3 DEF SameArgs
<1> QED BY <1>2, <1>3, <1>5, <1>6 DEF GInv, Gathered, Detected

\* A part that was heard and is gathered.
LEMMA HearGathered ==
    ASSUME NEW b, NEW part, Hear(b, part), part \in Heard, Gathered(b, part)
    PROVE  GInv'
<1>1. phase' = "reading" /\ a' = b /\ heard' = [ part EXCEPT !.parts = @ + 1 ]
  BY DEF Hear
<1>2. /\ heard'.content = part.content /\ heard'.tools = part.tools
      /\ heard'.args = part.args /\ heard'.reasoning = part.reasoning
  BY <1>1 DEF Heard
<1>3. Gathered(a', heard')
  BY <1>1, <1>2 DEF Gathered, SameArgs
<1> QED BY <1>1, <1>3 DEF GInv

\* A stream that fails promises nothing.
LEMMA FailGathered ==
    ASSUME IInv, JInv, phase # "ended", NEW how, End(Fail(a), how)
    PROVE  GInv'
<1>1. Good(a) /\ Told(a) /\ a.terminal = Absent
  BY DEF IInv, JInv
<1>2. a' = Fail(a) /\ phase' = "ended"
  BY DEF End
<1>3. a'.terminal = "failed"
  BY <1>1, <1>2, FailConcludes
<1> QED BY <1>2, <1>3 DEF GInv, Success

\* A stream that is finalized, perhaps after it was marked as truncated.
LEMMA FinalizeGathered ==
    ASSUME IInv, JInv, GInv, phase # "ended", NEW how, NEW ok \in BOOLEAN, NEW b,
           b = a \/ (b = MarkTruncated(a) /\ a.finish = Absent), End(Finalize(b, ok), how)
    PROVE  GInv'
<1> DEFINE c == Finalize(b, ok)
<1>1. /\ Good(a) /\ Told(a) /\ Thought(a) /\ a.terminal = Absent /\ a.stored = {}
      /\ Gathered(a, heard) /\ heard \in Heard /\ heard.content \in Text
  BY DEF IInv, JInv, GInv, TypedTask, Heard
<1>2. Frame(a, b, { "finish" })
  BY <1>1 DEF MarkTruncated, Good, AssemblerType, Frame, Fields
<1>3. Good(b)
  BY <1>1, FinishGood DEF Finishes
<1>4. Told(b) /\ Thought(b) /\ b.terminal = Absent /\ b.stored = {}
  BY <1>1, <1>2, FinishTold DEF Frame, Fields
<1>5. Gathered(b, heard)
  BY <1>1, <1>2, FinishGathered
<1>6. Rendered(c, heard) /\ (c.terminal \in Success => c.stored = { Record(c) })
  BY <1>1, <1>3, <1>4, <1>5, FinalizeRendered
<1>7. a' = c /\ phase' = "ended" /\ heard' = [ heard EXCEPT !.end = how ]
  BY DEF End
<1> HIDE DEF c
<1>8. /\ heard'.content = heard.content /\ heard'.reasoning = heard.reasoning
      /\ heard'.args = heard.args
  BY <1>1, <1>7 DEF Heard
<1>9. Rendered(a', heard')
  BY <1>6, <1>7, <1>8 DEF Rendered, SameArgs
<1> QED BY <1>6, <1>7, <1>9 DEF GInv

\* Every step of an orderly stream gathers what it hears.
LEMMA StepGathered == Orderly /\ IInv /\ JInv /\ OInv /\ GInv /\ [Next]_vars => GInv'
<1> SUFFICES ASSUME Orderly, IInv, JInv, OInv, GInv, [Next]_vars PROVE GInv'
  OBVIOUS
<1>0. heard \in Heard
  BY DEF IInv, TypedTask
<1>1. CASE Admitted \/ Connected
  <2>1. phase # "ended" /\ phase' # "ended" /\ UNCHANGED << a, heard >>
    BY <1>1 DEF Admitted, Connected
  <2> QED BY <2>1 DEF GInv
<1>2. CASE Refused
  BY <1>2, FailGathered DEF Refused
<1>3. CASE ConnectFailed
  BY <1>3, FailGathered DEF ConnectFailed
<1>4. CASE ReasoningPart
  <2>1. PICK t \in ReasoningParts :
          /\ heard.content = << >> /\ ~heard.tools
          /\ Hear(AcceptReasoning(a, t), [ heard EXCEPT !.reasoning = @ \o t ])
    BY <1>4 DEF ReasoningPart
  <2>2. /\ t \in Text /\ t # << >> /\ Good(a) /\ Told(a) /\ Thought(a)
        /\ Arranged(a, heard) /\ Gathered(a, heard)
    BY <2>1, PartsAssumption DEF IInv, JInv, OInv, GInv, Hear
  <2>3. heard.reasoning \in Text /\ heard.reasoning \o t \in Text /\ heard.tools = FALSE
    BY <1>0, <2>1, <2>2, TextConcat DEF Heard
  <2> DEFINE b == AcceptReasoning(a, t)
             part == [ heard EXCEPT !.reasoning = @ \o t ]
  <2>4. /\ part \in Heard /\ part.content = heard.content /\ part.tools = heard.tools
        /\ part.reasoning = heard.reasoning \o t /\ part.args = heard.args
    BY <1>0, <2>3 DEF Heard
  <2>5. Hear(b, part)
    BY <2>1
  <2> HIDE DEF part
  <2>6. Gathered(b, part)
    BY <2>1, <2>2, <2>3, <2>4, ReasoningGathered
  <2> HIDE DEF b
  <2> QED BY <2>4, <2>5, <2>6, HearGathered
<1>5. CASE ContentPart
  <2>1. PICK t \in ContentParts :
          /\ ~heard.tools
          /\ Hear(AcceptContent(a, t), [ heard EXCEPT !.content = @ \o t ])
    BY <1>5 DEF ContentPart
  <2>2. /\ t \in Text /\ t # << >> /\ Good(a) /\ Told(a) /\ Thought(a) /\ Gathered(a, heard)
    BY <2>1, PartsAssumption DEF IInv, JInv, GInv, Hear
  <2>3. heard.content \in Text /\ heard.content \o t \in Text /\ heard.tools = FALSE
    BY <1>0, <2>1, <2>2, TextConcat DEF Heard
  <2> DEFINE b == AcceptContent(a, t)
             part == [ heard EXCEPT !.content = @ \o t ]
  <2>4. /\ part \in Heard /\ part.content = heard.content \o t /\ part.tools = heard.tools
        /\ part.reasoning = heard.reasoning /\ part.args = heard.args
    BY <1>0, <2>3 DEF Heard
  <2>5. Hear(b, part)
    BY <2>1
  <2> HIDE DEF part
  <2>6. Gathered(b, part)
    BY <2>2, <2>3, <2>4, ContentGathered
  <2> HIDE DEF b
  <2> QED BY <2>4, <2>5, <2>6, HearGathered
<1>6. CASE ToolPart
  <2>1. PICK k \in Indices, id \in ToolIds, name \in Names \cup { Absent }, args \in ArgumentParts :
          Hear(AcceptToolDelta(BeginTools(a), k, id, name, args),
               [ heard EXCEPT !.tools = TRUE, !.args = HeardArguments(k, args) ])
    BY <1>6 DEF ToolPart
  <2>2. /\ args \in Text /\ Good(a) /\ Told(a) /\ Thought(a) /\ id \in Ids
        /\ Gathered(a, heard)
    BY <2>1, PartsAssumption DEF IInv, JInv, GInv, Hear, ToolIds, Ids
  <2> DEFINE b == AcceptToolDelta(BeginTools(a), k, id, name, args)
             now == HeardArguments(k, args)
             part == [ heard EXCEPT !.tools = TRUE, !.args = now ]
  <2>3. /\ heard.args \in [ Indices -> Text ] /\ heard.args[k] \o args \in Text
        /\ heard.content \in Text
    BY <1>0, <2>2, TextConcat DEF Heard
  <2>4. /\ now = [ heard.args EXCEPT ![k] = heard.args[k] \o args ]
        /\ now \in [ Indices -> Text ]
    BY <2>3 DEF HeardArguments
  <2>5. Hear(b, part)
    BY <2>1
  <2> HIDE DEF now
  <2>6. /\ part \in Heard /\ part.content = heard.content /\ part.tools = TRUE
        /\ part.reasoning = heard.reasoning /\ part.args = now
    BY <1>0, <2>4 DEF Heard
  <2> HIDE DEF part
  <2>7. MoreArgs(part, k, args)
    BY <2>3, <2>4, <2>6 DEF MoreArgs
  <2>8. /\ Good(a) /\ Told(a) /\ Thought(a) /\ Gathered(a, heard)
        /\ heard.content \in Text
    BY <2>2, <2>3
  <2>9. /\ part.content = heard.content /\ part.reasoning = heard.reasoning
        /\ part.tools = TRUE
    BY <2>6
  <2>10. id \in Ids /\ args \in Text
    BY <2>2
  <2>11. Gathered(AcceptToolDelta(BeginTools(a), k, id, name, args), part)
    BY <2>7, <2>8, <2>9, <2>10, ToolGathered
  <2>12. Gathered(b, part)
    BY <2>11
  <2> HIDE DEF b
  <2> QED BY <2>5, <2>6, <2>12, HearGathered
<1>7. CASE EmptyToolPart
  BY <1>7 DEF EmptyToolPart
<1>8. CASE FinishPart
  <2>1. PICK reason \in FinishReasons :
          Hear(AcceptFinish(a, reason), [ heard EXCEPT !.finish = TRUE ])
    BY <1>8 DEF FinishPart
  <2>2. /\ phase # "ended" /\ phase' # "ended" /\ a' = AcceptFinish(a, reason)
        /\ heard'.content = heard.content /\ heard'.tools = heard.tools
        /\ heard'.reasoning = heard.reasoning /\ heard'.args = heard.args
    BY <1>0, <2>1 DEF Hear, Heard
  <2>3. Good(a) /\ Gathered(a, heard)
    BY <2>2 DEF IInv, GInv
  <2>4. Frame(a, a', { "finish" })
    BY <2>2, <2>3 DEF AcceptFinish, Good, AssemblerType, Frame, Fields
  <2>5. Gathered(a', heard')
    BY <2>2, <2>3, <2>4, FinishGathered
  <2> QED BY <2>2, <2>5 DEF GInv
<1>9. CASE UpstreamError
  BY <1>9, FailGathered DEF UpstreamError
<1>10. CASE ReadFailed
  BY <1>10, FailGathered DEF ReadFailed
<1>11. CASE UpstreamDone
  BY <1>11, FinalizeGathered DEF UpstreamDone
<1>12. CASE EndOfBody
  <2>1. PICK ok \in BOOLEAN :
          /\ phase = "reading"
          /\ \/ End(Finalize(a, ok), "eof")
             \/ a.finish = Absent /\ End(Finalize(MarkTruncated(a), ok), "eof")
             \/ End(Fail(a), "eof")
    BY <1>12 DEF EndOfBody
  <2>2. CASE End(Finalize(a, ok), "eof")
    BY <2>1, <2>2, FinalizeGathered
  <2>3. CASE a.finish = Absent /\ End(Finalize(MarkTruncated(a), ok), "eof")
    BY <2>1, <2>3, FinalizeGathered
  <2>4. CASE End(Fail(a), "eof")
    BY <2>1, <2>4, FailGathered
  <2> QED BY <2>1, <2>2, <2>3, <2>4
<1>13. CASE Ended \/ UNCHANGED vars
  <2>1. UNCHANGED << phase, a, done, heard >>
    BY <1>13 DEF Ended, vars
  <2> QED BY <2>1 DEF GInv
<1> QED BY <1>1, <1>2, <1>3, <1>4, <1>5, <1>6, <1>7, <1>8, <1>9, <1>10, <1>11, <1>12,
           <1>13 DEF Next

\* What was heard of an orderly stream is gathered.
THEOREM Gathering == Orderly /\ Spec => []GInv
<1>1. Orderly /\ IInv /\ JInv /\ OInv /\ GInv /\ [Next]_vars => GInv'
  BY StepGathered
<1>2. CASE Orderly
  <2>1. IInv /\ JInv /\ OInv /\ GInv /\ [Next]_vars => GInv'
    BY <1>1, <1>2
  <2>2. Spec => []OInv
    BY <1>2, Arrangement
  <2>3. Spec => []GInv
    BY <2>1, <2>2, InitGathered, Invariant, Telling, PTL DEF Spec
  <2> QED BY <2>3
<1>3. CASE ~Orderly
  BY <1>3
<1> QED BY <1>2, <1>3

------------------------------------------------------------------------------
(***************************************************************************)
(* The response to a stream and the response to the same answer in one     *)
(* piece.  An output array O lists the reasoning R, the message C unless   *)
(* there are calls, and the calls of D with their arguments f.             *)
(***************************************************************************)
Lists(O, R, C, D, f) ==
    /\ \A r \in O : \/ R # << >> /\ r.kind = "reasoning" /\ r.key = NoKey /\ r.text = R
                    \/ /\ C # << >> /\ D = {}
                       /\ r.kind = "message" /\ r.key = NoKey /\ r.text = C
                    \/ \E k \in D : r.kind = "call" /\ r.key = k /\ r.text = f[k]
    /\ R # << >> => \E r \in O : r.kind = "reasoning" /\ r.key = NoKey /\ r.text = R
    /\ C # << >> /\ D = {} => \E r \in O : r.kind = "message" /\ r.key = NoKey /\ r.text = C
    /\ \A k \in D : \E r \in O : r.kind = "call" /\ r.key = k /\ r.text = f[k]

Shapes(v, w, D, f) ==
    (IF v = << >> THEN {} ELSE { << "reasoning", NoKey, v >> })
    \cup (IF w = << >> \/ D # {} THEN {} ELSE { << "message", NoKey, w >> })
    \cup { << "call", k, Words(f[k]) >> : k \in D }

\* The shape of a list depends on its words only.
LEMMA ListsShape ==
    ASSUME NEW O, NEW R, NEW C, NEW D, NEW f, Lists(O, R, C, D, f)
    PROVE  Shape(O) = Shapes(Words(R), Words(C), D, f)
<1> DEFINE S == Shapes(Words(R), Words(C), D, f)
<1>0. Words(<< >>) = << >>
  BY Tags, WordsOne
<1>1. ASSUME NEW s \in Shape(O) PROVE s \in S
  <2>1. PICK r \in O : s = << r.kind, r.key, Words(r.text) >>
    BY <1>1 DEF Shape
  <2>2. s[1] = r.kind /\ s[3] = Words(r.text) /\ (s[1] = "call" \/ s[3] # << >>)
    BY <1>1, <2>1 DEF Shape
  <2>3. CASE r.kind = "reasoning" /\ r.key = NoKey /\ r.text = R
    BY <2>1, <2>2, <2>3 DEF Shapes
  <2>4. CASE D = {} /\ r.kind = "message" /\ r.key = NoKey /\ r.text = C
    BY <2>1, <2>2, <2>4 DEF Shapes
  <2>5. CASE \E k \in D : r.kind = "call" /\ r.key = k /\ r.text = f[k]
    BY <2>1, <2>5 DEF Shapes
  <2> QED BY <2>3, <2>4, <2>5 DEF Lists
<1>2. ASSUME NEW s \in S PROVE s \in Shape(O)
  <2>1. CASE Words(R) # << >> /\ s = << "reasoning", NoKey, Words(R) >>
    <3>1. PICK r \in O : r.kind = "reasoning" /\ r.key = NoKey /\ r.text = R
      BY <1>0, <2>1 DEF Lists
    <3>2. s = << r.kind, r.key, Words(r.text) >> /\ s[3] # << >>
      BY <2>1, <3>1
    <3> QED BY <3>2 DEF Shape
  <2>2. CASE Words(C) # << >> /\ D = {} /\ s = << "message", NoKey, Words(C) >>
    <3>1. PICK r \in O : r.kind = "message" /\ r.key = NoKey /\ r.text = C
      BY <1>0, <2>2 DEF Lists
    <3>2. s = << r.kind, r.key, Words(r.text) >> /\ s[3] # << >>
      BY <2>2, <3>1
    <3> QED BY <3>2 DEF Shape
  <2>3. CASE \E k \in D : s = << "call", k, Words(f[k]) >>
    <3>1. PICK k \in D : s = << "call", k, Words(f[k]) >>
      BY <2>3
    <3>2. PICK r \in O : r.kind = "call" /\ r.key = k /\ r.text = f[k]
      BY DEF Lists
    <3>3. s = << r.kind, r.key, Words(r.text) >> /\ s[1] = "call"
      BY <3>1, <3>2
    <3> QED BY <3>3 DEF Shape
  <2> QED BY <1>2, <2>1, <2>2, <2>3 DEF Shapes
<1> QED BY <1>1, <1>2

\* The list with "{}" for some empty arguments.
LEMMA FilledLists ==
    ASSUME NEW O, NEW R, NEW C, NEW D, NEW f, Lists(O, R, C, D, f), O \subseteq ResponseItem,
           NEW bare, NoKey \notin bare, \A k \in D \cap bare : f[k] = << >>,
           NEW g, \A k \in D : g[k] = IF k \in bare THEN << "{", "}" >> ELSE f[k]
    PROVE  Lists(Filled(O, bare), R, C, D, g)
<1> DEFINE F(r) == IF r.key \in bare /\ r.text = << >> THEN [ r EXCEPT !.text = << "{", "}" >> ]
                   ELSE r
<1>1. \A r \in O : F(r) \in Filled(O, bare)
  BY DEF Filled
<1>2. ASSUME NEW s \in Filled(O, bare) PROVE \E r \in O : s = F(r)
  BY DEF Filled
<1>3. ASSUME NEW r \in O
      PROVE  /\ F(r).kind = r.kind /\ F(r).key = r.key
             /\ r.key \notin bare => F(r) = r
             /\ r.key \in bare /\ r.text = << >> => F(r).text = << "{", "}" >>
  <2>1. r \in ResponseItem
    OBVIOUS
  <2> QED BY <2>1 DEF ResponseItem
<1> HIDE DEF F
<1>5. ASSUME NEW r \in O, NEW k \in D, r.kind = "call", r.key = k, r.text = f[k]
      PROVE  F(r).kind = "call" /\ F(r).key = k /\ F(r).text = g[k]
  BY <1>3, <1>5
<1>6. ASSUME NEW r \in O, r.key = NoKey PROVE F(r) = r /\ r \in Filled(O, bare)
  BY <1>1, <1>3, <1>6
<1>7. ASSUME NEW s \in Filled(O, bare)
      PROVE  \/ R # << >> /\ s.kind = "reasoning" /\ s.key = NoKey /\ s.text = R
             \/ /\ C # << >> /\ D = {}
                /\ s.kind = "message" /\ s.key = NoKey /\ s.text = C
             \/ \E k \in D : s.kind = "call" /\ s.key = k /\ s.text = g[k]
  <2>1. PICK r \in O : s = F(r)
    BY <1>2
  <2>2. CASE r.key = NoKey /\ r.kind # "call"
    <3>1. s = r
      BY <1>6, <2>1, <2>2
    <3> QED BY <2>2, <3>1 DEF Lists
  <2>3. CASE \E k \in D : r.kind = "call" /\ r.key = k /\ r.text = f[k]
    BY <1>5, <2>1, <2>3
  <2> QED BY <2>2, <2>3 DEF Lists
<1>8. R # << >> => \E s \in Filled(O, bare) : s.kind = "reasoning" /\ s.key = NoKey /\ s.text = R
  BY <1>6 DEF Lists
<1>9. C # << >> /\ D = {} =>
        \E s \in Filled(O, bare) : s.kind = "message" /\ s.key = NoKey /\ s.text = C
  BY <1>6 DEF Lists
<1>10. ASSUME NEW k \in D
       PROVE  \E s \in Filled(O, bare) : s.kind = "call" /\ s.key = k /\ s.text = g[k]
  <2>1. PICK r \in O : r.kind = "call" /\ r.key = k /\ r.text = f[k]
    BY DEF Lists
  <2> QED BY <1>1, <1>5, <2>1
<1> QED BY <1>7, <1>8, <1>9, <1>10 DEF Lists

\* Of empty arguments the stream makes nothing.
LEMMA EmptyFinalArguments ==
    ASSUME NEW call, call.args = << >>
    PROVE  FinalArguments(call) = << >>
<1>1. Ink(<< >>) = {}
  BY DEF Ink
<1>2. ~Parses(<< >>) /\ IsBlank(<< >>)
  BY <1>1 DEF Parses, IsBlank
<1> QED BY <1>2 DEF FinalArguments, Canonical, CustomInput

\* What finalize puts into the response.
LEMMA OutputLists ==
    ASSUME NEW b, Proper(b)
    PROVE  Lists(Output(b), b.reasoning, b.content, Named(b),
                 [ k \in Named(b) |-> FinalArguments(b.calls[k]) ])
<1> DEFINE p == IF b.reasoning # << >> THEN 1 ELSE 0
           R(r) == /\ b.reasoning # << >>
                   /\ r = [ kind |-> "reasoning", key |-> NoKey, text |-> b.reasoning, pos |-> 0 ]
           C(r) == /\ b.content # << >> /\ ~HasToolOutput(b)
                   /\ r = [ kind |-> "message", key |-> NoKey, text |-> b.content, pos |-> p ]
           T(r, k) == r = [ kind |-> "call", key |-> k, text |-> FinalArguments(b.calls[k]),
                            pos |-> CallsFrom(b) + Rank(Named(b), k) ]
<1>1. \A r : r \in Output(b) <=> R(r) \/ C(r) \/ \E k \in Named(b) : T(r, k)
  BY OutputItems
<1>2. HasToolOutput(b) <=> Named(b) # {}
  BY ProperToolOutput
<1> HIDE DEF p
<1>3. \A r : R(r) => r.kind = "reasoning" /\ r.key = NoKey /\ r.text = b.reasoning
  OBVIOUS
<1>4. \A r : C(r) => r.kind = "message" /\ r.key = NoKey /\ r.text = b.content
  OBVIOUS
<1>5. \A r, k : T(r, k) => r.kind = "call" /\ r.key = k /\ r.text = FinalArguments(b.calls[k])
  OBVIOUS
<1>6. \A r \in Output(b) :
        \/ b.reasoning # << >> /\ r.kind = "reasoning" /\ r.key = NoKey /\ r.text = b.reasoning
        \/ /\ b.content # << >> /\ Named(b) = {}
           /\ r.kind = "message" /\ r.key = NoKey /\ r.text = b.content
        \/ \E k \in Named(b) :
             r.kind = "call" /\ r.key = k /\ r.text = FinalArguments(b.calls[k])
  BY <1>1, <1>2, <1>3, <1>4, <1>5
<1>7. b.reasoning # << >> =>
        \E r \in Output(b) : r.kind = "reasoning" /\ r.key = NoKey /\ r.text = b.reasoning
  BY <1>1, <1>3
<1>8. b.content # << >> /\ Named(b) = {} =>
        \E r \in Output(b) : r.kind = "message" /\ r.key = NoKey /\ r.text = b.content
  BY <1>1, <1>2, <1>4
<1>9. \A k \in Named(b) : \E r \in Output(b) :
        r.kind = "call" /\ r.key = k /\ r.text = FinalArguments(b.calls[k])
  BY <1>1, <1>5
<1> HIDE DEF R, C, T
<1> QED BY <1>6, <1>7, <1>8, <1>9 DEF Lists

\* What build_response puts into it.
LEMMA BuiltLists ==
    ASSUME NEW m
    PROVE  Lists(BuiltOutput(m), BuiltReasoning(m), BuiltContent(m), BuiltCalls(m),
                 [ k \in BuiltCalls(m) |-> BuiltArguments(m, k) ])
<1> DEFINE p == IF BuiltReasoning(m) # << >> THEN 1 ELSE 0
           R(r) == /\ BuiltReasoning(m) # << >>
                   /\ r = [ kind |-> "reasoning", key |-> NoKey, text |-> BuiltReasoning(m),
                            pos |-> 0 ]
           C(r) == /\ BuiltContent(m) # << >> /\ BuiltCalls(m) = {}
                   /\ r = [ kind |-> "message", key |-> NoKey, text |-> BuiltContent(m),
                            pos |-> p ]
           T(r, k) == r = [ kind |-> "call", key |-> k, text |-> BuiltArguments(m, k),
                            pos |-> p + Rank(BuiltCalls(m), k) ]
<1>1. \A r : r \in BuiltOutput(m) <=> R(r) \/ C(r) \/ \E k \in BuiltCalls(m) : T(r, k)
  BY DEF BuiltOutput
<1> HIDE DEF p
<1>3. \A r : R(r) => r.kind = "reasoning" /\ r.key = NoKey /\ r.text = BuiltReasoning(m)
  OBVIOUS
<1>4. \A r : C(r) => r.kind = "message" /\ r.key = NoKey /\ r.text = BuiltContent(m)
  OBVIOUS
<1>5. \A r, k : T(r, k) => r.kind = "call" /\ r.key = k /\ r.text = BuiltArguments(m, k)
  OBVIOUS
<1>6. \A r \in BuiltOutput(m) :
        \/ /\ BuiltReasoning(m) # << >>
           /\ r.kind = "reasoning" /\ r.key = NoKey /\ r.text = BuiltReasoning(m)
        \/ /\ BuiltContent(m) # << >> /\ BuiltCalls(m) = {}
           /\ r.kind = "message" /\ r.key = NoKey /\ r.text = BuiltContent(m)
        \/ \E k \in BuiltCalls(m) :
             r.kind = "call" /\ r.key = k /\ r.text = BuiltArguments(m, k)
  BY <1>1, <1>3, <1>4, <1>5
<1>7. BuiltReasoning(m) # << >> => \E r \in BuiltOutput(m) :
        r.kind = "reasoning" /\ r.key = NoKey /\ r.text = BuiltReasoning(m)
  BY <1>1, <1>3
<1>8. BuiltContent(m) # << >> /\ BuiltCalls(m) = {} => \E r \in BuiltOutput(m) :
        r.kind = "message" /\ r.key = NoKey /\ r.text = BuiltContent(m)
  BY <1>1, <1>4
<1>9. \A k \in BuiltCalls(m) : \E r \in BuiltOutput(m) :
        r.kind = "call" /\ r.key = k /\ r.text = BuiltArguments(m, k)
  BY <1>1, <1>5
<1> HIDE DEF R, C, T
<1> QED BY <1>6, <1>7, <1>8, <1>9 DEF Lists

\* The calls of an answer that ended in success are those of the answer in one piece.
LEMMA SameCalls ==
    ASSUME IInv, JInv, GInv, a.terminal \in Success, NEW bare
    PROVE  /\ \A k \in Indices : Whole(bare).calls[k] = a.calls[k]
           /\ BuiltCalls(Whole(bare)) = Named(a)
           /\ \A k \in Named(a) : BuiltId(Whole(bare), k) = a.calls[k].id
<1>1. phase = "ended"
  BY DEF IInv, Success, Absent
<1>2. SameArgs(a, heard) /\ Delivered(a)
  BY <1>1 DEF GInv, Rendered, JInv, Concluded, Success
<1>3. a.calls \in [ Indices -> Call ]
  BY <1>2 DEF Delivered, AssemblerType
<1>4. Whole(bare).calls = [ k \in Indices |-> [ a.calls[k] EXCEPT !.args = heard.args[k] ] ]
  BY DEF Whole
<1>5. ASSUME NEW k \in Indices PROVE Whole(bare).calls[k] = a.calls[k]
  <2>1. a.calls[k] \in Call /\ a.calls[k].args = heard.args[k]
    BY <1>2, <1>3 DEF SameArgs
  <2>2. [ a.calls[k] EXCEPT !.args = heard.args[k] ] = a.calls[k]
    BY <2>1 DEF Call
  <2> QED BY <1>4, <2>2
<1>6. BuiltCalls(Whole(bare)) = Named(a)
  BY <1>5 DEF BuiltCalls, Named
<1>7. ASSUME NEW k \in Named(a) PROVE BuiltId(Whole(bare), k) = a.calls[k].id
  <2>1. k \in Indices /\ a.calls[k].added
    BY <1>2 DEF Delivered, AllAnnounced, Named
  <2>2. a.calls[k].id # NoId
    BY <1>2, <2>1 DEF Delivered, CallsKnown
  <2> QED BY <1>5, <2>1, <2>2 DEF BuiltId
<1> QED BY <1>5, <1>6, <1>7

\* Its texts have the words of the answer in one piece.
LEMMA SameWords ==
    ASSUME IInv, JInv, GInv, a.terminal \in Success, ~BrokenClose(heard.content), ~NeverClosed,
           NEW bare
    PROVE  /\ Words(a.reasoning) = Words(BuiltReasoning(Whole(bare)))
           /\ Words(a.content) = Words(BuiltContent(Whole(bare)))
           /\ Splits(Whole(bare)) \/ (/\ a.reasoning = BuiltReasoning(Whole(bare))
                                /\ a.content = BuiltContent(Whole(bare)))
<1>1. phase = "ended"
  BY DEF IInv, Success, Absent
<1>2. Rendered(a, heard)
  BY <1>1 DEF GInv
<1>3. Whole(bare).content = heard.content /\ Whole(bare).reasoning = heard.reasoning
  BY DEF Whole
<1>4. CASE heard.reasoning # << >>
  BY <1>2, <1>3, <1>4 DEF Rendered, Splits, BuiltReasoning, BuiltContent
<1>5. CASE heard.reasoning = << >>
  <2>1. Parted(a, heard.content)
    BY <1>2, <1>5 DEF Rendered
  <2>2. CASE ~HasOpen(heard.content) /\ a.content = heard.content /\ a.reasoning = << >>
    <3>1. ~Splits(Whole(bare))
      BY <1>3, <2>2 DEF Splits, HasBlock
    <3> QED BY <1>3, <1>5, <2>2, <3>1 DEF BuiltReasoning, BuiltContent
  <2>3. CASE Split(a, heard.content)
    <3>1. Splits(Whole(bare))
      BY <1>3, <1>5, <2>3 DEF Splits, Split
    <3> QED BY <1>3, <2>3, <3>1 DEF BuiltReasoning, BuiltContent, Split
  <2> QED BY <1>5, <2>1, <2>2, <2>3 DEF Parted, NeverClosed
<1> QED BY <1>4, <1>5

(***************************************************************************)
(* An orderly upstream that cuts its answer into deltas gets the response, *)
(* and the stored record, that build_response makes of the same answer in  *)
(* one piece, but that build_response gives a call without arguments "{}". *)
(***************************************************************************)
THEOREM StreamEqualsWhole == Orderly /\ Spec => []StreamedAsWhole
<1>1. IInv /\ JInv /\ OInv /\ GInv => StreamedAsWhole
  <2>1. SUFFICES ASSUME IInv, JInv, OInv, GInv, a.terminal \in Success,
                        ~BrokenClose(heard.content)
                 PROVE  StreamedAsWhole
    BY DEF StreamedAsWhole
  <2>2. /\ Rendered(a, heard) /\ a.stored = { Record(a) } /\ a.response = Output(a)
        /\ Proper(a) /\ AssemblerType(a)
    <3>1. phase = "ended"
      BY <2>1 DEF IInv, Success, Absent
    <3> QED BY <2>1, <3>1 DEF GInv, JInv, OInv, Concluded, Delivered, Success
  <2>3. CASE NeverClosed
    <3>1. Parted(a, heard.content)
      BY <2>1, <2>2, <2>3 DEF Rendered, NeverClosed
    <3>2. Words(a.reasoning) = Words(AfterOpen(heard.content)) /\ a.content = << >>
      BY <2>3, <3>1 DEF NeverClosed, Parted, Split
    <3> QED BY <2>3, <3>2 DEF StreamedAsWhole
  <2>4. CASE ~NeverClosed
    <3>0. SUFFICES ASSUME NEW bare \in SUBSET Argumentless
                   PROVE
                     /\ Shape(Filled(a.response, bare)) = Shape(BuiltOutput(Whole(bare)))
                     /\ \A r \in a.stored : LET b == BuiltRecord(Whole(bare)) IN
                          /\ r.pending = b.pending
                          /\ Words(r.reasoning) = Words(b.reasoning)
                          /\ Words(r.content) = Words(b.content)
                          /\ Splits(Whole(bare)) \/ r = b
      BY <2>4 DEF StreamedAsWhole
    <3> DEFINE m == Whole(bare)
               D == Named(a)
               e == [ k \in D |-> FinalArguments(a.calls[k]) ]
               f == [ k \in D |-> IF k \in bare THEN << "{", "}" >> ELSE e[k] ]
               s == Record(a)
               b == BuiltRecord(m)
    <3>9. m.bare = bare
      BY DEF Whole
    <3>1. /\ \A k \in Indices : m.calls[k] = a.calls[k]
          /\ BuiltCalls(m) = D
          /\ \A k \in D : BuiltId(m, k) = a.calls[k].id
      BY <2>1, SameCalls
    <3>2. /\ Words(a.reasoning) = Words(BuiltReasoning(m))
          /\ Words(a.content) = Words(BuiltContent(m))
          /\ Splits(m) \/ (a.reasoning = BuiltReasoning(m) /\ a.content = BuiltContent(m))
      BY <2>1, <2>4, SameWords
    <3> HIDE DEF m
    <3>3. Shape(Filled(a.response, bare)) = Shape(BuiltOutput(m))
      <4>0. NoKey \notin bare /\ \A k \in D \cap bare : e[k] = << >>
        <5>1. \A k \in bare : k \in Indices /\ a.calls[k].args = << >>
          BY <2>2 DEF Argumentless, BuiltCalls, Rendered, SameArgs
        <5>2. NoKey \notin Indices
          BY IndicesAssumption DEF NoKey
        <5> QED BY <5>1, <5>2, EmptyFinalArguments
      <4>5. Lists(Output(a), a.reasoning, a.content, D, e)
        BY <2>2, OutputLists
      <4>6. Output(a) \subseteq ResponseItem
        BY <2>2, OutputType
      <4>7. Lists(Filled(Output(a), bare), a.reasoning, a.content, D, f)
        <5> HIDE DEF e, D
        <5>1. \A k \in D : f[k] = IF k \in bare THEN << "{", "}" >> ELSE e[k]
          OBVIOUS
        <5> HIDE DEF f
        <5> QED BY <4>0, <4>5, <4>6, <5>1, FilledLists
      <4>1. Shape(Filled(Output(a), bare))
            = Shapes(Words(a.reasoning), Words(a.content), D, f)
        <5> HIDE DEF e, D, f
        <5> QED BY <4>7, ListsShape
      <4>2. [ k \in BuiltCalls(m) |-> BuiltArguments(m, k) ] = f
        BY <3>1, <3>9 DEF Named, BuiltArguments
      <4>3. Lists(BuiltOutput(m), BuiltReasoning(m), BuiltContent(m), D, f)
        <5>1. Lists(BuiltOutput(m), BuiltReasoning(m), BuiltContent(m), BuiltCalls(m),
                    [ k \in BuiltCalls(m) |-> BuiltArguments(m, k) ])
          BY BuiltLists
        <5> HIDE DEF f
        <5> QED BY <3>1, <4>2, <5>1
      <4> HIDE DEF D, f
      <4>4. Shape(BuiltOutput(m))
            = Shapes(Words(BuiltReasoning(m)), Words(BuiltContent(m)), D, f)
        BY <4>3, ListsShape
      <4> QED BY <2>2, <3>2, <4>1, <4>4
    <3>4. /\ s.pending = [ k \in D |-> a.calls[k].id ]
          /\ s.reasoning = a.reasoning /\ s.content = a.content
          /\ s = [ content |-> a.content, reasoning |-> a.reasoning,
                   pending |-> [ k \in D |-> a.calls[k].id ] ]
      BY DEF Record
    <3>5. /\ b.pending = [ k \in D |-> BuiltId(m, k) ]
          /\ b.reasoning = BuiltReasoning(m) /\ b.content = BuiltContent(m)
          /\ b = [ content |-> BuiltContent(m), reasoning |-> BuiltReasoning(m),
                   pending |-> [ k \in D |-> BuiltId(m, k) ] ]
      BY <3>1 DEF BuiltRecord
    <3>6. [ k \in D |-> BuiltId(m, k) ] = [ k \in D |-> a.calls[k].id ]
      BY <3>1
    <3> HIDE DEF s, b
    <3>7. /\ s.pending = b.pending
          /\ Words(s.reasoning) = Words(b.reasoning) /\ Words(s.content) = Words(b.content)
          /\ Splits(m) \/ s = b
      BY <3>2, <3>4, <3>5, <3>6
    <3>8. a.stored = { s }
      BY <2>2 DEF s
    <3> QED BY <3>3, <3>7, <3>8 DEF m, b
  <2> QED BY <2>3, <2>4
<1> QED BY <1>1, Invariant, Telling, Arrangement, Gathering, PTL
==============================================================================
