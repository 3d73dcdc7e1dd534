--------------------------- MODULE ResponsesStream ---------------------------
(***************************************************************************)
(* What the client of a streamed /v1/responses request may rely on,        *)
(* whatever the upstream sends and however the adapter is built inside.    *)
(*                                                                         *)
(* The client sees numbered output items.  Items are announced in the      *)
(* order of their numbers and never withdrawn; the text of an open item    *)
(* only grows; a closed item does not change.  The stream ends with one    *)
(* terminal event and the [DONE] line, and if the terminal event is a      *)
(* success no item was left open.                                          *)
(***************************************************************************)
EXTENDS Integers, Sequences, SequencesExt

VARIABLES
    items,      \* the items announced so far, by output_index from 0
    terminal,   \* the terminal event, or "absent"
    done        \* the [DONE] line was sent

vars == << items, terminal, done >>

Init == /\ items = << >>
        /\ terminal = "absent"
        /\ done = FALSE

\* item w can follow item v in the client's view
Follows(v, w) ==
    /\ w.kind = v.kind
    /\ w.key = v.key
    /\ IsPrefix(v.text, w.text)
    /\ v.closed => w = v

\* Items keep their numbers, new ones get the next numbers, none is taken back.
Grow ==
    /\ \A i \in DOMAIN items' : i \in Nat /\ 0..i \subseteq DOMAIN items'
    /\ DOMAIN items \subseteq DOMAIN items'
    /\ \A i \in DOMAIN items : Follows(items[i], items'[i])

\* One chunk of the stream: items are extended, announced and closed.
Progress ==
    /\ terminal = "absent"
    /\ Grow
    /\ UNCHANGED << terminal, done >>

\* The last chunk, with the terminal event and the [DONE] line.
Finish ==
    /\ terminal = "absent"
    /\ Grow
    /\ terminal' \in { "completed", "incomplete", "failed" }
    /\ terminal' # "failed" => \A i \in DOMAIN items' : items'[i].closed
    /\ done' = TRUE

Next == Progress \/ Finish

Spec == Init /\ [][Next]_vars
==============================================================================
