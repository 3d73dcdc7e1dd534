------------------------------ MODULE ThinkText ------------------------------
(***************************************************************************)
(* The leading <think> block helpers of src/conversion/text.rs.            *)
(*                                                                         *)
(* A text is a sequence of tokens.  The two tags are each two tokens long, *)
(* <<LT, "think>">> and <<LT, "/think>">>, so that a text can end in the   *)
(* middle of a tag: LT alone stands for every proper prefix of a tag.  SP  *)
(* is any white space.  The tokens that the arguments of a tool call are   *)
(* made of, for StreamAssembler, are listed here too.                      *)
(***************************************************************************)
EXTENDS Integers, Sequences, FiniteSets, FiniteSetsExt

CONSTANT Word     \* every other token

LT == "<"
SP == " "
OpenTag  == << LT, "think>" >>
CloseTag == << LT, "/think>" >>

Token == { LT, SP, "think>", "/think>", "{", "}", "input" } \cup Word
Text  == Seq(Token)

Drop(s, n) == SubSeq(s, n + 1, Len(s))

StartsWith(s, tag) == Len(s) >= Len(tag) /\ SubSeq(s, 1, Len(tag)) = tag

\* The positions of s that hold something other than white space.
Ink(s) == { i \in 1..Len(s) : s[i] # SP }

IsBlank(s) == Ink(s) = {}

TrimStart(s) == IF IsBlank(s) THEN << >> ELSE Drop(s, Min(Ink(s)) - 1)

Trim(s) == IF IsBlank(s) THEN << >> ELSE SubSeq(s, Min(Ink(s)), Max(Ink(s)))

\* The positions at which s contains the (two token) closing tag.
ClosesAt(s) == { i \in 1..(Len(s) - 1) : SubSeq(s, i, i + 1) = CloseTag }

(***************************************************************************)
(* split_at_think_close: the text before the first closing tag, and the    *)
(* text after it without the white space that separates the two.           *)
(***************************************************************************)
HasClose(s) == ClosesAt(s) # {}

BeforeClose(s) == SubSeq(s, 1, Min(ClosesAt(s)) - 1)
AfterClose(s)  == TrimStart(Drop(s, Min(ClosesAt(s)) + 1))

(***************************************************************************)
(* strip_leading_think_open_tag: the text behind the opening tag, with its *)
(* white space trimmed at both ends.                                       *)
(***************************************************************************)
HasOpen(s) == StartsWith(TrimStart(s), OpenTag)

AfterOpen(s) == Drop(TrimStart(s), Len(OpenTag))

(***************************************************************************)
(* split_leading_think_block: an opening tag at the start and a closing    *)
(* tag behind it.                                                          *)
(***************************************************************************)
HasBlock(s) == HasOpen(s) /\ HasClose(AfterOpen(s))

BlockReasoning(s) == Trim(BeforeClose(AfterOpen(s)))
BlockAnswer(s)    == AfterClose(AfterOpen(s))

(***************************************************************************)
(* is_leading_think_prefix: the text so far can still become an opening    *)
(* tag.                                                                    *)
(***************************************************************************)
MayBecomeOpen(s) == TrimStart(s) \in { << >>, << LT >>, OpenTag }

(***************************************************************************)
(* split_incomplete_think_close_suffix: what may be emitted, and the       *)
(* suffix that may yet become a closing tag.                               *)
(***************************************************************************)
\* mutant: nothing is held back
HoldNothing(s) == << >>

Held(s)    == IF s # << >> /\ s[Len(s)] = LT THEN << LT >> ELSE << >>
Settled(s) == SubSeq(s, 1, Len(s) - Len(Held(s)))

\* The words of a text: what is left of it without white space.
Words(s) ==
    [ n \in 1..Cardinality(Ink(s)) |->
        s[CHOOSE i \in Ink(s) : Cardinality({ j \in Ink(s) : j < i }) = n - 1] ]

\* A closing tag that is none because of white space inside.
BrokenClose(s) ==
    \E i, j \in 1..Len(s) : /\ i + 1 < j /\ s[i] = LT /\ s[j] = "/think>"
                            /\ \A k \in (i + 1)..(j - 1) : s[k] = SP
==============================================================================
