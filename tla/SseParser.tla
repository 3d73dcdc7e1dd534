------------------------------ MODULE SseParser ------------------------------
(***************************************************************************)
(* The framing of the upstream's event stream (parse_chat_sse_bytes of     *)
(* src/upstream.rs): the body arrives in chunks that may end anywhere, in  *)
(* the middle of a character, of a line end or of a blank line.  The bytes *)
(* of an unfinished character wait in `remainder', text that is not yet    *)
(* closed by a blank line in `buffer'.                                     *)
(*                                                                         *)
(* A byte is one of those that the parser tells apart.  The prefixes       *)
(* "data:" and "event:" are one byte each; white space behind them, which  *)
(* is trimmed, is left out.                                                *)
(***************************************************************************)
EXTENDS Naturals, SequencesExt

CONSTANT Bodies   \* the bodies an upstream may send: sequences of Bytes

DataPrefix  == "data:"
EventPrefix == "event:"
LF    == "LF"
CR    == "CR"
Lead2 == "lead2"     \* first byte of a character of two bytes
Lead3 == "lead3"     \* and of three
Later  == "later"     \* a later byte of a character
Bad   == "bad"       \* a byte that occurs in no character
Other == "other"     \* any other character of one byte

Bytes == { DataPrefix, EventPrefix, LF, CR, Lead2, Lead3, Later, Bad, Other }

ASSUME BodiesAssumption == Bodies \subseteq Seq(Bytes)

VARIABLES
    body,       \* what the upstream sends
    arrived,    \* how many bytes of it have arrived
    remainder,  \* bytes that are not decoded yet
    buffer,     \* text that is not framed yet
    blocks      \* the blocks that were handed on

vars == << body, arrived, remainder, buffer, blocks >>

------------------------------------------------------------------------------
(* Characters *)

\* the bytes that are missing to the last character, or Broken
Broken == 9

Owed(owed, b) ==
    CASE owed = Broken        -> Broken
      [] owed \in { 1, 2 }     -> IF b = Later THEN owed - 1 ELSE Broken
      [] owed = 0 /\ b = Lead2 -> 1
      [] owed = 0 /\ b = Lead3 -> 2
      [] owed = 0 /\ b \in { Later, Bad } -> Broken
      [] OTHER                -> 0

Missing(bytes) ==
    LET upTo[n \in 0 .. Len(bytes)] == IF n = 0 THEN 0 ELSE Owed(upTo[n - 1], bytes[n])
    IN  upTo[Len(bytes)]

\* mutant: text that ends inside a character waits as a whole
ValidUpToEnd(bytes) == IF Missing(bytes) = 0 THEN Len(bytes) ELSE 0

\* valid_up_to: the length of the longest prefix that is made of whole characters
ValidUpTo(bytes) ==
    CHOOSE n \in 0 .. Len(bytes) :
        /\ Missing(SubSeq(bytes, 1, n)) = 0
        /\ \A k \in n + 1 .. Len(bytes) : Missing(SubSeq(bytes, 1, k)) # 0

------------------------------------------------------------------------------
(* Blocks *)

\* mutant: only one kind of line end is known
DelimitersLF == { << LF, LF >> }

Delimiters == { << CR, LF, CR, LF >>, << LF, LF >> }

Before(text, p)  == SubSeq(text, 1, p - 1)
From(text, p)    == SubSeq(text, p, Len(text))
Found(text, d)   == { p \in DOMAIN text : IsPrefix(d, From(text, p)) }
HasBlock(text)   == \E d \in Delimiters : Found(text, d) # {}

\* the first blank line in the text, and how long it is
NextDelimiter(text) ==
    LET all == UNION { { [ at |-> p, length |-> Len(d) ] : p \in Found(text, d) } : d \in Delimiters }
    IN  CHOOSE f \in all : \A g \in all : f.at <= g.at

AfterBlock(text) == From(text, NextDelimiter(text).at + NextDelimiter(text).length)

\* the loop over the buffer: all blocks that are closed, and what is left
Drain[text \in Seq(Bytes)] ==
    IF ~HasBlock(text) THEN [ blocks |-> << >>, left |-> text ]
    ELSE LET rest == Drain[AfterBlock(text)]
         IN  [ blocks |-> << Before(text, NextDelimiter(text).at) >> \o rest.blocks,
               left   |-> rest.left ]

\* mutant: one block is taken from each chunk
FramedOnce(text) ==
    IF HasBlock(text)
    THEN [ blocks |-> << Before(text, NextDelimiter(text).at) >>, left |-> AfterBlock(text) ]
    ELSE [ blocks |-> << >>, left |-> text ]

Framed(text) == Drain[text]

\* what stands between the last `end' before p, and p
Since(s, end, p) ==
    LET ends == { q \in DOMAIN s : q < p /\ s[q] = end }
    IN  SubSeq(s, Max({ 0 } \cup ends) + 1, p - 1)

\* str::lines: the lines of a block, without their line ends
Stripped(line) == IF line # << >> /\ Last(line) = CR THEN Front(line) ELSE line

Lines(text) ==
    FlattenSeq([ p \in DOMAIN text |->
        CASE text[p] = LF                   -> << Stripped(Since(text, LF, p)) >>
          [] text[p] # LF /\ p = Len(text) -> << Since(text, LF, p + 1) >>
          [] OTHER                          -> << >> ])

\* what stands behind the prefix in the lines that have it
Behind(prefix, lines) ==
    FlattenSeq([ i \in DOMAIN lines |->
        IF lines[i] # << >> /\ Head(lines[i]) = prefix THEN << Tail(lines[i]) >> ELSE << >> ])

\* sse_data_from_block: the data lines, joined; no data is not the same as empty data
NoData == << >>
DataOf(lines) == Behind(DataPrefix, lines)

\* sse_event_from_block: the first event that is named
NoEvent == << >>
FirstNamed(events) ==
    LET named == { i \in DOMAIN events : events[i] # << >> }
    IN  IF named = {} THEN NoEvent ELSE events[Min(named)]
EventOf(lines) == FirstNamed(Behind(EventPrefix, lines))

\* what the reader of the stream hears of the lines of a block: nothing without data,
\* unless it is an event (an error is one also without data)
Heard(lines) ==
    IF DataOf(lines) = NoData /\ EventOf(lines) = NoEvent THEN << >>
    ELSE << [ data |-> DataOf(lines), event |-> EventOf(lines) ] >>

------------------------------------------------------------------------------
(* The parser *)

Init ==
    /\ body \in Bodies /\ arrived = 0
    /\ remainder = << >> /\ buffer = << >> /\ blocks = << >>

\* mutant: a chunk is decoded by itself
CombinedAnew(bytes) == bytes

Combined(bytes) == remainder \o bytes

\* parse_chat_sse_bytes
Parse(bytes) ==
    LET combined == Combined(bytes)
        n        == ValidUpTo(combined)
        drained  == Framed(buffer \o SubSeq(combined, 1, n))
    IN  /\ remainder' = From(combined, n + 1)
        /\ buffer' = drained.left
        /\ blocks' = blocks \o drained.blocks

Chunk ==
    \E n \in arrived + 1 .. Len(body) :
        /\ arrived' = n
        /\ Parse(SubSeq(body, arrived + 1, n))
        /\ UNCHANGED body

Spec == Init /\ [][Chunk]_vars

------------------------------------------------------------------------------
(* Properties *)

Received == SubSeq(body, 1, arrived)

\* what the parser keeps and hands on is text, as the unchecked conversion in
\* parse_chat_sse_bytes claims, and nothing waits that could be handed on
TypeOK ==
    /\ body \in Seq(Bytes) /\ arrived \in 0 .. Len(body)
    /\ \A text \in Range(blocks) \cup { buffer } : Missing(text) = 0
    /\ ValidUpTo(remainder) = 0 /\ ~HasBlock(buffer)

\* wherever the body is cut into chunks, the parser is where it would be if all
\* that has arrived had come at once
CutsDoNotMatter ==
    LET n       == ValidUpTo(Received)
        drained == Drain[SubSeq(Received, 1, n)]
    IN  /\ remainder = From(Received, n + 1)
        /\ buffer = drained.left /\ blocks = drained.blocks

\* bytes are held back for good only behind a byte that belongs to no character;
\* otherwise at most an unfinished character waits
HeldBackIfBroken == Missing(Received) # Broken => Len(remainder) <= 2

\* The standard's way to read an event stream, line by line: an empty line hands on
\* what was collected since the last one
Uniform(text) ==
    \/ CR \notin Range(text)
    \/ \A i \in DOMAIN text : /\ text[i] = LF => i > 1 /\ text[i - 1] = CR
                              /\ text[i] = CR => i < Len(text) /\ text[i + 1] = LF

ByLines(lines) ==
    FlattenSeq([ i \in DOMAIN lines |->
        IF lines[i] = << >> THEN Heard(Since(lines, << >>, i)) ELSE << >> ])

\* with either kind of line end, the events that are handed on are those of the
\* standard, in order, each as soon as its empty line is complete
FramedAsLines ==
    LET text == SubSeq(Received, 1, ValidUpTo(Received))
    IN  Uniform(text) =>
            FlattenSeq([ i \in DOMAIN blocks |-> Heard(Lines(blocks[i])) ]) = ByLines(Lines(text))
==============================================================================
