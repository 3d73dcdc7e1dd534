-------------------------------- MODULE MCSse --------------------------------
\* Bodies put together from pieces: long enough for two events with CRLF line
\* ends, all mixtures of line ends, and characters that are whole or broken.
EXTENDS SseParser

Concats(pieces, n) ==
    LET upTo[k \in 0 .. n] ==
            IF k = 0 THEN { << >> } ELSE { << >> } \cup { s \o p : s \in upTo[k - 1], p \in pieces }
    IN  upTo[n]

Data  == << DataPrefix, Other >>
Event == << EventPrefix, Other >>
CRLF  == << CR, LF >>

MCBodies ==
    Concats({ Data, Event, CRLF }, 6)
    \cup Concats({ Data, << EventPrefix >>, << LF >> }, 6)
    \cup Concats({ Data, << CR >>, << LF >> }, 7)
    \cup Concats({ << Lead2, Later >>, << Lead3, Later, Later >>, << Lead3 >>, << Later >>, << Bad >>,
                   Data, << LF, LF >> }, 4)
==============================================================================
