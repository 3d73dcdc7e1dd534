------------------------------- MODULE MCStream -------------------------------
(* Streams for TLC: tags torn in every way, a function tool, a custom tool, a *)
(* call with a blank name.                                                    *)
EXTENDS StreamTask, TLC

CONSTANTS x, y
MCIdSymmetry == Permutations({ x, y })

MCWord      == { "u", "v", "w", "r" }
MCIndices   == { 0, 1 }
MCPlain     == { "f", "blank" }
MCBlank     == { "blank" }
MCCustom    == { "c" }
MCIds       == { x, y }
MCContent   == { << "w" >>, << LT >> }
MCTagged    == { << "w" >>, << SP >>, << LT >>, << "think>" >>, << "/think>", SP >>,
                 << "v", LT, "/think>" >>, << SP, LT, "think>", SP, "u", LT, SP >> }
MCReasoning == { << "r" >> }
MCArguments == { << >>, << "{", SP >>, << "}" >> }
MCWholeArgs == { << >>, << SP, "{", "}" >> }
MCFinish    == { "stop", "length" }
MCOneFinish == { "stop" }
MCEither    == BOOLEAN
==============================================================================
