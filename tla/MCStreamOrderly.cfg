CONSTANTS
    Word <- MCWord
    Indices <- MCIndices
    CallIds <- MCIds
    x = x
    y = y
    PlainNames <- MCPlain
    CustomNames <- MCCustom
    BlankNames <- MCBlank
    ReasoningParts <- MCReasoning
    ContentParts <- MCTagged
    ArgumentParts <- MCWholeArgs
    FinishReasons <- MCOneFinish
    ToolsDeclared <- MCEither
    Orderly = TRUE
    MaxParts = 5
SPECIFICATION FairSpec
INVARIANTS
    StreamedAsWhole
    ClosedTextExact
    ResponseMirrorsStream
    TruncationReported
PROPERTIES
    ImplementsResponsesStream
    Ends
