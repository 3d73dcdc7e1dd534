CONSTANTS
    Word <- MCWord
    Indices <- MCIndices
    CallIds <- MCIds
    x = x
    y = y
    PlainNames <- MCPlain
    CustomNames <- MCCustom
    BlankNames <- MCBlank
    ReasoningParts <- MCReasoning
    ContentParts <- MCContent
    ArgumentParts <- MCArguments
    FinishReasons <- MCFinish
    ToolsDeclared <- MCEither
    Orderly = FALSE
    MaxParts = 4
SYMMETRY MCIdSymmetry
SPECIFICATION Spec
INVARIANTS
    TypeOK
    OneItemPerIndex
    ClosedAtMostOnce
    ClosedCallsExact
    SuccessClosesItems
    CallsSuppressMessage
    CallsDelivered
    StoredAsDelivered
