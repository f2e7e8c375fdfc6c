SPECIFICATION AllSpec
CONSTANTS
    Names <- GoNames
    StructNames <- MCStructNames
    MainNames = {"Root", "Item"}
    MaxDepth = 2
    Generated <- MCGenerated
    Index <- MCIndex
    FieldNames <- MCFieldNames
    Inherited = {"toString"}
    ArrayNames = {"length"}
    MaxWeight = 16
    Mergeable <- MCMergeable
    JsonValues <- MCValues
    Height <- MCHeight
    Commented <- MCCommented
    Scattered <- MCScattered
\* Every work is done once.
CHECK_DEADLOCK FALSE
INVARIANTS ReportExplains FirstHasAllFields ConcreteWins MergedOnce TypesHoldDocument
           StripsComments JsonReadAlike FallbackAddsNothing SoftFormatSound
