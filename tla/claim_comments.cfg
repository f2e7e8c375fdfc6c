SPECIFICATION SampleSpec
CONSTANTS
    Names <- GoNames
    StructNames <- MCStructNames
    MainNames = {"Root", "Item"}
    MaxDepth = 2
    Generated <- MCGenerated
    Index <- MCIndex
    FieldNames <- MCFieldNames
    Inherited = {"toString"}
    ArrayNames = {"length"}
    MaxWeight = 16
    Mergeable <- MCMergeable
    JsonValues <- MCValues
    Height <- MCHeight
    Commented <- MCCommented
    Scattered <- MCScattered
CHECK_DEADLOCK FALSE
INVARIANT CommentAboveItsField
