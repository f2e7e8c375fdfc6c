SPECIFICATION Spec
CONSTANTS
    Formats = {"json", "text"}
    Docs = {"sample", "order"}
    SampleDoc = "sample"
    ComplexDoc = "order"
    Keeps <- MCKeeps
    Bracketed <- MCBracketed
    NullDocs = {}
    Typed <- TypedOne
    Files <- FilesTwo
    MaxReads = 2
    PromptRender = TRUE
INVARIANT ShownIsState
PROPERTIES SwitchKeepsTexts
