SPECIFICATION Spec
CONSTANTS
    Formats = {"json", "ini", "toml", "text"}
    Docs = {"sample", "order", "void"}
    SampleDoc = "sample"
    ComplexDoc = "order"
    Keeps <- MCKeeps
    Bracketed <- MCBracketed
    NullDocs = {"void"}
    Typed <- TypedMix
    Files = {}
    MaxReads = 0
    PromptRender = TRUE
INVARIANTS TypeOK EditorsMatchMode ShownIsState NoReportOutsideDiff
PROPERTIES UnreadableTextKept
