SPECIFICATION Spec
CONSTANTS
    Formats = {"json", "ini", "text"}
    Docs = {"sample", "order"}
    SampleDoc = "sample"
    ComplexDoc = "order"
    Keeps <- MCKeeps
    Bracketed <- MCBracketed
    NullDocs = {}
    Typed <- TypedOne
    Files <- FilesNone
    MaxReads = 0
    PromptRender = TRUE
INVARIANT NoOrphanedModel
