SPECIFICATION Spec
CONSTANTS
    Formats = {"json", "ini", "text"}
    Docs = {"sample", "order"}
    SampleDoc = "sample"
    ComplexDoc = "order"
    Keeps <- MCKeeps
    Bracketed <- MCBracketed
    NullDocs = {}
    Typed <- TypedIni
    Files <- FilesNone
    MaxReads = 0
    PromptRender = TRUE
PROPERTY FormatErrorReported
