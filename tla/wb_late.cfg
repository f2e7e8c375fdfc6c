SPECIFICATION Spec
CONSTANTS
    Formats = {"json", "text"}
    Docs = {"sample"}
    SampleDoc = "sample"
    ComplexDoc = "sample"
    Keeps <- MCKeeps
    Bracketed <- MCBracketed
    NullDocs = {}
    Typed <- TypedNone
    Files <- FilesOne
    MaxReads = 1
    PromptRender = FALSE
INVARIANT GitHighlightMatchesLabel
PROPERTIES UpdatesAsReact SplitKeepsHighlight
