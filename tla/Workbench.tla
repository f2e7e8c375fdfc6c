----------------------------- MODULE Workbench -----------------------------
(***************************************************************************)
(* The editors of the converter page (static/index.html, function App):    *)
(* the main JSON panel, the comparison mode with its split and git views,  *)
(* the format selectors and the file uploads.                              *)
(*                                                                         *)
(* React keeps the texts and the labels as state; Monaco editors, created  *)
(* and disposed by effects, show them and write them back.  A click or a   *)
(* key press is handled, rendered and followed by its effects as one step. *)
(* The callback of a file reader is not: React renders its updates in a    *)
(* later task, and a handler running before that still sees the state last *)
(* rendered.  So the state has two copies: `view`, the rendered one that   *)
(* handlers and effects read, and `queued`, what it becomes when all the   *)
(* updates made so far are rendered.                                       *)
(***************************************************************************)
EXTENDS Documents

CONSTANTS
    Typed,         \* the texts users type or paste
    Files,         \* the files users upload: [ext : Formats, text : Texts]
    MaxReads,      \* bound: file reads in progress at a time
    PromptRender   \* TRUE: a reader's updates are rendered before the next
                   \* click or key press; FALSE: perhaps only after it

ASSUME WorkbenchAssumption ==
    /\ Typed \subseteq Texts
    /\ Files \subseteq [ext : Formats, text : Texts]
    /\ MaxReads \in Nat
    /\ PromptRender \in BOOLEAN

VARIABLES
    view,          \* the texts and labels last rendered
    queued,        \* the texts and labels with every update applied
    isDiffMode, diffViewMode,
    analysis,      \* diffAnalysis: "none", or whether the texts were the same
    error,         \* an error message is shown
    editors,       \* the Monaco instances: jsonEditorInstance ("json"),
                   \* diffEditorInstance ("diff") and the two models of
                   \* gitDiffEditorInstance ("original", "modified")
    orphaned,      \* some model outlived the git editor it was made for
    reads,         \* the file reads in progress
    inputFile      \* the value of the hidden <input type="file">

vars == <<view, queued, isDiffMode, diffViewMode, analysis, error, editors,
          orphaned, reads, inputFile>>

----------------------------------------------------------------------------
Labels     == {"dataFormat", "leftFormat", "rightFormat"}
TextStates == {"jsonText", "diffText"}
States     == [dataFormat : Formats, leftFormat : Formats,
               rightFormat : Formats, jsonText : Texts, diffText : Texts]

NoFile  == [ext |-> "none", text |-> Empty]
Panes   == {"json", "diff", "original", "modified"}
GitPanes == {"original", "modified"}
PanesOf(v) == IF v = "git" THEN GitPanes ELSE {"json", "diff"}
Hosts   == {"none", "main", "left", "right", "git"}

Instances == [host : Hosts, text : Texts, lang : MonacoLangs]

\* An editor's place on the page, what it shows and its highlighting.
Closed  == [host |-> "none", text |-> Empty, lang |-> "json"]
IsOpen(p) == editors[p].host # "none"

\* The state behind an editor of the comparison mode.
TextState(p) == IF p \in {"json", "original"} THEN "jsonText" ELSE "diffText"
Label(p)     == IF p \in {"json", "original"} THEN "leftFormat" ELSE "rightFormat"
DiffHost(p)  == CASE p = "json" -> "left" [] p = "diff" -> "right"
                  [] OTHER -> "git"

Reads == [file : Files, target : {"main", "diff"}, inDiff : BOOLEAN]

----------------------------------------------------------------------------
(* The effects that create and dispose editors, as functions on `editors`; *)
(* d, v and s are isDiffMode, diffViewMode and the state they run with.     *)

Dispose(e, S) == [p \in Panes |-> IF p \in S THEN Closed ELSE e[p]]

\* Mutants of InitMain: not checking the mode, and not looking at the state.
InitMainAnyMode(e, d, s) ==
    IF e["json"].host = "none"
    THEN [e EXCEPT !["json"] = [host |-> "main", lang |-> "json", text |-> s.jsonText]]
    ELSE e

InitMainSample(e, d, s) ==
    IF ~d /\ e["json"].host = "none"
    THEN [e EXCEPT !["json"] = [host |-> "main", lang |-> "json", text |-> Sample]]
    ELSE e

\* The main editor never starts empty and always highlights JSON.
InitMain(e, d, s) ==
    IF ~d /\ e["json"].host = "none"
    THEN [e EXCEPT !["json"] =
            [host |-> "main", lang |-> "json",
             text |-> IF s.jsonText = Empty THEN Sample ELSE s.jsonText]]
    ELSE e

NewPane(p, s) == [host |-> DiffHost(p), text |-> s[TextState(p)],
                  lang |-> MonacoLang(s[Label(p)])]

\* The editors of the other view are disposed, missing ones of this created.
InitDiff(e, d, v, s) ==
    IF d THEN [p \in Panes |-> CASE p \notin PanesOf(v)     -> Closed
                                 [] /\ p \in PanesOf(v)
                                    /\ e[p].host = "none"   -> NewPane(p, s)
                                 [] OTHER                   -> e[p]]
         ELSE e

\* Mutant: no effect brings the git models' languages up to date.
SyncGitNever(e, d, v, s) == e

SyncGit(e, d, v, s) ==
    [p \in Panes |-> IF d /\ v = "git" /\ p \in GitPanes /\ e[p].host # "none"
                     THEN [e[p] EXCEPT !.lang = MonacoLang(s[Label(p)])]
                     ELSE e[p]]

Effects(e, d, v, s) == SyncGit(InitDiff(InitMain(e, d, s), d, v, s), d, v, s)

----------------------------------------------------------------------------
Init ==
    /\ view = [dataFormat |-> "json", leftFormat |-> "json",
               rightFormat |-> "json", jsonText |-> Sample, diffText |-> Empty]
    /\ queued = view
    /\ isDiffMode = FALSE
    /\ diffViewMode = "split"
    /\ analysis = "none"
    /\ error = FALSE
    /\ editors = InitMain([p \in Panes |-> Closed], FALSE, view)
    /\ orphaned = FALSE
    /\ reads = {}
    /\ inputFile = NoFile

\* A click or a key press; with PromptRender nothing is waiting to be rendered.
Settled == PromptRender => view = queued

\* Mutant: the value is shown but does not count for what is rendered later.
SetShown(x, value) == view' = [view EXCEPT ![x] = value] /\ UNCHANGED queued

\* setX(value) in a click: rendered at once, after all earlier updates to X.
Set(x, value) ==
    /\ view' = [view EXCEPT ![x] = value]
    /\ queued' = [queued EXCEPT ![x] = value]

Set2(x, value, y, value2) ==
    /\ view' = [view EXCEPT ![x] = value, ![y] = value2]
    /\ queued' = [queued EXCEPT ![x] = value, ![y] = value2]

\* editor.setValue(t), when there is an editor.
Show(p, t) == IF IsOpen(p) THEN [editors EXCEPT ![p].text = t] ELSE editors

\* Mutants of ShowAs: only the text is written, or only the language.
ShowAsText(p, t, f) == Show(p, t)

ShowAsLang(p, t, f) ==
    IF IsOpen(p) THEN [editors EXCEPT ![p].lang = MonacoLang(f)] ELSE editors

ShowAs(p, t, f) ==
    IF IsOpen(p) THEN [editors EXCEPT ![p].text = t, ![p].lang = MonacoLang(f)]
                 ELSE editors

\* editor?.getValue() || text: the state stands in for an empty editor too.
Content(p) == IF editors[p].text = Empty THEN view[TextState(p)]
                                         ELSE editors[p].text

InSplit == isDiffMode /\ diffViewMode = "split"
InGit   == isDiffMode /\ diffViewMode = "git"

----------------------------------------------------------------------------
(* Modes and views *)

\* Mutant: the report of the last comparison is kept.
ToggleDiffKeepsReport ==
    /\ Settled
    /\ isDiffMode' = ~isDiffMode
    /\ editors' = Effects(Dispose(editors, Panes), ~isDiffMode, diffViewMode, view)
    /\ UNCHANGED <<view, queued, diffViewMode, analysis, error, orphaned, reads,
                   inputFile>>

\* The state updater of toggleDiffMode disposes the instances itself, so the
\* cleanup of the effect, which would also dispose the git models, finds none.
ToggleDiff ==
    /\ Settled
    /\ isDiffMode' = ~isDiffMode
    /\ orphaned' = (orphaned \/ \E p \in GitPanes : IsOpen(p))
    /\ editors' = Effects(Dispose(editors, Panes), ~isDiffMode, diffViewMode, view)
    /\ analysis' = "none"
    /\ UNCHANGED <<view, queued, diffViewMode, error, reads, inputFile>>

SetView(v) ==
    /\ Settled
    /\ isDiffMode
    /\ diffViewMode # v
    /\ diffViewMode' = v
    /\ editors' = Effects(Dispose(editors, Panes), isDiffMode, v, view)
    /\ UNCHANGED <<view, queued, isDiffMode, analysis, error, orphaned, reads,
                   inputFile>>

(* Typing *)

Edit(p, t) ==
    /\ Settled
    /\ IsOpen(p)
    /\ editors[p].text # t
    /\ editors' = Show(p, t)
    /\ Set(TextState(p), t)
    /\ UNCHANGED <<isDiffMode, diffViewMode, analysis, error, orphaned, reads,
                   inputFile>>

(* Format selectors *)

\* The three contexts of handleSmartFormatChange: where it is offered, the
\* editor it reads and the label it sets.  The main selector hides "text".
Offered(c, f) == CASE c = "main" -> ~isDiffMode /\ f # "text"
                   [] OTHER      -> InSplit
PaneIn(c)  == IF c = "diff-right" THEN "diff" ELSE "json"
LabelIn(c) == CASE c = "main"       -> "dataFormat"
                [] c = "diff-left"  -> "leftFormat"
                [] c = "diff-right" -> "rightFormat"
Contexts   == {"main", "diff-left", "diff-right"}

Relabel(c, to) ==
    /\ OnlyRelabels(Content(PaneIn(c)), view[LabelIn(c)], to)
    /\ Set(LabelIn(c), to)
    /\ editors' = IF IsOpen(PaneIn(c))
                  THEN [editors EXCEPT ![PaneIn(c)].lang = MonacoLang(to)]
                  ELSE editors
    /\ error' = IF c = "main" THEN FALSE ELSE error

Convert(c, to) ==
    LET from == view[LabelIn(c)]  t == Content(PaneIn(c))
    IN  /\ ~OnlyRelabels(t, from, to)
        /\ \E result \in Converted(t, from, to) :
              /\ editors' = ShowAs(PaneIn(c), result, to)
              /\ Set2(LabelIn(c), to, TextState(PaneIn(c)), result)
        /\ error' = IF c = "main" THEN FALSE ELSE error

\* A writer throws: nothing changes but the message, on the main panel only.
ConvertFails(c, to) ==
    LET from == view[LabelIn(c)]  t == Content(PaneIn(c))
    IN  /\ ~OnlyRelabels(t, from, to)
        /\ \E o \in Parse(t, from) : Write(o, to) = {}
        /\ error' = IF c = "main" THEN TRUE ELSE error
        /\ UNCHANGED <<view, queued, editors>>

ChangeFormat(c, to) ==
    /\ Settled
    /\ Offered(c, to)
    /\ view[LabelIn(c)] # to
    /\ Relabel(c, to) \/ Convert(c, to) \/ ConvertFails(c, to)
    /\ UNCHANGED <<isDiffMode, diffViewMode, analysis, orphaned, reads, inputFile>>

\* The one selector of the git view sets both labels and converts nothing.
SetGitFormat(f) ==
    /\ Settled
    /\ InGit
    /\ view.leftFormat # f
    /\ Set2("leftFormat", f, "rightFormat", f)
    /\ editors' = SyncGit(editors, isDiffMode, diffViewMode, view')
    /\ UNCHANGED <<isDiffMode, diffViewMode, analysis, error, orphaned, reads,
                   inputFile>>

(* Tools that rewrite the text of one editor *)

\* Mutant: the state is set and the editor forgotten.
RewriteState(p, t) == Set(TextState(p), t) /\ UNCHANGED editors

Rewrite(p, t) == editors' = Show(p, t) /\ Set(TextState(p), t)

Unmoved == UNCHANGED <<isDiffMode, diffViewMode, analysis, orphaned, reads,
                       inputFile>>

Fails == error' = TRUE /\ UNCHANGED <<view, queued, editors>>

\* formatJsonIntelligently on what JSON.parse refuses.  Either replacing
\* full-width punctuation, or re-indenting after that, makes JSON of it; or the
\* text is re-indented for the eye, and the error handler itself then fails, on
\* a name of another block, before it has set any message; or re-indenting
\* throws, at a bracket too many, and the error handler fails the same way.
FormatUnparsed ==
    LET t == Content("json")
    IN  \/ /\ t # Empty
           /\ Rewrite("json", Text(Garbage, "json"))
           /\ error' \in BOOLEAN
        \/ Rewrite("json", SoftFormatted(t)) /\ UNCHANGED error
        \/ /\ t # Empty
           /\ UNCHANGED <<view, queued, editors, error>>

FormatMain ==
    LET t == Content("json")  f == view.dataFormat
    IN  /\ Settled
        /\ ~isDiffMode
        /\ \/ /\ f = "json" => t.syn = "json"
              /\ \E result \in Reformatted(t, f) : Rewrite("json", result)
              /\ error' = FALSE
           \/ /\ f = "json" /\ t.syn # "json"
              /\ FormatUnparsed
           \/ /\ f # "json"
              /\ \E o \in Parse(t, f) : Write(o, Reader(f)) = {}
              /\ Fails
        /\ Unmoved

\* formatEditorContent: it reads the editor only and is silent when it fails.
FormatSide(p) ==
    /\ Settled
    /\ InSplit
    /\ view[Label(p)] # "text"
    /\ \E result \in Reformatted(editors[p].text, view[Label(p)]) :
          Rewrite(p, result)
    /\ UNCHANGED error
    /\ Unmoved

\* The text an escaped one was made of is forgotten: any the user may have had.
Escaped(t)   == Text(IF t = Empty THEN NoDoc ELSE Quoted, "json")
Unescaped(t) == IF t.doc = NoDoc THEN {Empty} ELSE Typed

\* The buttons offered while the main label is JSON.  Minifying, stripping the
\* comments and the Unicode conversions keep document and syntax.
JsonTool ==
    LET t == Content("json")
    IN  /\ Settled
        /\ ~isDiffMode
        /\ view.dataFormat = "json"
        /\ \/ /\ Rewrite("json", t)                       \* minify, comments,
              /\ error' = FALSE                            \* Unicode
           \/ /\ t.syn # "json"                            \* minify, unescape
              /\ Fails
           \/ /\ Rewrite("json", Escaped(t))
              /\ error' = FALSE
           \/ /\ t.syn = "json" /\ t.doc \in {Quoted, NoDoc}  \* unescape
              /\ \E u \in Unescaped(t) : Rewrite("json", u)
              /\ error' = FALSE
           \/ /\ t.syn = "json" /\ t.doc # Quoted
              /\ Fails
           \/ /\ Rewrite("json", Complex)                  \* loadComplexJson
              /\ error' = FALSE
        /\ Unmoved

\* clearAll, as far as the main editor goes.
ClearMain ==
    /\ Settled
    /\ ~isDiffMode
    /\ Rewrite("json", Empty)
    /\ error' = FALSE
    /\ Unmoved

ClearSide(p) ==
    /\ Settled
    /\ InSplit
    /\ Rewrite(p, Empty)
    /\ UNCHANGED error
    /\ Unmoved

(* Comparison *)

\* performDiff; in the git view there is no editor to read, only the state.
PerformDiff ==
    LET left == Content("json")  right == Content("diff")
        lefts == Parse(left, view.leftFormat)
        rights == Parse(right, view.rightFormat)
        Report(a, e) == analysis' = a /\ error' = e
    IN  /\ Settled
        /\ isDiffMode
        /\ \/ lefts = {} /\ Report("none", TRUE)
           \/ rights = {} /\ Report("none", TRUE)
           \/ \E l \in lefts, r \in rights, c \in {"same", "differ", "throws"} :
                 /\ c \in Compare(l, r)
                 /\ IF c = "throws" THEN Report("none", TRUE) ELSE Report(c, FALSE)
        /\ UNCHANGED <<view, queued, isDiffMode, diffViewMode, editors, orphaned,
                       reads, inputFile>>

(* Uploads *)

\* handleFileUpload.  The browser reports a choice only if it changes the value
\* of the input.  The handler keeps the target and the mode of this moment for
\* the reader's callback.  Two reads alike are not told apart.
ChooseFile(file, target) ==
    LET read == [file |-> file, target |-> target, inDiff |-> isDiffMode]
    IN  /\ Settled
        /\ (~isDiffMode /\ target = "main") \/ InSplit
        /\ file # inputFile
        /\ Cardinality(reads) < MaxReads
        /\ read \notin reads
        /\ reads' = reads \cup {read}
        /\ inputFile' = file
        /\ UNCHANGED <<view, queued, isDiffMode, diffViewMode, analysis, error,
                       editors, orphaned>>

\* reader.onload: the editor changes now, the state when React renders.
LoadOk(read) ==
    LET p == IF read.target = "main" THEN "json" ELSE "diff"
        label == CASE read.target = "diff" -> "rightFormat"
                   [] read.target = "main" /\ read.inDiff -> "leftFormat"
                   [] OTHER -> "dataFormat"
    IN  /\ read \in reads
        /\ reads' = reads \ {read}
        /\ queued' = [queued EXCEPT ![label] = read.file.ext,
                                    ![TextState(p)] = read.file.text]
        /\ editors' = ShowAs(p, read.file.text, read.file.ext)
        /\ error' = FALSE
        /\ inputFile' = NoFile
        /\ UNCHANGED <<view, isDiffMode, diffViewMode, analysis, orphaned>>

\* reader.onerror: the value of the input stays.
LoadError(read) ==
    /\ read \in reads
    /\ reads' = reads \ {read}
    /\ error' = TRUE
    /\ UNCHANGED <<view, queued, isDiffMode, diffViewMode, analysis, editors,
                   orphaned, inputFile>>

\* React renders what is queued; the effect on the labels follows.
Render ==
    /\ view # queued
    /\ view' = queued
    /\ editors' = SyncGit(editors, isDiffMode, diffViewMode, queued)
    /\ UNCHANGED <<queued, isDiffMode, diffViewMode, analysis, error, orphaned,
                   reads, inputFile>>

----------------------------------------------------------------------------
Click ==
    \/ ToggleDiff
    \/ \E v \in {"split", "git"} : SetView(v)
    \/ \E p \in Panes, t \in Typed : Edit(p, t)
    \/ \E c \in Contexts, f \in Formats : ChangeFormat(c, f)
    \/ \E f \in Formats : SetGitFormat(f)
    \/ FormatMain
    \/ JsonTool
    \/ ClearMain
    \/ \E p \in {"json", "diff"} : FormatSide(p) \/ ClearSide(p)
    \/ PerformDiff
    \/ \E file \in Files, target \in {"main", "diff"} : ChooseFile(file, target)

Next ==
    \/ Click
    \/ \E read \in reads : LoadOk(read) \/ LoadError(read)
    \/ Render

Spec == Init /\ [][Next]_vars

----------------------------------------------------------------------------
(* Properties *)

TypeOK ==
    /\ view \in States
    /\ queued \in States
    /\ isDiffMode \in BOOLEAN
    /\ diffViewMode \in {"split", "git"}
    /\ analysis \in {"none", "same", "differ"}
    /\ error \in BOOLEAN
    /\ editors \in [Panes -> Instances]
    /\ orphaned \in BOOLEAN
    /\ reads \subseteq Reads
    /\ inputFile \in Files \cup {NoFile}

\* The place of every editor is the one its mode and view give it: the main
\* panel has one editor, the split view two, the git view the two models of
\* its diff editor, and nothing of another mode or view is left over.
\* (effects at 1427-1499 and 2094-2202, toggleDiffMode)
EditorsMatchMode ==
    \A p \in Panes :
        editors[p].host =
            IF isDiffMode THEN IF p \in PanesOf(diffViewMode) THEN DiffHost(p)
                                                             ELSE "none"
                          ELSE IF p = "json" THEN "main" ELSE "none"

\* Outside the git view an editor shows the text the state holds for it,
\* through every toggle, view switch, conversion and upload, if uploads are
\* rendered promptly.  The one exception is the code's own: a main editor
\* created on an empty text shows the sample.
ShownIsState ==
    PromptRender =>
        /\ IsOpen("diff") => editors["diff"].text = queued.diffText
        /\ IsOpen("json") =>
              \/ editors["json"].text = queued.jsonText
              \/ /\ editors["json"].host = "main"
                 /\ queued.jsonText = Empty /\ editors["json"].text = Sample

\* In the git view both models are highlighted in the language of their labels,
\* also of labels that an upload sets and React renders late: the effect on the
\* labels follows every rendering (2205-2212).
GitHighlightMatchesLabel ==
    InGit => \A p \in GitPanes : editors[p].lang = MonacoLang(view[Label(p)])

\* In the split view each editor stays highlighted in the language of its label,
\* but for the two steps that the code has no effect for: a switch that creates
\* the editor before the label of an upload is rendered (2126), and an upload to
\* the main editor, chosen outside the comparison, whose callback finds the left
\* editor and sets the main label (3043-3053).
SplitHighlighted(p) == InSplit => editors[p].lang = MonacoLang(queued[Label(p)])

SplitKeepsHighlight ==
    [][\A p \in {"json", "diff"} :
          SplitHighlighted(p) /\ ~SplitHighlighted(p)' =>
             \/ /\ view[Label(p)] # queued[Label(p)]
                /\ isDiffMode' # isDiffMode \/ diffViewMode' # diffViewMode
             \/ /\ p = "json"
                /\ \E read \in reads \ reads' : read.target = "main" /\ ~read.inDiff
      ]_vars

\* The report of a comparison never outlives the comparison mode: entering the
\* mode shows an empty terminal (setDiffAnalysis(null) in toggleDiffMode).
NoReportOutsideDiff == analysis # "none" => isDiffMode

\* Switching mode or view leaves every text as the user saw it, though each
\* switch disposes all editors and builds others from the state: unless an
\* upload landed behind the git view, which shows neither, or the left text is
\* empty, for which the main panel shows the sample.
LeftSeen  == IF InGit THEN editors["original"].text ELSE editors["json"].text
RightSeen == CASE InGit   -> editors["modified"].text
               [] InSplit -> editors["diff"].text
               [] OTHER   -> view.diffText
BehindGit == InGit /\ (LeftSeen # view.jsonText \/ RightSeen # view.diffText)

SwitchKeepsTexts ==
    [][/\ PromptRender /\ ~BehindGit
       /\ isDiffMode' # isDiffMode \/ diffViewMode' # diffViewMode
       => /\ view.jsonText # Empty => LeftSeen' = LeftSeen
          /\ RightSeen' = RightSeen]_vars

\* A text that is labelled JSON and is not JSON is never rewritten by a format
\* selector: the switch corrects the label and the user keeps every character.
UnreadableTextKept ==
    [][\A c \in Contexts, f \in Formats :
          ChangeFormat(c, f) /\ view[LabelIn(c)] = "json"
              /\ Content(PaneIn(c)) # Empty /\ Content(PaneIn(c)).syn # "json"
          => editors'[PaneIn(c)].text = editors[PaneIn(c)].text]_vars

\* The two copies of the state move only as React moves them: what a click sets
\* shows at once, what a reader's callback sets shows at some later rendering,
\* and each setter is applied to all that were called before it.
DomainOf(x) == IF x \in Labels THEN Formats ELSE Texts

Rendered ==
    INSTANCE Rendering WITH
        Hooks <- Labels \cup TextStates,
        Acts  <- [x \in Labels \cup TextStates |->
                     {[old \in DomainOf(x) |-> new] : new \in DomainOf(x)}]

UpdatesAsReact == Rendered!Spec
=============================================================================
