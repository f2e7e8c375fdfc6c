-------------------------- MODULE Workbench_proofs --------------------------
(* Proofs about Workbench, for all documents, formats, files and bounds. *)
EXTENDS Workbench, TLAPS

----------------------------------------------------------------------------
(* What the operators of Documents return *)

\* parseCurrentContent yields objects.
LEMMA ParseType ==
    ASSUME NEW t \in Texts, NEW f \in Formats PROVE Parse(t, f) \subseteq Objects
  BY DEF Parse, Texts, Objects, Empty, Text

\* Every format is read by the reader of a format the page knows.
LEMMA ReaderType == ASSUME NEW f \in Formats PROVE Reader(f) \in Formats
  BY DocumentsAssumption DEF Reader

\* Every writer yields a text.
LEMMA WriteType ==
    ASSUME NEW o \in Objects, NEW f \in Formats PROVE Write(o, f) \subseteq Texts
  BY DEF Write, Texts, Objects, Empty, Text, LineBased

\* So do the conversions and the rewritings made of them.
LEMMA ConvertedType ==
    ASSUME NEW t \in Texts, NEW from \in Formats, NEW to \in Formats
    PROVE  /\ Converted(t, from, to) \subseteq Texts
           /\ Reformatted(t, from) \subseteq Texts
  BY ParseType, WriteType, ReaderType DEF Converted, Reformatted

\* The texts the handlers make themselves.
LEMMA TextsMade ==
    /\ Empty \in Texts /\ Sample \in Texts /\ Complex \in Texts
    /\ Text(Garbage, "json") \in Texts
    /\ \A t \in Texts : SoftFormatted(t) \in Texts /\ Escaped(t) \in Texts
                        /\ Unescaped(t) \subseteq Texts
  BY DocumentsAssumption, WorkbenchAssumption
     DEF Texts, Empty, Sample, Complex, Text, Objects, SoftFormatted, Escaped,
         Unescaped

LEMMA LangType == ASSUME NEW f \in Formats PROVE MonacoLang(f) \in MonacoLangs
  BY DEF MonacoLangs

LEMMA JsonLang == "json" \in MonacoLangs
  BY DocumentsAssumption, LangType DEF MonacoLang

----------------------------------------------------------------------------
(* The effects keep editors well-formed *)

LEMMA ClosedType == Closed \in Instances
  BY TextsMade, JsonLang DEF Closed, Instances, Hosts

LEMMA DisposeType ==
    ASSUME NEW e \in [Panes -> Instances], NEW S
    PROVE  Dispose(e, S) \in [Panes -> Instances]
  BY ClosedType DEF Dispose

LEMMA NewPaneType ==
    ASSUME NEW p \in Panes, NEW s \in States PROVE NewPane(p, s) \in Instances
  <1>1. DiffHost(p) \in Hosts
    BY DEF DiffHost, Hosts
  <1>2. s[TextState(p)] \in Texts
    BY DEF States, TextState
  <1>3. s[Label(p)] \in Formats
    BY DEF States, Label
  <1>. QED
    BY <1>1, <1>2, <1>3, LangType DEF NewPane, Instances

LEMMA InitMainType ==
    ASSUME NEW e \in [Panes -> Instances], NEW d, NEW s \in States
    PROVE  InitMain(e, d, s) \in [Panes -> Instances]
  <1>1. (IF s.jsonText = Empty THEN Sample ELSE s.jsonText) \in Texts
    BY TextsMade DEF States
  <1>. QED
    BY <1>1, JsonLang DEF InitMain, Instances, Hosts, Panes

LEMMA InitDiffType ==
    ASSUME NEW e \in [Panes -> Instances], NEW d, NEW v, NEW s \in States
    PROVE  InitDiff(e, d, v, s) \in [Panes -> Instances]
  BY ClosedType, NewPaneType DEF InitDiff

LEMMA SyncGitType ==
    ASSUME NEW e \in [Panes -> Instances], NEW d, NEW v, NEW s \in States
    PROVE  SyncGit(e, d, v, s) \in [Panes -> Instances]
  <1>1. \A p \in Panes : MonacoLang(s[Label(p)]) \in MonacoLangs
    BY LangType DEF States, Label
  <1>. QED
    BY <1>1 DEF SyncGit, Instances

LEMMA EffectsType ==
    ASSUME NEW e \in [Panes -> Instances], NEW d, NEW v, NEW s \in States
    PROVE  Effects(e, d, v, s) \in [Panes -> Instances]
  BY InitMainType, InitDiffType, SyncGitType DEF Effects

----------------------------------------------------------------------------
(* Assigning states and editors *)

LEMMA SetTextType ==
    ASSUME TypeOK, NEW x \in TextStates, NEW t \in Texts, Set(x, t)
    PROVE  view' \in States /\ queued' \in States
  BY DEF TypeOK, Set, States, TextStates

LEMMA SetLabelType ==
    ASSUME TypeOK, NEW x \in Labels, NEW f \in Formats, Set(x, f)
    PROVE  view' \in States /\ queued' \in States
  BY DEF TypeOK, Set, States, Labels

LEMMA ShowType ==
    ASSUME TypeOK, NEW p \in Panes, NEW t \in Texts, NEW f \in Formats
    PROVE  /\ Show(p, t) \in [Panes -> Instances]
           /\ ShowAs(p, t, f) \in [Panes -> Instances]
  BY LangType DEF TypeOK, Show, ShowAs, Instances

LEMMA ContentType ==
    ASSUME TypeOK, NEW p \in Panes
    PROVE  /\ editors[p].text \in Texts
           /\ Content(p) \in Texts
           /\ view[TextState(p)] \in Texts
           /\ view[Label(p)] \in Formats
  BY DEF TypeOK, Content, Instances, States, TextState, Label

LEMMA RewriteType ==
    ASSUME TypeOK, NEW p \in Panes, NEW t \in Texts, Rewrite(p, t)
    PROVE  /\ view' \in States /\ queued' \in States
           /\ editors' \in [Panes -> Instances]
  <1>1. TextState(p) \in TextStates
    BY DEF TextState, TextStates
  <1>2. \E f \in Formats : TRUE
    BY DocumentsAssumption
  <1>. QED
    BY <1>1, <1>2, SetTextType, ShowType DEF Rewrite

LEMMA ContextType ==
    ASSUME NEW c \in Contexts
    PROVE  PaneIn(c) \in {"json", "diff"} /\ LabelIn(c) \in Labels
  BY DEF Contexts, PaneIn, LabelIn, Labels

----------------------------------------------------------------------------
(* Type correctness *)

LEMMA InitTypeOK == Init => TypeOK
  <1>. SUFFICES ASSUME Init PROVE TypeOK
    OBVIOUS
  <1>1. view \in States
    BY TextsMade, DocumentsAssumption DEF Init, States
  <1>2. [p \in Panes |-> Closed] \in [Panes -> Instances]
    BY ClosedType
  <1>3. editors \in [Panes -> Instances]
    BY <1>1, <1>2, InitMainType DEF Init
  <1>. QED
    BY <1>1, <1>3 DEF Init, TypeOK

LEMMA ModesTypeOK ==
    ASSUME TypeOK, ToggleDiff \/ \E v \in {"split", "git"} : SetView(v)
    PROVE  TypeOK'
  <1>1. CASE ToggleDiff
    <2>1. editors' \in [Panes -> Instances]
      BY <1>1, DisposeType, EffectsType DEF ToggleDiff, TypeOK
    <2>. QED
      BY <1>1, <2>1 DEF ToggleDiff, TypeOK
  <1>2. ASSUME NEW v \in {"split", "git"}, SetView(v) PROVE TypeOK'
    <2>1. editors' \in [Panes -> Instances]
      BY <1>2, DisposeType, EffectsType DEF SetView, TypeOK
    <2>. QED
      BY <1>2, <2>1 DEF SetView, TypeOK
  <1>. QED
    BY <1>1, <1>2

LEMMA EditTypeOK ==
    ASSUME TypeOK, NEW p \in Panes, NEW t \in Typed, Edit(p, t) PROVE TypeOK'
  <1>1. t \in Texts
    BY WorkbenchAssumption
  <1>2. Rewrite(p, t)
    BY DEF Edit, Rewrite
  <1>. QED
    BY <1>1, <1>2, RewriteType DEF Edit, TypeOK

LEMMA ChangeFormatTypeOK ==
    ASSUME TypeOK, NEW c \in Contexts, NEW to \in Formats, ChangeFormat(c, to)
    PROVE  TypeOK'
  <1>. DEFINE p == PaneIn(c)
              l == LabelIn(c)
  <1>1. p \in Panes /\ l \in Labels
    BY ContextType DEF Panes
  <1>2. view[l] \in Formats /\ Content(p) \in Texts
    BY <1>1, ContentType DEF TypeOK, States, Labels
  <1>3. /\ view' \in States /\ queued' \in States
        /\ editors' \in [Panes -> Instances]
        /\ error' \in BOOLEAN
    <2>1. CASE Relabel(c, to)
      <3>1. view' \in States /\ queued' \in States
        BY <1>1, <2>1, SetLabelType DEF Relabel
      <3>. QED
        BY <1>1, <2>1, <3>1, LangType DEF Relabel, TypeOK, Instances
    <2>2. CASE Convert(c, to)
      <3>1. PICK result \in Converted(Content(p), view[l], to) :
              /\ editors' = ShowAs(p, result, to)
              /\ Set2(l, to, TextState(p), result)
        BY <2>2 DEF Convert
      <3>2. result \in Texts
        BY <1>2, <3>1, ConvertedType
      <3>3. TextState(p) \in TextStates
        BY DEF TextState, TextStates
      <3>4. view' \in States /\ queued' \in States
        BY <1>1, <3>1, <3>2, <3>3 DEF Set2, TypeOK, States, Labels, TextStates
      <3>5. error' \in BOOLEAN
        BY <2>2 DEF Convert, TypeOK
      <3>. QED
        BY <1>1, <3>1, <3>2, <3>4, <3>5, ShowType
    <2>3. CASE ConvertFails(c, to)
      BY <2>3 DEF ConvertFails, TypeOK
    <2>. QED
      BY <2>1, <2>2, <2>3 DEF ChangeFormat
  <1>. QED
    BY <1>3 DEF ChangeFormat, TypeOK

LEMMA SetGitFormatTypeOK ==
    ASSUME TypeOK, NEW f \in Formats, SetGitFormat(f) PROVE TypeOK'
  <1>1. view' \in States /\ queued' \in States
    BY DEF SetGitFormat, Set2, TypeOK, States
  <1>2. editors' \in [Panes -> Instances]
    BY <1>1, SyncGitType DEF SetGitFormat, TypeOK
  <1>. QED
    BY <1>1, <1>2 DEF SetGitFormat, TypeOK

LEMMA MainToolsTypeOK ==
    ASSUME TypeOK, FormatMain \/ JsonTool \/ ClearMain PROVE TypeOK'
  <1>. DEFINE Wrote == \E t \in Texts : Rewrite("json", t)
              Kept  == UNCHANGED <<view, queued, editors>>
              t     == Content("json")
  <1>1. "json" \in Panes /\ t \in Texts /\ view.dataFormat \in Formats
    BY ContentType DEF Panes, TypeOK, States
  <1>2. Wrote \/ Kept
    <2>1. CASE FormatMain
      BY <1>1, <2>1, ConvertedType, TextsMade DEF FormatMain, FormatUnparsed, Fails
    <2>2. CASE JsonTool
      BY <1>1, <2>2, TextsMade DEF JsonTool, Fails
    <2>3. CASE ClearMain
      BY <2>3, TextsMade DEF ClearMain
    <2>. QED
      BY <2>1, <2>2, <2>3
  <1>3. /\ view' \in States /\ queued' \in States
        /\ editors' \in [Panes -> Instances]
    BY <1>1, <1>2, RewriteType DEF TypeOK
  <1>4. Unmoved /\ error' \in BOOLEAN
    BY DEF FormatMain, FormatUnparsed, JsonTool, ClearMain, Fails, TypeOK
  <1>. QED
    BY <1>3, <1>4 DEF Unmoved, TypeOK

LEMMA SideToolsTypeOK ==
    ASSUME TypeOK, NEW p \in {"json", "diff"}, FormatSide(p) \/ ClearSide(p)
    PROVE  TypeOK'
  <1>1. p \in Panes
    BY DEF Panes
  <1>2. \E t \in Texts : Rewrite(p, t)
    BY <1>1, ContentType, ConvertedType, TextsMade DEF FormatSide, ClearSide
  <1>. QED
    BY <1>1, <1>2, RewriteType DEF FormatSide, ClearSide, Unmoved, TypeOK

LEMMA PerformDiffTypeOK == ASSUME TypeOK, PerformDiff PROVE TypeOK'
  BY DEF PerformDiff, TypeOK

LEMMA ChooseFileTypeOK ==
    ASSUME TypeOK, NEW file \in Files, NEW target \in {"main", "diff"},
           ChooseFile(file, target)
    PROVE  TypeOK'
  BY DEF ChooseFile, TypeOK, Reads

LEMMA LoadTypeOK ==
    ASSUME TypeOK, NEW read \in reads, LoadOk(read) \/ LoadError(read)
    PROVE  TypeOK'
  <1>1. CASE LoadOk(read)
    <2>. DEFINE p == IF read.target = "main" THEN "json" ELSE "diff"
    <2>1. p \in Panes /\ read.file.text \in Texts /\ read.file.ext \in Formats
      BY WorkbenchAssumption DEF Panes, TypeOK, Reads
    <2>2. editors' \in [Panes -> Instances]
      BY <1>1, <2>1, ShowType DEF LoadOk
    <2>3. queued' \in States
      BY <1>1, <2>1 DEF LoadOk, TypeOK, States, TextState
    <2>. QED
      BY <1>1, <2>2, <2>3 DEF LoadOk, TypeOK
  <1>2. CASE LoadError(read)
    BY <1>2 DEF LoadError, TypeOK
  <1>. QED
    BY <1>1, <1>2

LEMMA RenderTypeOK == ASSUME TypeOK, Render PROVE TypeOK'
  BY SyncGitType DEF Render, TypeOK

\* Every state the page can be in is well formed: texts are texts, labels are
\* formats and editors have a place, a text and a language, whatever the users
\* type, upload and click and in whatever order file reads end.
THEOREM TypeCorrect == Spec => []TypeOK
  <1>1. TypeOK /\ [Next]_vars => TypeOK'
    <2>. SUFFICES ASSUME TypeOK, [Next]_vars PROVE TypeOK'
      OBVIOUS
    <2>1. CASE Click
      BY <2>1, ModesTypeOK, EditTypeOK, ChangeFormatTypeOK, SetGitFormatTypeOK,
         MainToolsTypeOK, SideToolsTypeOK, PerformDiffTypeOK, ChooseFileTypeOK
         DEF Click
    <2>2. CASE \E read \in reads : LoadOk(read) \/ LoadError(read)
      BY <2>2, LoadTypeOK
    <2>3. CASE Render
      BY <2>3, RenderTypeOK
    <2>4. CASE UNCHANGED vars
      BY <2>4 DEF vars, TypeOK
    <2>. QED
      BY <2>1, <2>2, <2>3, <2>4 DEF Next
  <1>. QED
    BY <1>1, InitTypeOK, PTL DEF Spec

----------------------------------------------------------------------------
(* What a switch of mode or view leaves on the page *)

\* From no editor at all, the effects create those of the mode and the view,
\* from the state, and no other.
LEMMA EffectsFromScratch ==
    ASSUME TypeOK, NEW d \in BOOLEAN, NEW v \in {"split", "git"}
    PROVE  LET e == Effects(Dispose(editors, Panes), d, v, view)
           IN  \A p \in Panes :
                 /\ d /\ p \in PanesOf(v) => e[p] = NewPane(p, view)
                 /\ d /\ p \notin PanesOf(v) => e[p] = Closed
                 /\ ~d /\ p # "json" => e[p] = Closed
                 /\ ~d => /\ e["json"].host = "main"
                          /\ e["json"].text = IF view.jsonText = Empty
                                              THEN Sample ELSE view.jsonText
  <1>. DEFINE e0 == Dispose(editors, Panes)
              e1 == InitMain(e0, d, view)
              e2 == InitDiff(e1, d, v, view)
              e3 == SyncGit(e2, d, v, view)
  <1>1. \A p \in Panes : e0[p] = Closed
    BY DEF Dispose
  <1>2. CASE d
    <2>1. e1 = e0
      BY <1>2 DEF InitMain
    <2>2. \A p \in Panes : e2[p] = IF p \in PanesOf(v) THEN NewPane(p, view)
                                                      ELSE Closed
      <3>1. \A p \in Panes : e1[p].host = "none"
        BY <1>1, <2>1 DEF Closed
      <3>. QED
        BY <1>2, <3>1 DEF InitDiff
    <2>3. \A p \in Panes : e3[p] = e2[p]
      <3>. SUFFICES ASSUME NEW p \in Panes PROVE e3[p] = e2[p]
        OBVIOUS
      <3>1. CASE p \in PanesOf(v)
        <4>1. e2[p] = NewPane(p, view)
          BY <2>2, <3>1
        <4>2. [NewPane(p, view) EXCEPT !.lang = MonacoLang(view[Label(p)])]
                 = NewPane(p, view)
          BY DEF NewPane
        <4>. HIDE DEF e2
        <4>. QED
          BY <4>1, <4>2 DEF SyncGit
      <3>2. CASE p \notin PanesOf(v)
        BY <2>2, <3>2 DEF SyncGit, Closed
      <3>. QED
        BY <3>1, <3>2
    <2>. QED
      BY <1>2, <2>2, <2>3 DEF Effects
  <1>3. CASE ~d
    <2>1. e0 \in [Panes -> Instances] /\ "json" \in Panes
      BY DisposeType DEF TypeOK, Panes
    <2>2. e1 = [e0 EXCEPT !["json"] =
                  [host |-> "main", lang |-> "json",
                   text |-> IF view.jsonText = Empty THEN Sample
                                                     ELSE view.jsonText]]
      BY <1>1, <1>3, <2>1 DEF InitMain, Closed
    <2>3. e2 = e1
      BY <1>3 DEF InitDiff
    <2>4. \A p \in Panes : e3[p] = e2[p]
      BY <1>3 DEF SyncGit
    <2>5. e3["json"] = [host |-> "main", lang |-> "json",
                        text |-> IF view.jsonText = Empty THEN Sample
                                                          ELSE view.jsonText]
      BY <2>1, <2>2, <2>3, <2>4
    <2>6. \A p \in Panes : p # "json" => e3[p] = Closed
      BY <1>1, <2>1, <2>2, <2>3, <2>4
    <2>. QED
      BY <1>3, <2>5, <2>6 DEF Effects
  <1>. QED
    BY <1>2, <1>3

\* Every other step leaves the editors where they are.
PlacesKept == \A p \in Panes : editors'[p].host = editors[p].host

LEMMA ShowKeepsPlaces ==
    ASSUME TypeOK, NEW p \in Panes, NEW t, NEW f
    PROVE  \A q \in Panes : /\ Show(p, t)[q].host = editors[q].host
                            /\ ShowAs(p, t, f)[q].host = editors[q].host
  BY DEF TypeOK, Instances, Show, ShowAs

LEMMA SyncGitKeepsPlaces ==
    ASSUME TypeOK, NEW d, NEW v, NEW s
    PROVE  \A q \in Panes : SyncGit(editors, d, v, s)[q].host = editors[q].host
  BY DEF TypeOK, Instances, SyncGit

LEMMA ClickKeepsPlaces ==
    ASSUME TypeOK, Click, UNCHANGED <<isDiffMode, diffViewMode>>
    PROVE  PlacesKept
  <1>1. ~ToggleDiff /\ \A v \in {"split", "git"} : ~SetView(v)
    BY DEF ToggleDiff, SetView, TypeOK
  <1>2. ASSUME NEW p \in Panes, NEW t \in Typed, Edit(p, t) PROVE PlacesKept
    BY <1>2, ShowKeepsPlaces DEF Edit, PlacesKept
  <1>3. ASSUME NEW c \in Contexts, NEW f \in Formats, ChangeFormat(c, f)
        PROVE  PlacesKept
    <2>1. PaneIn(c) \in Panes
      BY ContextType DEF Panes
    <2>2. CASE Relabel(c, f)
      BY <2>1, <2>2 DEF Relabel, PlacesKept, TypeOK, Instances
    <2>3. CASE Convert(c, f)
      BY <2>1, <2>3, ShowKeepsPlaces DEF Convert, PlacesKept
    <2>4. CASE ConvertFails(c, f)
      BY <2>4 DEF ConvertFails, PlacesKept
    <2>. QED
      BY <1>3, <2>2, <2>3, <2>4 DEF ChangeFormat
  <1>4. ASSUME NEW f \in Formats, SetGitFormat(f) PROVE PlacesKept
    BY <1>4, SyncGitKeepsPlaces DEF SetGitFormat, PlacesKept
  <1>5. ASSUME NEW p \in Panes, NEW t, Rewrite(p, t) PROVE PlacesKept
    BY <1>5, ShowKeepsPlaces DEF Rewrite, PlacesKept
  <1>6. CASE FormatMain \/ JsonTool \/ ClearMain
    <2>1. (\E t : Rewrite("json", t)) \/ UNCHANGED editors
      BY <1>6 DEF FormatMain, FormatUnparsed, JsonTool, ClearMain, Fails
    <2>. QED
      BY <1>5, <2>1 DEF PlacesKept, Panes
  <1>7. ASSUME NEW p \in {"json", "diff"}, FormatSide(p) \/ ClearSide(p)
        PROVE  PlacesKept
    BY <1>5, <1>7 DEF FormatSide, ClearSide, Panes
  <1>8. CASE PerformDiff
    BY <1>8 DEF PerformDiff, PlacesKept
  <1>9. ASSUME NEW file \in Files, NEW target \in {"main", "diff"},
               ChooseFile(file, target)
        PROVE  PlacesKept
    BY <1>9 DEF ChooseFile, PlacesKept
  <1>. QED
    BY <1>1, <1>2, <1>3, <1>4, <1>6, <1>7, <1>8, <1>9 DEF Click

\* The mode and the view change by their two switches only.
LEMMA ModesChange ==
    ASSUME TypeOK, Next
    PROVE  \/ ToggleDiff
           \/ \E v \in {"split", "git"} : SetView(v)
           \/ UNCHANGED <<isDiffMode, diffViewMode>>
  BY DEF Next, Click, Edit, ChangeFormat, SetGitFormat, FormatMain, JsonTool,
         ClearMain, FormatSide, ClearSide, Unmoved, PerformDiff, ChooseFile,
         LoadOk, LoadError, Render

LEMMA NextKeepsPlaces ==
    ASSUME TypeOK, Next, UNCHANGED <<isDiffMode, diffViewMode>>
    PROVE  PlacesKept
  <1>1. CASE Click
    BY <1>1, ClickKeepsPlaces
  <1>2. ASSUME NEW read \in reads, LoadOk(read) \/ LoadError(read)
        PROVE  PlacesKept
    BY <1>2, ShowKeepsPlaces DEF LoadOk, LoadError, PlacesKept, Panes
  <1>3. CASE Render
    BY <1>3, SyncGitKeepsPlaces DEF Render, PlacesKept
  <1>. QED
    BY <1>1, <1>2, <1>3 DEF Next

----------------------------------------------------------------------------
LEMMA SwitchMatchesMode ==
    ASSUME TypeOK, ToggleDiff \/ \E v \in {"split", "git"} : SetView(v)
    PROVE  EditorsMatchMode'
  <1>. DEFINE d == isDiffMode'
              v == diffViewMode'
  <1>1. /\ d \in BOOLEAN /\ v \in {"split", "git"}
        /\ editors' = Effects(Dispose(editors, Panes), d, v, view)
    BY DEF ToggleDiff, SetView, TypeOK
  <1>. HIDE DEF d, v
  <1>2. SUFFICES ASSUME NEW p \in Panes
                 PROVE  editors'[p].host =
                          IF d THEN IF p \in PanesOf(v) THEN DiffHost(p)
                                                        ELSE "none"
                               ELSE IF p = "json" THEN "main" ELSE "none"
    BY DEF EditorsMatchMode, d, v
  <1>. DEFINE e == Effects(Dispose(editors, Panes), d, v, view)
  <1>3. /\ d /\ p \in PanesOf(v) => e[p] = NewPane(p, view)
        /\ d /\ p \notin PanesOf(v) => e[p] = Closed
        /\ ~d /\ p # "json" => e[p] = Closed
        /\ ~d => e["json"].host = "main"
    BY <1>1, EffectsFromScratch
  <1>4. NewPane(p, view).host = DiffHost(p) /\ Closed.host = "none"
    BY DEF NewPane, Closed
  <1>5. editors' = e
    BY <1>1
  <1>. HIDE DEF e
  <1>6. CASE d
    BY <1>3, <1>4, <1>5, <1>6
  <1>7. CASE ~d
    BY <1>3, <1>4, <1>5, <1>7
  <1>. QED
    BY <1>6, <1>7

\* At any moment the editors on the page are those of the mode and the view:
\* no instance survives its panel, none is missing and none is created twice.
THEOREM EditorsFollowModes == Spec => []EditorsMatchMode
  <1>1. Init => EditorsMatchMode
    <2>. SUFFICES ASSUME Init PROVE EditorsMatchMode
      OBVIOUS
    <2>1. "json" \in Panes
      BY DEF Panes
    <2>2. editors = [[p \in Panes |-> Closed] EXCEPT !["json"] =
                       [host |-> "main", lang |-> "json",
                        text |-> IF view.jsonText = Empty THEN Sample
                                                          ELSE view.jsonText]]
      BY <2>1 DEF Init, InitMain, Closed
    <2>3. \A p \in Panes : editors[p].host = IF p = "json" THEN "main" ELSE "none"
      BY <2>2 DEF Closed
    <2>. QED
      BY <2>3 DEF Init, EditorsMatchMode
  <1>2. TypeOK /\ EditorsMatchMode /\ [Next]_vars => EditorsMatchMode'
    <2>. SUFFICES ASSUME TypeOK, EditorsMatchMode, [Next]_vars
                  PROVE  EditorsMatchMode'
      OBVIOUS
    <2>1. CASE ToggleDiff \/ \E v \in {"split", "git"} : SetView(v)
      BY <2>1, SwitchMatchesMode
    <2>2. CASE UNCHANGED <<isDiffMode, diffViewMode>> /\ PlacesKept
      BY <2>2 DEF EditorsMatchMode, PlacesKept
    <2>3. CASE UNCHANGED vars
      BY <2>3 DEF vars, EditorsMatchMode
    <2>. QED
      BY <2>1, <2>2, <2>3, ModesChange, NextKeepsPlaces
  <1>. QED
    BY <1>1, <1>2, TypeCorrect, PTL DEF Spec

\* The report of a comparison is gone whenever the comparison mode is.
THEOREM ReportsStayInDiff == Spec => []NoReportOutsideDiff
  <1>1. Init => NoReportOutsideDiff
    BY DEF Init, NoReportOutsideDiff
  <1>2. TypeOK /\ NoReportOutsideDiff /\ [Next]_vars => NoReportOutsideDiff'
    BY DEF TypeOK, NoReportOutsideDiff, vars, Next, Click, ToggleDiff, SetView,
           Edit, ChangeFormat, SetGitFormat, FormatMain, JsonTool, ClearMain,
           FormatSide, ClearSide, Unmoved, PerformDiff, ChooseFile, LoadOk,
           LoadError, Render
  <1>. QED
    BY <1>1, <1>2, TypeCorrect, PTL DEF Spec

----------------------------------------------------------------------------
(* Highlighting follows the labels *)

\* Most steps touch neither a language nor a label.
HighlightKept ==
    /\ \A p \in Panes : editors'[p].lang = editors[p].lang
    /\ \A l \in Labels : view'[l] = view[l] /\ queued'[l] = queued[l]
    /\ UNCHANGED <<isDiffMode, diffViewMode>>

LEMMA RewriteKeepsHighlight ==
    ASSUME TypeOK, NEW p \in Panes, NEW t, Rewrite(p, t),
           UNCHANGED <<isDiffMode, diffViewMode>>
    PROVE  HighlightKept
  <1>1. TextState(p) \notin Labels
    BY DEF TextState, Labels
  <1>2. \A l \in Labels : view'[l] = view[l] /\ queued'[l] = queued[l]
    BY <1>1 DEF Rewrite, Set, TypeOK, States, Labels
  <1>3. \A q \in Panes : editors'[q].lang = editors[q].lang
    BY DEF Rewrite, Show, TypeOK, Instances
  <1>. QED
    BY <1>2, <1>3 DEF HighlightKept

LEMMA PlainClickKeepsHighlight ==
    ASSUME TypeOK, Click,
           ~ \E c \in Contexts, f \in Formats : ChangeFormat(c, f),
           ~ \E f \in Formats : SetGitFormat(f),
           ~ToggleDiff, ~ \E v \in {"split", "git"} : SetView(v)
    PROVE  HighlightKept
  <1>1. UNCHANGED <<isDiffMode, diffViewMode>>
    BY DEF Click, Edit, FormatMain, JsonTool, ClearMain, FormatSide, ClearSide,
           Unmoved, PerformDiff, ChooseFile
  <1>2. ASSUME NEW p \in Panes, NEW t, Rewrite(p, t) PROVE HighlightKept
    BY <1>1, <1>2, RewriteKeepsHighlight
  <1>3. ASSUME UNCHANGED <<view, queued, editors>> PROVE HighlightKept
    BY <1>1, <1>3 DEF HighlightKept
  <1>4. ASSUME NEW p \in Panes, NEW t \in Typed, Edit(p, t) PROVE HighlightKept
    BY <1>2, <1>4 DEF Edit, Rewrite
  <1>5. CASE FormatMain \/ JsonTool \/ ClearMain
    <2>1. (\E t : Rewrite("json", t)) \/ UNCHANGED <<view, queued, editors>>
      BY <1>5 DEF FormatMain, FormatUnparsed, JsonTool, ClearMain, Fails
    <2>. QED
      BY <1>2, <1>3, <2>1 DEF Panes
  <1>6. ASSUME NEW p \in {"json", "diff"}, FormatSide(p) \/ ClearSide(p)
        PROVE  HighlightKept
    BY <1>2, <1>6 DEF FormatSide, ClearSide, Panes
  <1>7. CASE PerformDiff
    BY <1>3, <1>7 DEF PerformDiff
  <1>8. ASSUME NEW file \in Files, NEW target \in {"main", "diff"},
               ChooseFile(file, target)
        PROVE  HighlightKept
    BY <1>3, <1>8 DEF ChooseFile
  <1>. QED
    BY <1>4, <1>5, <1>6, <1>7, <1>8 DEF Click

\* What a step that sets languages and labels together does to every editor.
HighlightStep ==
    /\ GitHighlightMatchesLabel => GitHighlightMatchesLabel'
    /\ \A p \in {"json", "diff"} : SplitHighlighted(p) => SplitHighlighted(p)'

LEMMA KeptHighlight == ASSUME TypeOK, HighlightKept PROVE HighlightStep
  BY DEF HighlightKept, HighlightStep, GitHighlightMatchesLabel, SplitHighlighted,
         InSplit, InGit, Panes, GitPanes, Labels, Label

\* A switch makes editors in the language of the labels last rendered.
LEMMA SwitchHighlights ==
    ASSUME TypeOK, ToggleDiff \/ \E v \in {"split", "git"} : SetView(v)
    PROVE  /\ isDiffMode' # isDiffMode \/ diffViewMode' # diffViewMode
           /\ GitHighlightMatchesLabel'
           /\ \A p \in {"json", "diff"} :
                 view[Label(p)] = queued[Label(p)] => SplitHighlighted(p)'
  <1>. DEFINE e == Effects(Dispose(editors, Panes), isDiffMode', diffViewMode', view)
  <1>1. /\ isDiffMode' \in BOOLEAN /\ diffViewMode' \in {"split", "git"}
        /\ editors' = e /\ UNCHANGED <<view, queued>>
    BY DEF ToggleDiff, SetView, TypeOK
  <1>2. isDiffMode' # isDiffMode \/ diffViewMode' # diffViewMode
    BY DEF ToggleDiff, SetView, TypeOK
  <1>3. \A p \in Panes : isDiffMode' /\ p \in PanesOf(diffViewMode')
                           => e[p] = NewPane(p, view)
    BY <1>1, EffectsFromScratch
  <1>. HIDE DEF e
  <1>4. \A p \in Panes : isDiffMode' /\ p \in PanesOf(diffViewMode')
                           => editors'[p].lang = MonacoLang(view[Label(p)])
    <2>1. \A p \in Panes : NewPane(p, view).lang = MonacoLang(view[Label(p)])
      BY DEF NewPane
    <2>. QED
      BY <1>1, <1>3, <2>1
  <1>5. \A p \in {"json", "diff"} :
           InSplit' => editors'[p].lang = MonacoLang(view[Label(p)])
    BY <1>4 DEF InSplit, PanesOf, Panes
  <1>6. InGit' => \A p \in GitPanes : editors'[p].lang = MonacoLang(view[Label(p)])
    BY <1>4 DEF InGit, PanesOf, Panes, GitPanes
  <1>. QED
    BY <1>1, <1>2, <1>5, <1>6 DEF GitHighlightMatchesLabel, SplitHighlighted

\* Both editors of the split view are there.
LEMMA SplitOpen ==
    ASSUME TypeOK, EditorsMatchMode, InSplit, NEW p \in {"json", "diff"}
    PROVE  IsOpen(p)
  BY DEF EditorsMatchMode, InSplit, PanesOf, Panes, DiffHost, IsOpen

\* A selector sets label and language of one editor alike, and nothing of the
\* other's.
LEMMA ChangeFormatHighlights ==
    ASSUME TypeOK, EditorsMatchMode,
           NEW c \in Contexts, NEW to \in Formats, ChangeFormat(c, to)
    PROVE  HighlightStep
  <1>1. ~InGit /\ UNCHANGED <<isDiffMode, diffViewMode>>
    BY DEF ChangeFormat, Offered, InSplit, InGit
  <1>2. GitHighlightMatchesLabel'
    BY <1>1 DEF GitHighlightMatchesLabel, InGit
  <1>3. ASSUME NEW p \in {"json", "diff"}, InSplit, SplitHighlighted(p)
        PROVE  SplitHighlighted(p)'
    <2>1. c \in {"diff-left", "diff-right"} /\ IsOpen(PaneIn(c))
      BY <1>3, SplitOpen DEF ChangeFormat, Offered, InSplit, Contexts, PaneIn
    <2>2. CASE ConvertFails(c, to)
      BY <1>1, <1>3, <2>2 DEF ConvertFails, SplitHighlighted, InSplit
    <2>3. CASE p = PaneIn(c) /\ ~ConvertFails(c, to)
      <3>1. /\ LabelIn(c) = Label(p) /\ LabelIn(c) \in Labels
            /\ TextState(p) \in TextStates /\ p \in Panes
        BY <2>1, <2>3 DEF PaneIn, LabelIn, Label, Labels, TextState, TextStates, Panes
      <3>2. editors'[p].lang = MonacoLang(to) /\ queued'[Label(p)] = to
        <4>1. CASE Relabel(c, to)
          BY <2>1, <2>3, <3>1, <4>1 DEF Relabel, Set, TypeOK, Instances, States, Labels
        <4>2. CASE Convert(c, to)
          <5>1. PICK t : /\ editors' = ShowAs(p, t, to)
                         /\ Set2(Label(p), to, TextState(p), t)
            BY <2>3, <3>1, <4>2 DEF Convert
          <5>2. editors'[p].lang = MonacoLang(to)
            BY <2>1, <2>3, <3>1, <5>1 DEF ShowAs, TypeOK, Instances
          <5>3. queued'[Label(p)] = to
            BY <3>1, <5>1 DEF Set2, TypeOK, States, Labels, TextStates
          <5>. QED
            BY <5>2, <5>3
        <4>. QED
          BY <2>3, <4>1, <4>2 DEF ChangeFormat
      <3>. QED
        BY <3>2 DEF SplitHighlighted
    <2>4. CASE p # PaneIn(c) /\ ~ConvertFails(c, to)
      <3>1. /\ Label(p) # LabelIn(c) /\ Label(p) # TextState(PaneIn(c))
            /\ PaneIn(c) \in Panes /\ p \in Panes /\ Label(p) \in Labels
        BY <2>1, <2>4 DEF PaneIn, LabelIn, Label, TextState, Panes, Labels
      <3>2. editors'[p].lang = editors[p].lang /\ queued'[Label(p)] = queued[Label(p)]
        BY <2>4, <3>1 DEF ChangeFormat, Relabel, Convert, ShowAs, Set, Set2, TypeOK,
           Instances, States, Labels
      <3>. QED
        BY <1>1, <1>3, <3>2 DEF SplitHighlighted, InSplit
    <2>. QED
      BY <2>2, <2>3, <2>4
  <1>. QED
    BY <1>1, <1>2, <1>3 DEF HighlightStep, SplitHighlighted, InSplit

\* Whatever sets the labels without an editor, the effect on them follows.
LEMMA SyncHighlights ==
    ASSUME TypeOK, EditorsMatchMode, Render \/ \E f \in Formats : SetGitFormat(f)
    PROVE  HighlightStep
  <1>1. /\ editors' = SyncGit(editors, isDiffMode, diffViewMode, view')
        /\ UNCHANGED <<isDiffMode, diffViewMode>>
        /\ InSplit => UNCHANGED queued
    BY DEF Render, SetGitFormat, InSplit, InGit
  <1>2. InSplit => \A p \in {"json", "diff"} : editors'[p] = editors[p]
    BY <1>1 DEF SyncGit, InSplit, Panes
  <1>3. ASSUME InGit, NEW p \in GitPanes
        PROVE  editors'[p].lang = MonacoLang(view'[Label(p)])
    <2>1. p \in Panes /\ isDiffMode /\ diffViewMode = "git"
      BY <1>3 DEF InGit, GitPanes, Panes
    <2>2. editors[p].host # "none"
      BY <1>3, <2>1 DEF EditorsMatchMode, PanesOf, DiffHost, GitPanes
    <2>3. editors'[p] = [editors[p] EXCEPT !.lang = MonacoLang(view'[Label(p)])]
      BY <1>1, <1>3, <2>1, <2>2 DEF SyncGit
    <2>. QED
      BY <2>1, <2>3 DEF TypeOK, Instances
  <1>4. GitHighlightMatchesLabel'
    BY <1>1, <1>3 DEF GitHighlightMatchesLabel, InGit
  <1>. QED
    BY <1>1, <1>2, <1>4 DEF HighlightStep, SplitHighlighted, InSplit

\* A callback sets label and language of the editor it finds alike, if it was
\* chosen in the comparison.
LEMMA LoadHighlights ==
    ASSUME TypeOK, EditorsMatchMode, NEW read \in reads,
           LoadOk(read) \/ LoadError(read)
    PROVE  /\ GitHighlightMatchesLabel => GitHighlightMatchesLabel'
           /\ \A p \in {"json", "diff"} :
                 \/ p = "json" /\ read.target = "main" /\ ~read.inDiff
                 \/ SplitHighlighted(p) => SplitHighlighted(p)'
  <1>1. CASE LoadError(read)
    BY <1>1 DEF LoadError, GitHighlightMatchesLabel, SplitHighlighted, InSplit, InGit
  <1>2. CASE LoadOk(read)
    <2>. DEFINE target == IF read.target = "main" THEN "json" ELSE "diff"
    <2>1. UNCHANGED <<view, isDiffMode, diffViewMode>>
      BY <1>2 DEF LoadOk
    <2>2. /\ editors' = ShowAs(target, read.file.text, read.file.ext)
          /\ target \in {"json", "diff"} /\ read.target \in {"main", "diff"}
      BY <1>2 DEF LoadOk, TypeOK, Reads
    <2>3. \A p \in Panes : p # target => editors'[p] = editors[p]
      BY <2>2 DEF ShowAs, TypeOK
    <2>4. GitHighlightMatchesLabel => GitHighlightMatchesLabel'
      BY <2>1, <2>2, <2>3 DEF GitHighlightMatchesLabel, InGit, GitPanes, Panes
    <2>5. ASSUME NEW p \in {"json", "diff"}, p # target, SplitHighlighted(p)
          PROVE  SplitHighlighted(p)'
      <3>1. editors'[p] = editors[p]
        BY <2>3, <2>5 DEF Panes
      <3>2. queued'[Label(p)] = queued[Label(p)]
        BY <1>2, <2>2, <2>5 DEF LoadOk, TypeOK, States, TextState, Label
      <3>. QED
        BY <2>1, <2>5, <3>1, <3>2 DEF SplitHighlighted, InSplit
    <2>6. ASSUME NEW p \in {"json", "diff"}, p = target, p = "diff" \/ read.inDiff
          PROVE  SplitHighlighted(p)'
      <3>1. InSplit => editors'[p].lang = MonacoLang(read.file.ext)
        BY <2>2, <2>6, SplitOpen DEF ShowAs, TypeOK, Instances, Panes
      <3>2. queued'[Label(p)] = read.file.ext
        BY <1>2, <2>2, <2>6 DEF LoadOk, TypeOK, States, TextState, Label
      <3>. QED
        BY <2>1, <3>1, <3>2 DEF SplitHighlighted, InSplit
    <2>. QED
      BY <2>2, <2>4, <2>5, <2>6
  <1>. QED
    BY <1>1, <1>2

\* All steps: a switch, a callback, or one that keeps what is highlighted.
LEMMA NextHighlights ==
    ASSUME TypeOK, EditorsMatchMode, [Next]_vars
    PROVE  \/ HighlightStep
           \/ ToggleDiff \/ \E v \in {"split", "git"} : SetView(v)
           \/ \E read \in reads : LoadOk(read) \/ LoadError(read)
  <1>1. CASE \E c \in Contexts, f \in Formats : ChangeFormat(c, f)
    BY <1>1, ChangeFormatHighlights
  <1>2. CASE Render \/ \E f \in Formats : SetGitFormat(f)
    BY <1>2, SyncHighlights
  <1>3. CASE HighlightKept
    BY <1>3, KeptHighlight
  <1>4. CASE UNCHANGED vars
    BY <1>4 DEF vars, HighlightStep, GitHighlightMatchesLabel, SplitHighlighted,
       InSplit, InGit
  <1>. QED
    BY <1>1, <1>2, <1>3, <1>4, PlainClickKeepsHighlight DEF Next

\* In the git view both models are always highlighted in the language of their
\* labels, whatever uploads, begun in whatever mode and view and rendered however
\* late, set the labels.
THEOREM GitHighlightFollowsLabels == Spec => []GitHighlightMatchesLabel
  <1>1. Init => GitHighlightMatchesLabel
    BY DEF Init, GitHighlightMatchesLabel, InGit
  <1>2. TypeOK /\ EditorsMatchMode /\ GitHighlightMatchesLabel /\ [Next]_vars
           => GitHighlightMatchesLabel'
    BY NextHighlights, SwitchHighlights, LoadHighlights DEF HighlightStep
  <1>. QED
    BY <1>1, <1>2, TypeCorrect, EditorsFollowModes, PTL DEF Spec

\* An editor of the split view that is highlighted in the language of its label
\* stays so, but for a switch before the label of an upload is rendered and an
\* upload to the main panel that lands in the left editor.
THEOREM SplitHighlightsKept == Spec => SplitKeepsHighlight
  <1>. DEFINE Kept ==
         \A p \in {"json", "diff"} :
            SplitHighlighted(p) /\ ~SplitHighlighted(p)' =>
               \/ /\ view[Label(p)] # queued[Label(p)]
                  /\ isDiffMode' # isDiffMode \/ diffViewMode' # diffViewMode
               \/ /\ p = "json"
                  /\ \E read \in reads \ reads' : read.target = "main" /\ ~read.inDiff
  <1>1. TypeOK /\ EditorsMatchMode /\ [Next]_vars => Kept
    <2>. SUFFICES ASSUME TypeOK, EditorsMatchMode, [Next]_vars PROVE Kept
      OBVIOUS
    <2>1. CASE HighlightStep
      BY <2>1 DEF HighlightStep
    <2>2. CASE ToggleDiff \/ \E v \in {"split", "git"} : SetView(v)
      BY <2>2, SwitchHighlights
    <2>3. ASSUME NEW read \in reads, LoadOk(read) \/ LoadError(read) PROVE Kept
      <3>1. read \in reads \ reads'
        BY <2>3 DEF LoadOk, LoadError
      <3>. QED
        BY <2>3, <3>1, LoadHighlights
    <2>. QED
      BY <2>1, <2>2, <2>3, NextHighlights
  <1>. QED
    BY <1>1, TypeCorrect, EditorsFollowModes, PTL DEF Spec, SplitKeepsHighlight

----------------------------------------------------------------------------
(* Editors show the state *)

SidePanes == {"json", "diff"}

\* A handler that gives one editor and its state the same text ...
Wrote(p, t) ==
    /\ IsOpen(p) => editors'[p].text = t
    /\ queued'[TextState(p)] = t
    /\ \A q \in SidePanes : q # p => editors'[q].text = editors[q].text
    /\ \A q \in SidePanes : TextState(q) # TextState(p) =>
                              queued'[TextState(q)] = queued[TextState(q)]

\* ... or leaves both alone.
TextsKept ==
    \A q \in SidePanes : /\ editors'[q].text = editors[q].text
                         /\ queued'[TextState(q)] = queued[TextState(q)]

LEMMA WroteShown ==
    ASSUME ShownIsState, PlacesKept, NEW t, NEW p \in Panes, Wrote(p, t),
           p \in SidePanes \/ \A q \in SidePanes : ~IsOpen(q)
    PROVE  ShownIsState'
  <1>1. \A q \in SidePanes : IsOpen(q)' => IsOpen(q) /\ p \in SidePanes
    BY DEF PlacesKept, IsOpen, SidePanes, Panes
  <1>2. CASE p = "json"
    <2>1. /\ IsOpen("json") => editors'["json"].text = t
          /\ queued'.jsonText = t
          /\ editors'["diff"].text = editors["diff"].text
          /\ queued'.diffText = queued.diffText
      BY <1>2 DEF Wrote, SidePanes, TextState
    <2>. QED
      BY <1>1, <2>1 DEF ShownIsState, SidePanes
  <1>3. CASE p = "diff"
    <2>1. /\ IsOpen("diff") => editors'["diff"].text = t
          /\ queued'.diffText = t
          /\ editors'["json"].text = editors["json"].text
          /\ queued'.jsonText = queued.jsonText
      BY <1>3 DEF Wrote, SidePanes, TextState
    <2>2. editors'["json"].host = editors["json"].host
      BY DEF PlacesKept, Panes
    <2>. QED
      BY <1>1, <2>1, <2>2 DEF ShownIsState, SidePanes
  <1>4. CASE p \notin SidePanes
    BY <1>1, <1>4 DEF ShownIsState, SidePanes
  <1>. QED
    BY <1>2, <1>3, <1>4 DEF SidePanes

LEMMA KeptShown ==
    ASSUME ShownIsState, PlacesKept, TextsKept PROVE ShownIsState'
  <1>1. /\ editors'["json"].host = editors["json"].host
        /\ editors'["diff"].host = editors["diff"].host
    BY DEF PlacesKept, Panes
  <1>2. /\ editors'["json"].text = editors["json"].text
        /\ editors'["diff"].text = editors["diff"].text
        /\ queued'.jsonText = queued.jsonText
        /\ queued'.diffText = queued.diffText
    BY DEF TextsKept, SidePanes, TextState
  <1>. QED
    BY <1>1, <1>2 DEF ShownIsState, IsOpen

LEMMA RewriteWrites ==
    ASSUME TypeOK, NEW p \in Panes, NEW t, Rewrite(p, t) PROVE Wrote(p, t)
  <1>1. queued' = [queued EXCEPT ![TextState(p)] = t]
    BY DEF Rewrite, Set
  <1>2. queued'[TextState(p)] = t
    BY <1>1 DEF TypeOK, States, TextState
  <1>3. \A q \in SidePanes : TextState(q) # TextState(p) =>
                              queued'[TextState(q)] = queued[TextState(q)]
    BY <1>1 DEF TypeOK, States, TextState
  <1>4. editors' = IF IsOpen(p) THEN [editors EXCEPT ![p].text = t] ELSE editors
    BY DEF Rewrite, Show
  <1>5. IsOpen(p) => editors'[p].text = t
    BY <1>4 DEF TypeOK, Instances
  <1>6. \A q \in SidePanes : q # p => editors'[q].text = editors[q].text
    BY <1>4 DEF TypeOK, SidePanes, Panes
  <1>. QED
    BY <1>2, <1>3, <1>5, <1>6 DEF Wrote

LEMMA ShowAsWrites ==
    ASSUME TypeOK, NEW p \in SidePanes, NEW l \in Labels, NEW t, NEW f,
           editors' = ShowAs(p, t, f),
           queued' = [queued EXCEPT ![l] = f, ![TextState(p)] = t]
    PROVE  Wrote(p, t)
  <1>1. queued'[TextState(p)] = t
    BY DEF TypeOK, States, TextState
  <1>2. \A q \in SidePanes : TextState(q) # TextState(p) =>
                              queued'[TextState(q)] = queued[TextState(q)]
    BY DEF TypeOK, States, TextState, Labels
  <1>3. IsOpen(p) => editors'[p].text = t
    BY DEF ShowAs, TypeOK, Instances, SidePanes, Panes
  <1>4. \A q \in SidePanes : q # p => editors'[q].text = editors[q].text
    BY DEF ShowAs, TypeOK, SidePanes, Panes
  <1>. QED
    BY <1>1, <1>2, <1>3, <1>4 DEF Wrote

LEMMA ChangeFormatShown ==
    ASSUME TypeOK, ShownIsState, NEW c \in Contexts, NEW to \in Formats,
           ChangeFormat(c, to), PlacesKept
    PROVE  ShownIsState'
  <1>1. PaneIn(c) \in SidePanes /\ PaneIn(c) \in Panes /\ LabelIn(c) \in Labels
    BY ContextType DEF SidePanes, Panes
  <1>2. CASE Relabel(c, to)
    <2>1. \A q \in SidePanes : queued'[TextState(q)] = queued[TextState(q)]
      BY <1>1, <1>2 DEF Relabel, Set, TypeOK, States, TextState, Labels
    <2>2. \A q \in SidePanes : editors'[q].text = editors[q].text
      BY <1>1, <1>2 DEF Relabel, TypeOK, Instances, SidePanes, Panes
    <2>. QED
      BY <2>1, <2>2, KeptShown DEF TextsKept
  <1>3. CASE Convert(c, to)
    <2>1. PICK t : /\ editors' = ShowAs(PaneIn(c), t, to)
                   /\ Set2(LabelIn(c), to, TextState(PaneIn(c)), t)
      BY <1>3 DEF Convert
    <2>. QED
      BY <1>1, <2>1, ShowAsWrites, WroteShown DEF Set2
  <1>4. CASE ConvertFails(c, to)
    BY <1>4, KeptShown DEF ConvertFails, TextsKept
  <1>. QED
    BY <1>2, <1>3, <1>4 DEF ChangeFormat

LEMMA RewriteShown ==
    ASSUME TypeOK, ShownIsState, PlacesKept, NEW p \in SidePanes, NEW t,
           Rewrite(p, t)
    PROVE  ShownIsState'
  BY RewriteWrites, WroteShown DEF SidePanes, Panes

\* Typing into a git model writes its text behind no other editor.
LEMMA EditShown ==
    ASSUME TypeOK, EditorsMatchMode, ShownIsState, PlacesKept, NEW p \in Panes,
           NEW t, Edit(p, t)
    PROVE  ShownIsState'
  <1>1. Rewrite(p, t) /\ IsOpen(p)
    BY DEF Edit, Rewrite
  <1>2. CASE p \in SidePanes
    BY <1>1, <1>2, RewriteShown
  <1>3. CASE p \notin SidePanes
    <2>1. InGit
      BY <1>1, <1>3 DEF EditorsMatchMode, IsOpen, InGit, SidePanes, Panes, PanesOf,
                        TypeOK
    <2>2. \A q \in SidePanes : ~IsOpen(q)
      BY <2>1 DEF EditorsMatchMode, IsOpen, InGit, SidePanes, Panes, PanesOf,
                  GitPanes
    <2>. QED
      BY <1>1, <2>2, RewriteWrites, WroteShown
  <1>. QED
    BY <1>2, <1>3

LEMMA SwitchShown ==
    ASSUME TypeOK, ToggleDiff \/ \E v \in {"split", "git"} : SetView(v)
    PROVE  ShownIsState'
  <1>. DEFINE d == isDiffMode'
              v == diffViewMode'
              e == Effects(Dispose(editors, Panes), d, v, view)
  <1>1. /\ d \in BOOLEAN /\ v \in {"split", "git"}
        /\ editors' = e /\ UNCHANGED <<view, queued>>
        /\ PromptRender => view = queued
    BY DEF ToggleDiff, SetView, Settled, TypeOK
  <1>. HIDE DEF d, v
  <1>2. \A p \in SidePanes :
           /\ d /\ v = "split" => e[p] = NewPane(p, view)
           /\ d /\ v = "git" => e[p] = Closed
           /\ ~d /\ p = "diff" => e[p] = Closed
    BY <1>1, EffectsFromScratch DEF SidePanes, Panes, PanesOf, GitPanes
  <1>3. ~d => /\ e["json"].host = "main"
              /\ e["json"].text = IF view.jsonText = Empty THEN Sample
                                                           ELSE view.jsonText
    BY <1>1, EffectsFromScratch DEF Panes
  <1>. HIDE DEF e
  <1>4. /\ NewPane("json", view).text = view.jsonText
        /\ NewPane("diff", view).text = view.diffText
        /\ Closed.host = "none"
    BY DEF NewPane, Closed, TextState
  <1>5. CASE d /\ v = "split"
    BY <1>1, <1>2, <1>4, <1>5 DEF ShownIsState, IsOpen, SidePanes
  <1>6. CASE d /\ v = "git"
    BY <1>1, <1>2, <1>4, <1>6 DEF ShownIsState, IsOpen, SidePanes
  <1>7. CASE ~d
    BY <1>1, <1>2, <1>3, <1>4, <1>7 DEF ShownIsState, IsOpen, SidePanes
  <1>. QED
    BY <1>1, <1>5, <1>6, <1>7

LEMMA LoadShown ==
    ASSUME TypeOK, ShownIsState, PlacesKept, NEW read \in reads,
           LoadOk(read) \/ LoadError(read)
    PROVE  ShownIsState'
  <1>1. CASE LoadError(read)
    BY <1>1, KeptShown DEF LoadError, TextsKept
  <1>2. CASE LoadOk(read)
    <2>. DEFINE p == IF read.target = "main" THEN "json" ELSE "diff"
                l == CASE read.target = "diff" -> "rightFormat"
                       [] read.target = "main" /\ read.inDiff -> "leftFormat"
                       [] OTHER -> "dataFormat"
    <2>1. p \in SidePanes /\ p \in Panes
      BY DEF SidePanes, Panes
    <2>2. l \in Labels
      BY DEF Labels, TypeOK, Reads
    <2>3. /\ editors' = ShowAs(p, read.file.text, read.file.ext)
          /\ queued' = [queued EXCEPT ![l] = read.file.ext,
                                      ![TextState(p)] = read.file.text]
      BY <1>2 DEF LoadOk
    <2>. HIDE DEF p, l
    <2>. QED
      BY <2>1, <2>2, <2>3, ShowAsWrites, WroteShown
  <1>. QED
    BY <1>1, <1>2

LEMMA SyncShown ==
    ASSUME TypeOK, EditorsMatchMode, ShownIsState, PlacesKept,
           Render \/ \E f \in Formats : SetGitFormat(f)
    PROVE  ShownIsState'
  <1>1. CASE Render
    <2>1. \A q \in SidePanes : editors'[q].text = editors[q].text
      BY <1>1 DEF Render, SyncGit, SidePanes, Panes, GitPanes
    <2>. QED
      BY <1>1, <2>1, KeptShown DEF Render, TextsKept
  <1>2. ASSUME NEW f \in Formats, SetGitFormat(f) PROVE ShownIsState'
    <2>1. ~IsOpen("json") /\ ~IsOpen("diff")
      BY <1>2 DEF SetGitFormat, InGit, EditorsMatchMode, IsOpen, PanesOf, Panes,
                  GitPanes
    <2>. QED
      BY <2>1 DEF PlacesKept, ShownIsState, IsOpen, Panes
  <1>. QED
    BY <1>1, <1>2

LEMMA ClickShown ==
    ASSUME TypeOK, EditorsMatchMode, ShownIsState, PlacesKept, Click,
           ~ToggleDiff, ~ \E v \in {"split", "git"} : SetView(v),
           ~ \E f \in Formats : SetGitFormat(f)
    PROVE  ShownIsState'
  <1>1. ASSUME UNCHANGED <<queued, editors>> PROVE ShownIsState'
    BY <1>1, KeptShown DEF TextsKept
  <1>2. CASE FormatMain \/ JsonTool \/ ClearMain
    <2>1. (\E t : Rewrite("json", t)) \/ UNCHANGED <<view, queued, editors>>
      BY <1>2 DEF FormatMain, FormatUnparsed, JsonTool, ClearMain, Fails
    <2>. QED
      BY <1>1, <2>1, RewriteShown DEF SidePanes
  <1>3. ASSUME NEW p \in {"json", "diff"}, FormatSide(p) \/ ClearSide(p)
        PROVE  ShownIsState'
    BY <1>3, RewriteShown DEF FormatSide, ClearSide, SidePanes
  <1>4. CASE PerformDiff
    BY <1>1, <1>4 DEF PerformDiff
  <1>5. ASSUME NEW file \in Files, NEW target \in {"main", "diff"},
               ChooseFile(file, target)
        PROVE  ShownIsState'
    BY <1>1, <1>5 DEF ChooseFile
  <1>. QED
    BY <1>2, <1>3, <1>4, <1>5, EditShown, ChangeFormatShown DEF Click

\* When uploads are rendered promptly, what the editors of the main panel and of
\* the split view show is what the state holds: the next conversion, comparison
\* or switch works on the text the user sees.
THEOREM ShownFollowsState == Spec => []ShownIsState
  <1>1. Init => ShownIsState
    <2>. SUFFICES ASSUME Init PROVE ShownIsState
      OBVIOUS
    <2>1. editors = [[p \in Panes |-> Closed] EXCEPT !["json"] =
                       [host |-> "main", lang |-> "json",
                        text |-> IF view.jsonText = Empty THEN Sample
                                                          ELSE view.jsonText]]
      BY DEF Init, InitMain, Closed, Panes
    <2>2. /\ editors["json"].text = IF view.jsonText = Empty THEN Sample
                                                             ELSE view.jsonText
          /\ editors["json"].host = "main" /\ editors["diff"].host = "none"
      BY <2>1 DEF Panes, Closed
    <2>. QED
      BY <2>2 DEF Init, ShownIsState, IsOpen
  <1>2. TypeOK /\ EditorsMatchMode /\ ShownIsState /\ [Next]_vars => ShownIsState'
    <2>. SUFFICES ASSUME TypeOK, EditorsMatchMode, ShownIsState, [Next]_vars
                  PROVE  ShownIsState'
      OBVIOUS
    <2>1. CASE ToggleDiff \/ \E v \in {"split", "git"} : SetView(v)
      BY <2>1, SwitchShown
    <2>2. CASE Next /\ ~ToggleDiff /\ ~ \E v \in {"split", "git"} : SetView(v)
      <3>1. PlacesKept
        BY <2>2, ModesChange, NextKeepsPlaces
      <3>2. CASE Render \/ \E f \in Formats : SetGitFormat(f)
        BY <3>1, <3>2, SyncShown
      <3>3. CASE \E read \in reads : LoadOk(read) \/ LoadError(read)
        BY <3>1, <3>3, LoadShown
      <3>. QED
        BY <2>2, <3>1, <3>2, <3>3, ClickShown DEF Next
    <2>3. CASE UNCHANGED vars
      BY <2>3 DEF vars, ShownIsState, IsOpen
    <2>. QED
      BY <2>1, <2>2, <2>3
  <1>. QED
    BY <1>1, <1>2, TypeCorrect, EditorsFollowModes, PTL DEF Spec

----------------------------------------------------------------------------
(* Switching keeps the texts *)

\* Before a switch, what the user sees is what the state holds.
LEMMA SeenIsState ==
    ASSUME TypeOK, EditorsMatchMode, ShownIsState, PromptRender, view = queued,
           ~BehindGit
    PROVE  /\ view.jsonText # Empty => LeftSeen = view.jsonText
           /\ RightSeen = view.diffText
  <1>1. CASE InGit
    BY <1>1 DEF BehindGit
  <1>2. CASE InSplit
    <2>1. IsOpen("json") /\ IsOpen("diff") /\ editors["json"].host = "left"
      BY <1>2 DEF InSplit, EditorsMatchMode, IsOpen, PanesOf, Panes, DiffHost
    <2>2. ~InGit
      BY <1>2 DEF InSplit, InGit
    <2>. QED
      BY <1>2, <2>1, <2>2 DEF ShownIsState, LeftSeen, RightSeen
  <1>3. CASE ~isDiffMode
    <2>1. IsOpen("json") /\ ~InGit /\ ~InSplit
      BY <1>3 DEF EditorsMatchMode, IsOpen, Panes, InGit, InSplit
    <2>. QED
      BY <2>1 DEF ShownIsState, LeftSeen, RightSeen
  <1>. QED
    BY <1>1, <1>2, <1>3 DEF InGit, InSplit, TypeOK

\* After it, every editor was made from that state.
LEMMA SeenAfterSwitch ==
    ASSUME TypeOK, ToggleDiff \/ \E v \in {"split", "git"} : SetView(v)
    PROVE  /\ view.jsonText # Empty => LeftSeen' = view.jsonText
           /\ RightSeen' = view.diffText
  <1>. DEFINE d == isDiffMode'
              v == diffViewMode'
              e == Effects(Dispose(editors, Panes), d, v, view)
  <1>1. /\ d \in BOOLEAN /\ v \in {"split", "git"}
        /\ editors' = e /\ view' = view
    BY DEF ToggleDiff, SetView, TypeOK
  <1>2. /\ LeftSeen' = IF d /\ v = "git" THEN editors'["original"].text
                                         ELSE editors'["json"].text
        /\ d /\ v = "git" => RightSeen' = editors'["modified"].text
        /\ d /\ v = "split" => RightSeen' = editors'["diff"].text
        /\ ~d => RightSeen' = view'.diffText
    BY DEF LeftSeen, RightSeen, InGit, InSplit
  <1>. HIDE DEF d, v
  <1>3. /\ NewPane("json", view).text = view.jsonText
        /\ NewPane("diff", view).text = view.diffText
        /\ NewPane("original", view).text = view.jsonText
        /\ NewPane("modified", view).text = view.diffText
    BY DEF NewPane, TextState
  <1>4. \A p \in Panes : d /\ p \in PanesOf(v) => e[p] = NewPane(p, view)
    BY <1>1, EffectsFromScratch
  <1>5. ~d => e["json"].text = IF view.jsonText = Empty THEN Sample
                                                        ELSE view.jsonText
    BY <1>1, EffectsFromScratch DEF Panes
  <1>. HIDE DEF e
  <1>6. CASE d /\ v = "git"
    BY <1>1, <1>2, <1>3, <1>4, <1>6 DEF Panes, PanesOf, GitPanes
  <1>7. CASE d /\ v = "split"
    BY <1>1, <1>2, <1>3, <1>4, <1>7 DEF Panes, PanesOf
  <1>8. CASE ~d
    BY <1>1, <1>2, <1>5, <1>8
  <1>. QED
    BY <1>1, <1>6, <1>7, <1>8

\* No switch of mode or view, however often the editors are disposed and made
\* again, changes the texts the user sees, but for the two exceptions of
\* SwitchKeepsTexts.
THEOREM SwitchesKeepTexts == Spec => SwitchKeepsTexts
  <1>. DEFINE Switched == isDiffMode' # isDiffMode \/ diffViewMode' # diffViewMode
              Kept == /\ view.jsonText # Empty => LeftSeen' = LeftSeen
                      /\ RightSeen' = RightSeen
  <1>1. TypeOK /\ EditorsMatchMode /\ ShownIsState /\ [Next]_vars
          => (PromptRender /\ ~BehindGit /\ Switched => Kept)
    <2>. SUFFICES ASSUME TypeOK, EditorsMatchMode, ShownIsState, [Next]_vars,
                         PromptRender, ~BehindGit, Switched
                  PROVE  Kept
      OBVIOUS
    <2>1. ToggleDiff \/ \E v \in {"split", "git"} : SetView(v)
      BY ModesChange DEF vars
    <2>2. view = queued
      BY <2>1 DEF ToggleDiff, SetView, Settled
    <2>. QED
      BY <2>1, <2>2, SeenIsState, SeenAfterSwitch
  <1>. QED
    BY <1>1, TypeCorrect, EditorsFollowModes, ShownFollowsState, PTL
       DEF Spec, SwitchKeepsTexts

----------------------------------------------------------------------------
(* The two copies of the state implement module Rendering *)

AnyState == Labels \cup TextStates

\* Setting a hook to a value of its own is one of its updates.
LEMMA SettingIsAct ==
    ASSUME NEW x \in AnyState, NEW old \in DomainOf(x), NEW new \in DomainOf(x)
    PROVE  \E a \in {[o \in DomainOf(x) |-> n] : n \in DomainOf(x)} : a[old] = new
  <1>1. [o \in DomainOf(x) |-> new] \in {[o \in DomainOf(x) |-> n] : n \in DomainOf(x)}
    OBVIOUS
  <1>2. [o \in DomainOf(x) |-> new][old] = new
    OBVIOUS
  <1>. QED
    BY <1>1, <1>2

\* A hook of a well-formed state holds a value of its own.
LEMMA HookTypes ==
    ASSUME NEW s \in States, NEW x \in AnyState PROVE s[x] \in DomainOf(x)
  BY DEF States, AnyState, Labels, TextStates, DomainOf

\* What a step of React may do to one hook.
ShownToo(x) ==
    \/ view'[x] = view[x] /\ queued'[x] = queued[x]
    \/ view'[x] = queued'[x]

LEMMA PromptStep ==
    ASSUME TypeOK, TypeOK', \A x \in AnyState : ShownToo(x)
    PROVE  Rendered!Prompt
  <1> SUFFICES ASSUME NEW x \in AnyState
               PROVE  \/ view'[x] = view[x] /\ queued'[x] = queued[x]
                      \/ \E a \in {[o \in DomainOf(x) |-> n] : n \in DomainOf(x)} :
                            view'[x] = a[view[x]] /\ queued'[x] = a[queued[x]]
    BY DEF Rendered!Prompt, AnyState
  <1>1. CASE view'[x] = view[x] /\ queued'[x] = queued[x]
    BY <1>1
  <1>2. CASE view'[x] = queued'[x]
    <2>1. {view[x], queued[x], view'[x]} \subseteq DomainOf(x)
      BY HookTypes DEF TypeOK
    <2> DEFINE a == [o \in DomainOf(x) |-> view'[x]]
    <2>2. a \in {[o \in DomainOf(x) |-> n] : n \in DomainOf(x)}
      BY <2>1
    <2>3. a[view[x]] = view'[x] /\ a[queued[x]] = queued'[x]
      BY <1>2, <2>1
    <2> QED
      BY <2>2, <2>3
  <1> QED
    BY <1>1, <1>2 DEF ShownToo

LEMMA LaterStep ==
    ASSUME TypeOK, TypeOK', view' = view PROVE Rendered!Later
  <1> SUFFICES ASSUME NEW x \in AnyState
               PROVE  \E a \in {[o \in DomainOf(x) |-> n] : n \in DomainOf(x)} :
                         queued'[x] = a[queued[x]]
    BY DEF Rendered!Later, AnyState
  <1>1. queued[x] \in DomainOf(x) /\ queued'[x] \in DomainOf(x)
    BY HookTypes DEF TypeOK
  <1> QED
    BY <1>1, SettingIsAct

LEMMA SetStep ==
    ASSUME TypeOK, TypeOK', NEW x, NEW v, Set(x, v) PROVE Rendered!Prompt
  <1>1. \A y \in AnyState : ShownToo(y)
    BY DEF Set, TypeOK, States, ShownToo, AnyState, Labels, TextStates
  <1> QED
    BY <1>1, PromptStep

LEMMA Set2Step ==
    ASSUME TypeOK, TypeOK', NEW x, NEW v, NEW y, NEW w, Set2(x, v, y, w)
    PROVE  Rendered!Prompt
  <1>1. \A z \in AnyState : ShownToo(z)
    BY DEF Set2, TypeOK, States, ShownToo, AnyState, Labels, TextStates
  <1> QED
    BY <1>1, PromptStep

LEMMA ClickStep == ASSUME TypeOK, TypeOK', Click PROVE Rendered!Prompt \/ Rendered!Later
  <1>1. CASE view' = view
    BY <1>1, LaterStep
  <1>2. CASE ToggleDiff \/ (\E v \in {"split", "git"} : SetView(v)) \/ PerformDiff
             \/ \E file \in Files, target \in {"main", "diff"} : ChooseFile(file, target)
    BY <1>1, <1>2 DEF ToggleDiff, SetView, PerformDiff, ChooseFile
  <1>3. CASE \E p \in Panes, t \in Typed : Edit(p, t)
    BY <1>3, SetStep DEF Edit
  <1>4. CASE \E c \in Contexts, f \in Formats : ChangeFormat(c, f)
    <2>1. PICK c \in Contexts, f \in Formats :
              Relabel(c, f) \/ Convert(c, f) \/ ConvertFails(c, f)
      BY <1>4 DEF ChangeFormat
    <2>2. CASE Relabel(c, f)
      BY <2>2, SetStep DEF Relabel
    <2>3. CASE Convert(c, f)
      BY <2>3, Set2Step DEF Convert
    <2>4. CASE ConvertFails(c, f)
      BY <1>1, <2>4 DEF ConvertFails
    <2> QED
      BY <2>1, <2>2, <2>3, <2>4
  <1>5. CASE \E f \in Formats : SetGitFormat(f)
    BY <1>5, Set2Step DEF SetGitFormat
  <1>6. ASSUME NEW p, NEW t, Rewrite(p, t) PROVE Rendered!Prompt
    BY <1>6, SetStep DEF Rewrite
  <1>7. CASE FormatMain \/ JsonTool \/ ClearMain
    BY <1>1, <1>6, <1>7 DEF FormatMain, FormatUnparsed, JsonTool, ClearMain, Fails
  <1>8. CASE \E p \in {"json", "diff"} : FormatSide(p) \/ ClearSide(p)
    BY <1>6, <1>8 DEF FormatSide, ClearSide
  <1> QED
    BY <1>2, <1>3, <1>4, <1>5, <1>7, <1>8 DEF Click

LEMMA NextStep ==
    TypeOK /\ TypeOK' /\ [Next]_vars => [Rendered!Next]_<<view, queued>>
  <1> SUFFICES ASSUME TypeOK, TypeOK', [Next]_vars
               PROVE  [Rendered!Next]_<<view, queued>>
    OBVIOUS
  <1>1. CASE Click
    BY <1>1, ClickStep DEF Rendered!Next
  <1>2. CASE \E read \in reads : LoadOk(read) \/ LoadError(read)
    <2>1. view' = view
      BY <1>2 DEF LoadOk, LoadError
    <2> QED
      BY <2>1, LaterStep DEF Rendered!Next
  <1>3. CASE Render
    BY <1>3 DEF Render, Rendered!Next, Rendered!Render
  <1>4. CASE UNCHANGED vars
    BY <1>4 DEF vars
  <1> QED
    BY <1>1, <1>2, <1>3, <1>4 DEF Next

\* However clicks and uploads come, the state of the page behaves as the hooks of
\* module Rendering do, which React was checked to provide.
THEOREM ImplementsRendering == Spec => UpdatesAsReact
  <1>1. Init => Rendered!Init
    BY DEF Init, Rendered!Init
  <1> QED
    BY <1>1, NextStep, TypeCorrect, PTL DEF Spec, UpdatesAsReact, Rendered!Spec

----------------------------------------------------------------------------
(* What is not JSON and labelled JSON *)

\* The JSON reader refuses it, so a selector can only correct the label.
LEMMA UnreadableOnlyRelabelled ==
    ASSUME NEW c \in Contexts, NEW f \in Formats, ChangeFormat(c, f),
           view[LabelIn(c)] = "json",
           Content(PaneIn(c)) # Empty, Content(PaneIn(c)).syn # "json",
           TypeOK
    PROVE  Relabel(c, f)
  <1>1. Content(PaneIn(c)) \in Texts
    BY ContentType DEF PaneIn, Panes
  <1>2. Content(PaneIn(c)).syn \in Formats
    BY <1>1 DEF Texts
  <1>3. Reader(Content(PaneIn(c)).syn) # Reader("json")
    BY <1>2 DEF Reader
  <1>4. Parse(Content(PaneIn(c)), "json") = {}
    BY <1>3 DEF Parse
  <1>5. OnlyRelabels(Content(PaneIn(c)), view[LabelIn(c)], f)
    BY <1>4 DEF OnlyRelabels
  <1> QED
    BY <1>5 DEF ChangeFormat, Convert, ConvertFails

LEMMA RelabelKeepsText ==
    ASSUME NEW c \in Contexts, NEW f \in Formats, Relabel(c, f), TypeOK
    PROVE  editors'[PaneIn(c)].text = editors[PaneIn(c)].text
  <1>1. PaneIn(c) \in Panes /\ editors \in [Panes -> Instances]
    BY DEF PaneIn, Panes, TypeOK
  <1>2. CASE IsOpen(PaneIn(c))
    BY <1>1, <1>2 DEF Relabel, Instances
  <1>3. CASE ~IsOpen(PaneIn(c))
    BY <1>3 DEF Relabel
  <1> QED
    BY <1>2, <1>3

\* However the label JSON came to a text that is not JSON, by an upload, an
\* edit or a failed conversion, choosing another format never rewrites the text.
THEOREM UnreadableTextsKept == Spec => UnreadableTextKept
  <1> DEFINE Kept ==
        \A c \in Contexts, f \in Formats :
          ChangeFormat(c, f) /\ view[LabelIn(c)] = "json"
              /\ Content(PaneIn(c)) # Empty /\ Content(PaneIn(c)).syn # "json"
          => editors'[PaneIn(c)].text = editors[PaneIn(c)].text
  <1>1. TypeOK => Kept
    BY UnreadableOnlyRelabelled, RelabelKeepsText
  <1>2. TypeOK /\ [Next]_vars => [Kept]_vars
    BY <1>1
  <1> QED
    BY <1>2, TypeCorrect, PTL DEF Spec, UnreadableTextKept
=============================================================================
