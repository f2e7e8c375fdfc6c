-------------------------- MODULE CodePanel_proofs --------------------------
(* Proofs about CodePanel, for all languages, codes and numbers of timers. *)
EXTENDS CodePanel, TLAPS

\* Every editor the actions make is well-formed.
LEMMA EditorType ==
    ASSUME TypeOK
    PROVE  LET E == [open : BOOLEAN, text : CodeTexts, lang : Langs]
           IN  /\ Closed \in E /\ NewEditor \in E
               /\ \A c \in CodeTexts : ShowCode(codeEditor, c) \in E
               /\ \A e \in E, gen \in BOOLEAN, c \in CodeTexts :
                     SyncCode(e, gen, c) \in E
  BY CodePanelAssumption
     DEF TypeOK, Closed, NewEditor, ShowCode, SyncCode, CodeTexts

\* The timers are bounded and carry generated code only.
LEMMA TimersType ==
    ASSUME TypeOK, Next
    PROVE  timers' \in Seq(Codes) /\ Len(timers') <= MaxTimers
  <1>1. CASE UNCHANGED timers
    BY <1>1 DEF TypeOK
  <1>2. CASE ToggleCodeGen
    <2>1. CASE ~isCodeGenMode /\ generatedCode # NoCode /\ codeEditor.open
      <3>1. Len(timers) < MaxTimers /\ timers' = Append(timers, generatedCode)
        BY <1>2, <2>1 DEF ToggleCodeGen
      <3>2. generatedCode \in Codes /\ timers \in Seq(Codes) /\ MaxTimers \in Nat
        BY <2>1, CodePanelAssumption DEF TypeOK
      <3>. QED
        BY <3>1, <3>2
    <2>2. CASE ~(~isCodeGenMode /\ generatedCode # NoCode /\ codeEditor.open)
      BY <1>1, <1>2, <2>2 DEF ToggleCodeGen
    <2>. QED
      BY <2>1, <2>2
  <1>3. CASE TimerFires
    <2>1. timers \in Seq(Codes) /\ timers # <<>> /\ timers' = Tail(timers)
          /\ Len(timers) <= MaxTimers /\ MaxTimers \in Nat
      BY <1>3, CodePanelAssumption DEF TimerFires, TypeOK
    <2>. QED
      BY <2>1
  <1>. QED
    BY <1>1, <1>2, <1>3
       DEF Next, UserAct, ToggleDiff, Generate, Clear, EditCode, SelectLang

\* Every reachable state of the code panel is well-formed.
THEOREM CodeTypeCorrect == Spec => []TypeOK
  <1>1. Init => TypeOK
    <2>. SUFFICES ASSUME Init PROVE TypeOK
      OBVIOUS
    <2>1. timers \in Seq(Codes) /\ Len(timers) <= MaxTimers
      BY CodePanelAssumption DEF Init
    <2>2. codeEditor \in [open : BOOLEAN, text : CodeTexts, lang : Langs]
      BY CodePanelAssumption DEF Init, NewEditor, CodeTexts
    <2>. QED
      BY <2>1, <2>2, CodePanelAssumption DEF Init, TypeOK
  <1>2. TypeOK /\ [Next]_vars => TypeOK'
    <2>. SUFFICES ASSUME TypeOK, [Next]_vars PROVE TypeOK'
      OBVIOUS
    <2>. DEFINE E == [open : BOOLEAN, text : CodeTexts, lang : Langs]
    <2>1. CASE ToggleDiff
      BY <2>1, EditorType DEF ToggleDiff, TypeOK
    <2>2. CASE ToggleCodeGen
      <3>1. generatedCode \in CodeTexts /\ codeEditor \in E
        BY DEF TypeOK, CodeTexts
      <3>2. codeEditor' \in E
        BY <2>2, <3>1, EditorType DEF ToggleCodeGen, TypeOK
      <3>3. timers' \in Seq(Codes) /\ Len(timers') <= MaxTimers
        BY <2>2, TimersType DEF Next, UserAct
      <3>. QED
        BY <2>2, <3>2, <3>3 DEF ToggleCodeGen, TypeOK
    <2>3. CASE TimerFires
      <3>1. Head(timers) \in CodeTexts
        BY <2>3 DEF TimerFires, TypeOK, CodeTexts
      <3>2. timers' \in Seq(Codes) /\ Len(timers') <= MaxTimers
        BY <2>3, TimersType DEF Next
      <3>. QED
        BY <2>3, <3>1, <3>2, EditorType DEF TimerFires, TypeOK
    <2>4. ASSUME NEW c \in Codes, Generate(c) PROVE TypeOK'
      <3>1. c \in CodeTexts
        BY DEF CodeTexts
      <3>. QED
        BY <2>4, <3>1, EditorType DEF Generate, TypeOK
    <2>5. CASE Clear
      BY <2>5, EditorType DEF Clear, TypeOK, CodeTexts
    <2>6. ASSUME NEW t \in Edits, EditCode(t) PROVE TypeOK'
      BY <2>6 DEF EditCode, TypeOK, CodeTexts
    <2>7. ASSUME NEW l \in Langs, SelectLang(l) PROVE TypeOK'
      BY <2>7 DEF SelectLang, TypeOK
    <2>8. CASE UNCHANGED vars
      BY <2>8 DEF vars, TypeOK
    <2>. QED
      BY <2>1, <2>2, <2>3, <2>4, <2>5, <2>6, <2>7, <2>8 DEF Next, UserAct
  <1>. QED
    BY <1>1, <1>2, PTL DEF Spec

\* Comparison and code generation exclude each other, and the code editor is on
\* the page exactly outside the comparison.
THEOREM ModesExclude == Spec => []ModesExclusive
  <1>1. Init => ModesExclusive
    BY DEF Init, ModesExclusive, NewEditor
  <1>2. TypeOK /\ ModesExclusive /\ [Next]_vars => ModesExclusive'
    <2>. SUFFICES ASSUME TypeOK, ModesExclusive, [Next]_vars
                  PROVE  ModesExclusive'
      OBVIOUS
    <2>1. CASE ToggleDiff
      BY <2>1 DEF ToggleDiff, ModesExclusive, TypeOK, NewEditor, Closed
    <2>2. CASE UNCHANGED isDiffMode /\ codeEditor'.open = codeEditor.open
               /\ (isCodeGenMode' => isCodeGenMode \/ ~isDiffMode)
      BY <2>2 DEF ModesExclusive, TypeOK
    <2>3. CASE UserAct /\ ~ToggleDiff
      BY <2>2, <2>3 DEF UserAct, ToggleCodeGen, Generate, Clear, EditCode,
                        SelectLang, SyncCode, ShowCode, TypeOK
    <2>4. CASE TimerFires
      BY <2>2, <2>4 DEF TimerFires, ShowCode, TypeOK
    <2>5. CASE UNCHANGED vars
      BY <2>2, <2>5 DEF vars
    <2>. QED
      BY <2>1, <2>3, <2>4, <2>5 DEF Next
  <1>. QED
    BY <1>1, <1>2, CodeTypeCorrect, PTL DEF Spec

\* Whatever the user does, short of typing over it, the panel that shows the
\* generated code goes on showing it: only a timer started with older code can
\* put another text in its place.
THEOREM StaleTimersOnly == Spec => OnlyStaleTimersDisturb
  <1>. DEFINE Fresh == TimerFires => Head(timers) = generatedCode
              Typing == \E t \in Edits : EditCode(t)
  <1>1. TypeOK /\ ModesExclusive /\ [Next]_vars
          => (CodeShown /\ ~Typing /\ Fresh => CodeShown')
    <2>. SUFFICES ASSUME TypeOK, ModesExclusive, [Next]_vars, CodeShown, ~Typing,
                         Fresh, isCodeGenMode', generatedCode' # NoCode
                  PROVE  codeEditor'.text = generatedCode'
      BY DEF CodeShown
    <2>1. CASE ToggleDiff
      BY <2>1 DEF ToggleDiff, ModesExclusive, TypeOK
    <2>2. CASE ToggleCodeGen
      <3>1. codeEditor.open /\ isCodeGenMode' = ~isCodeGenMode
            /\ UNCHANGED generatedCode
            /\ codeEditor' = SyncCode(codeEditor, ~isCodeGenMode, generatedCode)
        BY <2>2 DEF ToggleCodeGen, ModesExclusive
      <3>. QED
        BY <3>1 DEF SyncCode, TypeOK
    <2>3. CASE TimerFires
      BY <2>3 DEF TimerFires, ShowCode, CodeShown, TypeOK, ModesExclusive
    <2>4. ASSUME NEW c \in Codes, Generate(c) PROVE codeEditor'.text = generatedCode'
      BY <2>4 DEF Generate, ModesExclusive, ShowCode, SyncCode, TypeOK
    <2>5. CASE Clear
      BY <2>5 DEF Clear
    <2>6. ASSUME NEW l \in Langs, SelectLang(l)
          PROVE  codeEditor'.text = generatedCode'
      BY <2>6 DEF SelectLang, CodeShown, TypeOK
    <2>7. CASE UNCHANGED vars
      BY <2>7 DEF vars, CodeShown
    <2>. QED
      BY <2>1, <2>2, <2>3, <2>4, <2>5, <2>6, <2>7 DEF Next, UserAct
  <1>. QED
    BY <1>1, CodeTypeCorrect, ModesExclude, PTL DEF Spec, OnlyStaleTimersDisturb
=============================================================================
