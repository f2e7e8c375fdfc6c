----------------------------- MODULE CodePanel -----------------------------
(***************************************************************************)
(* The code panel of the converter page (static/index.html, function App): *)
(* the switch of the code generation mode, generated code and the editor   *)
(* that shows it.  Generated code is kept twice, as React state and as the *)
(* text of a Monaco editor, and written to the editor from three places:   *)
(* the generate button, an effect on the state, and a timer that the switch*)
(* starts when it is turned on, with the code of that moment.              *)
(***************************************************************************)
EXTENDS Naturals, Sequences

CONSTANTS
    Langs,       \* the languages of LANGUAGE_CONFIG an instance uses
    Codes,       \* the texts a generation may yield, error texts included
    Edits,       \* the texts users may type over the code
    MaxTimers    \* bound: timers pending at a time

NoCode      == "empty"         \* the empty string
Placeholder == "placeholder"   \* what a new code editor shows

CodeTexts == Codes \cup Edits \cup {NoCode, Placeholder}

ASSUME CodePanelAssumption ==
    /\ "go" \in Langs
    /\ NoCode \notin Codes
    /\ MaxTimers \in Nat

VARIABLES
    isDiffMode, isCodeGenMode,
    generatedCode,
    lang,          \* the language selected
    codeEditor,    \* codeEditorInstance: [open, text, lang]
    timers         \* the codes the pending timers were started with, in order

vars == <<isDiffMode, isCodeGenMode, generatedCode, lang, codeEditor, timers>>

Closed    == [open |-> FALSE, text |-> NoCode, lang |-> "go"]
NewEditor == [open |-> TRUE, text |-> Placeholder, lang |-> "go"]

Init ==
    /\ isDiffMode = FALSE
    /\ isCodeGenMode = FALSE
    /\ generatedCode = NoCode
    /\ lang = "go"
    /\ codeEditor = NewEditor
    /\ timers = <<>>

\* Mutant: no effect, the code editor is written by the timer alone.
SyncCodeNever(e, gen, code) == e

\* The effect on generatedCode and isCodeGenMode: the shown code follows.
SyncCode(e, gen, code) ==
    IF e.open /\ gen /\ code # NoCode THEN [e EXCEPT !.text = code] ELSE e

\* model.setValue(c), when there is an editor.
ShowCode(e, c) == IF e.open THEN [e EXCEPT !.text = c] ELSE e

\* Mutant: the comparison leaves code generation as it was.
ToggleDiffAlone ==
    /\ isDiffMode' = ~isDiffMode
    /\ codeEditor' = IF isDiffMode THEN NewEditor ELSE Closed
    /\ UNCHANGED <<isCodeGenMode, generatedCode, lang, timers>>

\* toggleDiffMode: turning the comparison on turns code generation off.  The
\* panel leaves the page with its editor; a new editor comes back with it.
ToggleDiff ==
    /\ isDiffMode' = ~isDiffMode
    /\ isCodeGenMode' = (isCodeGenMode /\ isDiffMode)
    /\ codeEditor' = IF isDiffMode THEN NewEditor ELSE Closed
    /\ UNCHANGED <<generatedCode, lang, timers>>

\* Mutant: the timer is started without looking for code to show.
ToggleCodeGenUnchecked ==
    /\ ~isDiffMode
    /\ Len(timers) < MaxTimers
    /\ isCodeGenMode' = ~isCodeGenMode
    /\ timers' = IF isCodeGenMode THEN timers ELSE Append(timers, generatedCode)
    /\ codeEditor' = SyncCode(codeEditor, ~isCodeGenMode, generatedCode)
    /\ UNCHANGED <<isDiffMode, generatedCode, lang>>

\* toggleCodeGenMode: its switch is on the page outside the comparison only.
\* The effect runs at once; the timer repeats its work later.
ToggleCodeGen ==
    LET on == ~isCodeGenMode
        timed == on /\ generatedCode # NoCode /\ codeEditor.open
    IN  /\ ~isDiffMode
        /\ timed => Len(timers) < MaxTimers
        /\ isCodeGenMode' = on
        /\ timers' = IF timed THEN Append(timers, generatedCode) ELSE timers
        /\ codeEditor' = SyncCode(codeEditor, on, generatedCode)
        /\ UNCHANGED <<isDiffMode, generatedCode, lang>>

\* Mutant: the timer waits for the editor to come back.
TimerWaits ==
    /\ timers # <<>> /\ codeEditor.open
    /\ timers' = Tail(timers)
    /\ codeEditor' = ShowCode(codeEditor, Head(timers))
    /\ UNCHANGED <<isDiffMode, isCodeGenMode, generatedCode, lang>>

\* The callback of the timer.  Without an editor it throws and does nothing.
TimerFires ==
    /\ timers # <<>>
    /\ timers' = Tail(timers)
    /\ codeEditor' = ShowCode(codeEditor, Head(timers))
    /\ UNCHANGED <<isDiffMode, isCodeGenMode, generatedCode, lang>>

\* generateCode, whether it succeeds or yields an error text.
Generate(c) ==
    /\ ~isDiffMode /\ isCodeGenMode
    /\ generatedCode' = c
    /\ codeEditor' = SyncCode(ShowCode(codeEditor, c), isCodeGenMode, c)
    /\ UNCHANGED <<isDiffMode, isCodeGenMode, lang, timers>>

\* clearAll, as far as the code goes.
Clear ==
    /\ ~isDiffMode
    /\ generatedCode' = NoCode
    /\ codeEditor' = ShowCode(codeEditor, NoCode)
    /\ UNCHANGED <<isDiffMode, isCodeGenMode, lang, timers>>

\* The user types in the code editor: the state does not follow.
EditCode(t) ==
    /\ isCodeGenMode /\ codeEditor.open
    /\ codeEditor' = [codeEditor EXCEPT !.text = t]
    /\ UNCHANGED <<isDiffMode, isCodeGenMode, generatedCode, lang, timers>>

\* The language selector and the effect on lang.
SelectLang(l) ==
    /\ isCodeGenMode
    /\ lang # l
    /\ lang' = l
    /\ codeEditor' = IF codeEditor.open THEN [codeEditor EXCEPT !.lang = l]
                                        ELSE codeEditor
    /\ UNCHANGED <<isDiffMode, isCodeGenMode, generatedCode, timers>>

UserAct ==
    \/ ToggleDiff
    \/ ToggleCodeGen
    \/ \E c \in Codes : Generate(c)
    \/ Clear
    \/ \E t \in Edits : EditCode(t)
    \/ \E l \in Langs : SelectLang(l)

Next == UserAct \/ TimerFires

\* Browsers run timers that are due; nobody has to click.
Spec == Init /\ [][Next]_vars /\ WF_vars(TimerFires)

----------------------------------------------------------------------------
TypeOK ==
    /\ isDiffMode \in BOOLEAN
    /\ isCodeGenMode \in BOOLEAN
    /\ generatedCode \in Codes \cup {NoCode}
    /\ lang \in Langs
    /\ codeEditor \in [open : BOOLEAN, text : CodeTexts, lang : Langs]
    /\ timers \in Seq(Codes)
    /\ Len(timers) <= MaxTimers

\* Comparison and code generation are never on together (互斥, 2364 and 3144),
\* and the code editor exists exactly where its panel is on the page.
ModesExclusive ==
    /\ ~(isDiffMode /\ isCodeGenMode)
    /\ codeEditor.open <=> ~isDiffMode

CodeShown == isCodeGenMode /\ generatedCode # NoCode => codeEditor.text = generatedCode

\* The panel, when it is on, shows the generated code: turning it on, leaving
\* the comparison, generating and clearing all keep it so, and only the user's
\* typing or a timer started with an older code can break it.
OnlyStaleTimersDisturb ==
    [][/\ CodeShown
       /\ ~ \E t \in Edits : EditCode(t)
       /\ TimerFires => Head(timers) = generatedCode
       => CodeShown']_vars

\* Once code generation stays off, the timers started while it was on have all
\* run, also when the comparison has taken the editor they meant to write: from
\* then on nothing but the user writes a code editor.
TimersDrain == <>[](~isCodeGenMode) => <>[](timers = <<>>)
=============================================================================
