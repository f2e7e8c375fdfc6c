----------------------------- MODULE Documents -----------------------------
(***************************************************************************)
(* The documents the converter page works on and the pure functions its    *)
(* handlers apply to them (static/index.html).                             *)
(*                                                                         *)
(* A text is what an editor shows.  Two things about it matter: the object *)
(* a reader of its own syntax gets from it, and that syntax.  The label of *)
(* an editor (the format its selector shows) is NOT part of the text: the  *)
(* program keeps it in a state variable of its own, and the two may differ.*)
(* JSON with // comments is JSON: every reader of JSON strips them first.  *)
(***************************************************************************)
EXTENDS Naturals, FiniteSets

CONSTANTS
    Formats,     \* the formats of DATA_FORMATS an instance uses
    Docs,        \* documents users write or upload
    SampleDoc,   \* the document of DEFAULT_JSON
    ComplexDoc,  \* the document of COMPLEX_JSON
    Keeps,       \* <<d, f>>: d written in format f is read back as d
    Bracketed,   \* <<d, f>>: d written in f begins with a bracket, as an INI
                 \* text does whose first line is a "[section]"
    NullDocs     \* documents whose JSON text is the literal null

AllFormats == {"json", "xml", "yaml", "toml", "ini", "text"}

Garbage == "garbage"   \* an object that is not the document that was written
NoDoc   == "nothing"   \* the object {}, or the empty string as a value
Quoted  == "quoted"    \* a string, not empty: the value of an escaped text

Objects == Docs \cup {Garbage, NoDoc, Quoted}

ASSUME DocumentsAssumption ==
    /\ {"json", "text"} \subseteq Formats
    /\ Formats \subseteq AllFormats
    /\ "toml" \in Formats => "ini" \in Formats
    /\ {Garbage, NoDoc, Quoted} \cap Docs = {}
    /\ SampleDoc \in Docs
    /\ ComplexDoc \in Docs
    /\ Keeps \subseteq Docs \X Formats
    /\ Bracketed \subseteq Docs \X {"ini", "toml", "text"}
    /\ NullDocs \subseteq Docs

\* The empty string, falsy in `editor.getValue() || jsonText`.
Empty == [doc |-> NoDoc, syn |-> "none"]

Text(d, s) == [doc |-> d, syn |-> s]

Texts == [doc : Objects, syn : Formats] \cup {Empty}

Sample  == Text(SampleDoc, "json")
Complex == Text(ComplexDoc, "json")

\* TOML has no reader of its own: its texts go to the INI reader.
Reader(f) == IF f = "toml" THEN "ini" ELSE f

\* DATA_FORMATS[f].monacoLang: Monaco has no TOML mode either.
MonacoLang(f) == IF f = "toml" THEN "ini" ELSE f

MonacoLangs == {MonacoLang(f) : f \in Formats}

\* Mutant: the JSON reader guesses too, as the others do.
ParseTolerant(t, f) == IF t # Empty /\ Reader(t.syn) = Reader(f)
                       THEN {t.doc} ELSE {Garbage, NoDoc}

\* The objects parseCurrentContent(t, f) may return, none if it throws.  Only
\* the JSON reader throws; the readers of XML, INI and YAML take whatever of
\* another syntax they recognise, perhaps nothing.
Parse(t, f) ==
    CASE t = Empty                     -> {NoDoc}
      [] t # Empty /\ f = "text"       -> {Garbage}     \* {text: content}
      [] /\ t # Empty /\ f # "text"
         /\ Reader(t.syn) = Reader(f)  -> {t.doc}
      [] /\ t # Empty /\ f = "json"
         /\ t.syn # "json"             -> {}
      [] OTHER                         -> {Garbage, NoDoc}

Survives(o, f) ==
    \/ o \in {NoDoc, Quoted} /\ f = "json"
    \/ o \in Docs /\ (f = "json" \/ <<o, f>> \in Keeps)

\* The syntaxes in which an object without entries is the empty string.
LineBased == {"yaml", "toml", "ini"}

\* Mutant: without a writer of plain text the result is left undefined.
WriteUndefined(o, f) == {Text(o, IF f = "text" THEN "undefined" ELSE f)}

\* The texts a writer makes of an object: none when Object.entries(null)
\* throws.  There is no writer of plain text: the result stays ''.
Write(o, f) ==
    CASE f = "text"                                    -> {Empty}
      [] o \in NullDocs /\ f \notin {"json", "text"}   -> {}
      [] o = NoDoc /\ f \in LineBased                  -> {Empty}
      [] o = Garbage /\ f \in LineBased                -> {Empty, Text(o, f)}
      [] OTHER -> {Text(IF Survives(o, f) THEN o ELSE Garbage, f)}

\* detectContentFormat: it looks at the first character only, so a "[section]"
\* at the top of an INI text passes for a JSON array.
Detect(t) ==
    CASE t.syn \in {"json", "xml"}          -> t.syn
      [] <<t.doc, t.syn>> \in Bracketed     -> "json"
      [] OTHER                              -> "none"

\* handleSmartFormatChange: only the label changes when the text already looks
\* like the target or cannot be read under the current label ...
OnlyRelabels(t, from, to) == Detect(t) = to \/ Parse(t, from) = {}

\* ... otherwise the text is converted; no result when a writer throws.
Converted(t, from, to) == UNION {Write(o, to) : o \in Parse(t, from)}

\* formatJson and formatEditorContent rewrite a text in its label's format,
\* except that a text labelled TOML is written by jsonToIni.
Reformatted(t, f) == Converted(t, f, Reader(f))

\* What performDiff reports of two objects, by deepCompare: it looks at the own
\* keys only, so {} and null are the same to it, and `key in` a string throws.
Compare(o1, o2) ==
    LET hollow == {NoDoc} \cup NullDocs
    IN  CASE o1 = Quoted -> {"throws"}
          [] o1 # Quoted /\ o2 = Quoted ->
                IF o1 = Garbage THEN {"differ", "throws"}
                ELSE {IF o1 \in hollow THEN "differ" ELSE "throws"}
          [] Garbage \in {o1, o2} /\ Quoted \notin {o1, o2} -> {"same", "differ"}
          [] OTHER -> {IF o1 = o2 \/ {o1, o2} \subseteq hollow
                       THEN "same" ELSE "differ"}

\* softFormatJson re-indents text that is not JSON and drops the white space
\* outside its strings, which destroys the line-based syntaxes.
SoftFormatted(t) == IF t.syn \in {"text", "none"} THEN t ELSE Text(Garbage, "text")
=============================================================================
