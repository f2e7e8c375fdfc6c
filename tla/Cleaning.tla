------------------------------ MODULE Cleaning ------------------------------
(***************************************************************************)
(* What the converter page may rely on when it cleans a text before        *)
(* JSON.parse: a text is chosen, then its comments are taken out or it is  *)
(* laid out.                                                               *)
(***************************************************************************)
EXTENDS JsonTexts, Works

CONSTANTS
    Commented,   \* texts to take comments out of
    Scattered    \* texts to lay out

ASSUME CleaningAssumption ==
    Commented \subseteq Seq(Chars) /\ Scattered \subseteq Seq(Chars)

Init ==
    /\ work \in [op : {"strip"}, text : Commented] \cup [op : {"lay out"}, text : Scattered]
    /\ result = Pending

Strips ==
    /\ work.op = "strip"
    /\ result' = [strict |-> RemoveComments(work.text),
                  safe   |-> SafeRemoveComments(work.text),
                  cut    |-> CutAnywhere(work.text)]

LaysOut ==
    /\ work.op = "lay out"
    /\ result' = SoftFormatJson(work.text)

Next == result = Pending /\ (Strips \/ LaysOut) /\ UNCHANGED work

Spec == Init /\ [][Next]_<<work, result>>

----------------------------------------------------------------------------
\* removeComments takes out what a reader of JSON takes for a comment, and
\* nothing else: a // in a string stays, after any run of backslashes.
StripsComments == Done("strip") => result.strict = Uncommented(work.text)

\* Two functions take comments out, one for the generator and the tools, one for
\* the formatter, which also repairs punctuation.  They may differ on a text that
\* is no document anyway, but what is JSON without its comments by either is the
\* same document by both, and not changed by the repair.
JsonReadAlike ==
    Done("strip") =>
        \A text \in {result.strict, result.safe} :
            MayBeJson(text) => /\ result.strict = result.safe
                               /\ SmartPreprocess(text) = text

\* The fallback of parseJsonWithComments, which cuts strings too, never makes a
\* document out of a text that is none without its comments.
FallbackAddsNothing ==
    Done("strip") /\ MayBeJson(result.cut) => result.cut = result.strict

\* Laying out changes white space outside strings alone, and nothing of what is
\* laid out already; it throws exactly where more brackets close than were opened.
SoftFormatSound ==
    Done("lay out") =>
        /\ result.throws <=> \E i \in DOMAIN work.text : Depth(work.text, i) < 0
        /\ ~result.throws => /\ Bare(result.text) = Bare(work.text)
                             /\ SoftFormatJson(result.text).text = result.text
=============================================================================
