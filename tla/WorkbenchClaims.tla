-------------------------- MODULE WorkbenchClaims --------------------------
(* What comments and labels of static/index.html say of the editors, which *)
(* the program does not keep.                                              *)
EXTENDS MCWorkbench

\* "Clean up the models created by hand" (index.html:2192): no git model is
\* left without its editor.
NoOrphanedModel == ~orphaned

\* "Locate the parse error and report it" (index.html:2577): when formatting a
\* text under the label JSON does not make JSON of it, an error message is left.
FormatErrorReported ==
    [][/\ FormatMain /\ view.dataFormat = "json"
       /\ Content("json").syn # "json" /\ editors'["json"].text.syn # "json"
       => error']_vars
=============================================================================
