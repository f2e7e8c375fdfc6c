------------------------------ MODULE MCReact ------------------------------
(* A small instance of React: a hook that handlers set, like setJsonText,   *)
(* and one that they toggle, like setIsDiffMode, with an effect on each.    *)
EXTENDS React, Integers

MCVals == {0, 1}
Setting == [v \in MCVals |-> [x \in MCVals |-> v]]
Toggle  == [x \in MCVals |-> 1 - x]

MCActs == [h \in Hooks |-> IF h = "mode" THEN {Toggle}
                                         ELSE {Setting[v] : v \in MCVals}]
MCDeps == [e \in Effects |-> IF e = "sync" THEN {"text"} ELSE {"mode"}]
=============================================================================
