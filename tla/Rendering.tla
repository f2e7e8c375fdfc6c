----------------------------- MODULE Rendering -----------------------------
(***************************************************************************)
(* What the page may expect of React, and all that module Workbench uses:  *)
(* every state variable (hook) has a value that handlers see (view) and    *)
(* one that it has once every update is in (queued).  An update made in a  *)
(* click shows at once; one made in another callback shows with the next   *)
(* rendering.  No update is lost, and those of one hook keep their order,  *)
(* whatever is shown first.                                                *)
(***************************************************************************)
CONSTANTS
    Hooks,   \* the state variables of the component
    Acts     \* Acts[h]: the functions that updates of h apply to its value

VARIABLES view, queued

\* A click updates some hooks, by one function for both values.
Prompt ==
    \A h \in Hooks :
        \/ view'[h] = view[h] /\ queued'[h] = queued[h]
        \/ \E a \in Acts[h] : view'[h] = a[view[h]] /\ queued'[h] = a[queued[h]]

\* A callback of a file reader or of a timer updates some hooks.
Later ==
    /\ view' = view
    /\ \A h \in Hooks :
          \/ queued'[h] = queued[h]
          \/ \E a \in Acts[h] : queued'[h] = a[queued[h]]

Render == view' = queued /\ queued' = queued

Next == Prompt \/ Later \/ Render

Init == queued = view

Spec == Init /\ [][Next]_<<view, queued>>
=============================================================================
