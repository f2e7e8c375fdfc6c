---------------------------- MODULE MCCodePanel ----------------------------
(* The code panel for model checking; the instances are in the cfg files.  *)
EXTENDS CodePanel
=============================================================================
