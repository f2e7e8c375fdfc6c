---------------------------- MODULE Compositions ----------------------------
(* A loop over a sequence that carries a value along: each element of the   *)
(* sequence is a function, applied to what the one before it has left.      *)
EXTENDS Integers, Sequences

\* The value after 0, 1, ... steps.
Through(fs, v) ==
    LET after[n \in 0 .. Len(fs)] == IF n = 0 THEN v ELSE fs[n][after[n - 1]]
    IN  after

Outcome(fs, v) == Through(fs, v)[Len(fs)]
=============================================================================
