----------------------------- MODULE Lifecycle -----------------------------
(***************************************************************************)
(* What the server process (main.go) promises whoever sends it requests,   *)
(* whatever listeners, goroutines and signals it is made of: requests are  *)
(* taken while it serves; once it drains no further one is taken; and it   *)
(* stops in good order only when none is left.  It may abort at any time.  *)
(***************************************************************************)
EXTENDS Naturals

VARIABLES
    phase,      \* "down", "serving", "draining", "stopped" or "aborted"
    inflight    \* requests taken and not answered

lvars == <<phase, inflight>>

Alive == phase \in {"down", "serving", "draining"}

LInit ==
    /\ phase = "down"
    /\ inflight = 0

Start  == phase = "down"     /\ phase' = "serving"  /\ UNCHANGED inflight
Drain  == phase \in {"down", "serving"} /\ phase' = "draining" /\ UNCHANGED inflight
Stop   == phase = "draining" /\ inflight = 0 /\ phase' = "stopped" /\ UNCHANGED inflight
Abort  == Alive              /\ phase' = "aborted"  /\ UNCHANGED inflight
Take   == phase = "serving"  /\ inflight' = inflight + 1 /\ UNCHANGED phase
Answer == Alive /\ inflight > 0 /\ inflight' = inflight - 1 /\ UNCHANGED phase

LNext == Start \/ Drain \/ Stop \/ Abort \/ Take \/ Answer

LSpec == LInit /\ [][LNext]_lvars
=============================================================================
