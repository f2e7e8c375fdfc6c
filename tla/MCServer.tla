------------------------------ MODULE MCServer ------------------------------
(* The server process for model checking; the instances are in the cfgs.   *)
EXTENDS Server

PortsTwo == {"p8080", "p8083"}

\* Nothing else listens, or another process has one of the ports.
HoldingsTwo == {{}, {"p8083"}}

\* No socket fails, or any may.
FailingsTwo == {{}, Servers}
=============================================================================
