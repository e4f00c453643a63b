----------------------------- MODULE MCStartup -----------------------------
(* Startup for TLC: the CMA's key and one for each nanoprobe process.       *)
EXTENDS Startup

CONSTANTS KC, K1, K2, K3

MCKeys == {KC, K1, K2, K3}
MCNanoKeys == <<K1, K2, K3>>

=============================================================================
