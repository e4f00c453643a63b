------------------------------ MODULE MCHeartbeat ---------------------------
(* Model checking of Heartbeat on two nanoprobes; see Heartbeat.cfg.       *)
EXTENDS Heartbeat
=============================================================================
