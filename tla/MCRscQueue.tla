----------------------------- MODULE MCRscQueue -----------------------------
(* Model checking of RscQueue on a few requests; see the .cfg files.       *)
EXTENDS RscQueue
=============================================================================
