------------------------------ MODULE MCHbRing ------------------------------
(* Model checking of HbRing on a few drones; see the .cfg files.           *)
EXTENDS HbRing, TLC

\* Drones are interchangeable: no action and no invariant names one.
Symmetry == Permutations(Drone)
=============================================================================
