---------------------------- MODULE Registration ----------------------------
(***************************************************************************)
(* What the startup of a nanoprobe promises: each time one starts, the CMA *)
(* records it, and only then is the nanoprobe told that this is done.      *)
(***************************************************************************)
EXTENDS Naturals

VARIABLES
    process,    \* how many times the nanoprobe has started
    registered, \* the last of these the CMA's database knows of
    told        \* has this one been told?

vars == <<process, registered, told>>

Init == process = 0 /\ registered = 0 /\ told = FALSE

Start == process' = process + 1 /\ told' = FALSE /\ UNCHANGED registered

Stop == told' = FALSE /\ UNCHANGED <<process, registered>>

\* One that has ended meanwhile may be recorded too, but no earlier one than before.
Register == registered' \in (registered + 1) .. process /\ UNCHANGED <<process, told>>

Tell == registered = process /\ told' = TRUE /\ UNCHANGED <<process, registered>>

Next == Start \/ Stop \/ Register \/ Tell

Spec == Init /\ [][Next]_vars

=============================================================================
