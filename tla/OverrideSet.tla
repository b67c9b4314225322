------------------------------ MODULE OverrideSet ------------------------------
(***************************************************************************)
(* What an override journal promises: one set of specs in force, which a   *)
(* grant or a revocation changes by one spec at a time, as long as the     *)
(* files can be believed.  A journal that cannot be believed has nothing   *)
(* in force until it is believed again.                                    *)
(***************************************************************************)
CONSTANT Specs

VARIABLES believed, inForce

Init == believed = TRUE /\ inForce = {}

Grant(s) == believed /\ s \notin inForce /\ inForce' = inForce \cup {s} /\ UNCHANGED believed

Revoke(s) == believed /\ s \in inForce /\ inForce' = inForce \ {s} /\ UNCHANGED believed

Doubt == believed /\ believed' = FALSE /\ inForce' = {}

Believe == ~believed /\ believed' = TRUE /\ inForce' \in SUBSET Specs

Next == (\E s \in Specs : Grant(s) \/ Revoke(s)) \/ Doubt \/ Believe

Spec == Init /\ [][Next]_<<believed, inForce>>
================================================================================
