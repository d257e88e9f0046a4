------------------------------- MODULE MCScores -------------------------------
(***************************************************************************)
(* Model checking the two families of eviction scores, the kernel module's *)
(* and the simulator's policies.  They share nothing but the way they are  *)
(* checked: the initial state chooses one, and the other does not start.   *)
(***************************************************************************)
EXTENDS KvEvictionScore, PlacementPolicies

VARIABLE subject

ScoresInit == Init /\ PolicyInit /\ subject \in {"shrinker", "policies"}

ScoresNext ==
    /\ UNCHANGED subject
    /\ \/ subject = "shrinker" /\ Next /\ UNCHANGED block
       \/ subject = "policies" /\ PolicyNext /\ UNCHANGED vars

ScoresSpec == ScoresInit /\ [][ScoresNext]_<<vars, block, subject>>

\* The importer's slack is negative for a deadline below 5 ms.
MCSlacks == {-5000, 2000}

=============================================================================
