------------------------- MODULE MCKvIntentShrinker -------------------------
(***************************************************************************)
(* Model checking KvIntentShrinker.                                        *)
(***************************************************************************)
EXTENDS KvIntentShrinker, TLC

\* Structs, ids and the tasks of each kind are interchangeable.
TaskSymmetry ==
    Permutations(Structs) \cup Permutations(Ids)
    \cup Permutations(Callers) \cup Permutations(Readers)

=============================================================================
