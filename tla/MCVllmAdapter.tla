---------------------------- MODULE MCVllmAdapter ----------------------------
(***************************************************************************)
(* Model checking VllmAdapter.                                             *)
(***************************************************************************)
EXTENDS VllmAdapter

MCBlocks == Requests \X BlockIds

MCTiers == {"HBM", "DRAM"}

\* Lists without repetition, in any order.
MCBlockLists ==
    {s \in UNION {[1 .. n -> BlockIds] : n \in 0 .. Cardinality(BlockIds)} : IsInjective(s)}

MCIntents ==
    {i \in [phase : Phase, priority : Priority, pin_requested : BOOLEAN,
            allowed_tiers : {default_allowed_tiers},
            current_tier : {"HBM", "DRAM"}, size_bytes : Sizes] : Accepted(i)}

=============================================================================
