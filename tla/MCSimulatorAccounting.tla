------------------------ MODULE MCSimulatorAccounting ------------------------
(***************************************************************************)
(* Model checking SimulatorAccounting with short traces.  The four         *)
(* latencies are chosen so that different sets of charges of a short trace *)
(* have different sums.                                                    *)
(***************************************************************************)
EXTENDS SimulatorAccounting, TLC

BlockSymmetry == Permutations(Blocks)

Mk(phase, priority, pin, allowed, tier, size) ==
    [phase |-> phase, priority |-> priority, pin_requested |-> pin,
     allowed_tiers |-> allowed, current_tier |-> tier, size_bytes |-> size]

\* As for TierSimulator, with a cold block that may live in HBM only.
MCIntents ==
    { Mk("DECODE", "DECODE_CRITICAL", TRUE, {"HBM", "DRAM"}, "HBM", 1),
      Mk("IDLE", "COLD", FALSE, {"HBM"}, "HBM", 1),
      Mk("DECODE", "HOT", FALSE, {"HBM", "DRAM"}, "DRAM", 2) }

=============================================================================
