--------------------------- MODULE MCTierSimulator ---------------------------
(***************************************************************************)
(* Model checking TierSimulator: the intents that the events carry.        *)
(***************************************************************************)
EXTENDS TierSimulator, TLC

\* No policy is modelled as telling two block ids apart.
BlockSymmetry == Permutations(Blocks)

Mk(phase, priority, pin, allowed, tier, size) ==
    [phase |-> phase, priority |-> priority, pin_requested |-> pin,
     allowed_tiers |-> allowed, current_tier |-> tier, size_bytes |-> size]

\* The tier sets that the adapters and generators emit.
HbmDram == {"HBM", "DRAM"}
HbmDramNvme == {"HBM", "DRAM", "NVME"}

\* A decode-critical block, a cold one, and a hot decode-phase one, twice the
\* size, that is not pinned and starts in DRAM.
MCIntents ==
    { Mk("DECODE", "DECODE_CRITICAL", TRUE, HbmDram, "HBM", 1),
      Mk("IDLE", "COLD", FALSE, HbmDramNvme, "HBM", 1),
      Mk("DECODE", "HOT", FALSE, HbmDram, "DRAM", 2) }

\* Intents that MemoryIntent accepts although they leave the simulator no tier
\* to fall back to.
MCHbmOnlyIntents ==
    { Mk("PREFILL", "WARM", FALSE, {"HBM"}, "HBM", 1),
      Mk("IDLE", "COLD", FALSE, HbmDram, "HBM", 1) }

\* Both kinds in one trace.
MCAllIntents == MCIntents \cup MCHbmOnlyIntents

=============================================================================
