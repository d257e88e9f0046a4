--------------------------- MODULE SpeculativeDraft ---------------------------
(***************************************************************************)
(* The draft tree of speculative decoding: generate_speculative_workload   *)
(* grows it level by level, generate_speculative_lifecycle_trace verifies  *)
(* it from the roots down, with process_verify_event of the policy on the  *)
(* table current_blocks, and the simulator replays the events.             *)
(*                                                                         *)
(* resolve() is recursive: the calls still to be made are a stack.  The    *)
(* random numbers are choices.  A draft is its node_id; token ids,         *)
(* deadlines and scores are left out.                                      *)
(***************************************************************************)
EXTENDS TraceReplay

CONSTANTS
    tree_width,
    tree_depth,
    Drafts,       \* the node ids (bound: of the tree)
    LowDrafts,    \* the drafts with acceptance_prob < 0.3
    Root          \* parent_id None

ASSUME TreeAssumption ==
    /\ tree_width \in Nat /\ tree_depth \in Nat
    /\ Drafts \subseteq Nat
    /\ {0} \X Drafts \subseteq Blocks
    /\ Root \notin Nat

VARIABLES
    nodes,            \* the parent_id of each node of the tree
    frontier,         \* pairs <<parent_id, depth>> still to be expanded
    current_blocks,   \* what the table holds (NoIntent for a key that is absent)
    pending,          \* the calls of resolve() still to be made
    committed,        \* the drafts with a COMMITTED event
    freed_rejected_blocks,            \* the number of FREED events
    draft_blocks_freed_on_rejection   \* the counter of the policy

draft == <<nodes, frontier, current_blocks, pending, committed,
           freed_rejected_blocks, draft_blocks_freed_on_rejection>>

NoDrafts ==
    /\ nodes = <<>>
    /\ current_blocks = [b \in Drafts |-> NoIntent]
    /\ pending = <<>>
    /\ committed = {}
    /\ freed_rejected_blocks = 0
    /\ draft_blocks_freed_on_rejection = 0

SpeculativeInit == Init /\ trace = <<>> /\ NoDrafts /\ frontier = <<<<Root, 0>>>>

\* The drafts are the blocks of one request.
kv_object_id(node) == <<0, node>>

InTable(b) == current_blocks[b] # NoIntent

-----------------------------------------------------------------------------
(***************************************************************************)
(* draft_workload.py                                                       *)
(***************************************************************************)
draft_intent(b) ==
    [phase |-> "VERIFY", priority |-> IF b \in LowDrafts THEN "COLD" ELSE "HOT",
     pin_requested |-> FALSE, allowed_tiers |-> {"HBM", "DRAM"},
     current_tier |-> "HBM", size_bytes |-> 1]

\* The next count node ids, in the order in which the nodes are made.
ids_from(first, count) == [k \in 1 .. count |-> first + k - 1]

\* [b for b in ids if b in keep]
kept(ids, keep) ==
    FlattenSeq([k \in DOMAIN ids |-> IF ids[k] \in keep THEN <<ids[k]>> ELSE <<>>])

\* _build_children: the nodes below a parent, oldest first.
children(tree, p) ==
    kept(ids_from(0, Cardinality(DOMAIN tree)), {b \in DOMAIN tree : tree[b] = p})

draft_events(ids) ==
    FlattenSeq([k \in DOMAIN ids |->
        <<Ev("ALLOCATED", kv_object_id(ids[k]), draft_intent(ids[k])),
          Ev("ACCESSED", kv_object_id(ids[k]), draft_intent(ids[k]))>>])

\* One round of the loop over the frontier; node ids count up (Drafts bounds
\* them).  The last round leaves the roots to be resolved.
Expand ==
    LET p == Head(frontier)[1]
        depth == Head(frontier)[2]
        first == Cardinality(DOMAIN nodes)
        ids == ids_from(first, IF depth >= tree_depth THEN 0 ELSE tree_width)
        new == Range(ids)
        grown == [b \in DOMAIN nodes \cup new |-> IF b \in new THEN p ELSE nodes[b]]
        left == Tail(frontier) \o (IF depth + 1 < tree_depth
                                   THEN [k \in DOMAIN ids |-> <<ids[k], depth + 1>>]
                                   ELSE <<>>)
    IN  /\ Quiescent
        /\ frontier # <<>>
        /\ new \subseteq Drafts
        /\ nodes' = grown
        /\ current_blocks' = [b \in Drafts |-> IF b \in new THEN draft_intent(b)
                                                           ELSE current_blocks[b]]
        /\ trace' = draft_events(ids)
        /\ frontier' = left
        /\ pending' = IF left = <<>> THEN children(grown, Root) ELSE <<>>
        /\ UNCHANGED <<vars, committed, freed_rejected_blocks, draft_blocks_freed_on_rejection>>

-----------------------------------------------------------------------------
(***************************************************************************)
(* spec_intent.py and resolve() of benchmark.py                            *)
(***************************************************************************)
\* DraftTree.descendants: the worklist takes the youngest node first.
descendants[n \in DOMAIN nodes] ==
    LET below == children(nodes, n)
        youngestFirst == Reverse(below)
    IN  below \o FlattenSeq([k \in DOMAIN below |-> descendants[youngestFirst[k]]])

\* Mutant: only the node and those directly below.
subtree_shallow(n) == kept(<<n>> \o children(nodes, n), {b \in Drafts : InTable(b)})

\* The node and its descendants, as far as they are in current_blocks.
subtree(n) == kept(<<n>> \o descendants[n], {b \in Drafts : InTable(b)})

\* process_verify_event, accepted: all of the subtree becomes critical and
\* committed in the table, before any descendant has been verified.
verified(i) ==
    [i EXCEPT !.priority = "DECODE_CRITICAL", !.phase = "DECODE", !.pin_requested = TRUE]

promoted(b) == verified(current_blocks[b])

\* The events carry the intents that a draft may have.
ASSUME DraftIntentsAssumption ==
    \A b \in Drafts : draft_intent(b) \in Intents /\ verified(draft_intent(b)) \in Intents

promote(n) ==
    LET accepted == Range(subtree(n))
    IN  current_blocks' = [b \in Drafts |-> IF b \in accepted THEN promoted(b)
                                                             ELSE current_blocks[b]]

\* process_verify_event, rejected: the subtree leaves the table.
doom(n) ==
    LET doomed == Range(subtree(n))
    IN  /\ current_blocks' = [b \in Drafts |-> IF b \in doomed THEN NoIntent ELSE current_blocks[b]]
        /\ draft_blocks_freed_on_rejection' =
              draft_blocks_freed_on_rejection + Cardinality(doomed)

\* Mutant: what is below an accepted draft is not verified.
AcceptSkipsChildren(n) ==
    /\ promote(n)
    /\ trace' = <<Ev("COMMITTED", kv_object_id(n), promoted(n))>>
    /\ committed' = committed \cup {n}
    /\ pending' = Tail(pending)
    /\ UNCHANGED <<freed_rejected_blocks, draft_blocks_freed_on_rejection>>

Accept(n) ==
    /\ promote(n)
    /\ trace' = <<Ev("COMMITTED", kv_object_id(n), promoted(n))>>
    /\ committed' = committed \cup {n}
    /\ pending' = children(nodes, n) \o Tail(pending)
    /\ UNCHANGED <<freed_rejected_blocks, draft_blocks_freed_on_rejection>>

\* Mutant: the frees are collected after the table has been cleared.
RejectCollectsLate(n) ==
    /\ trace' = <<>>
    /\ doom(n)
    /\ pending' = Tail(pending)
    /\ UNCHANGED <<committed, freed_rejected_blocks>>

\* The doomed intents are collected before the policy drops them.
Reject(n) ==
    /\ trace' = LET doomed == subtree(n)
                IN  [k \in DOMAIN doomed |->
                       Ev("FREED", kv_object_id(doomed[k]), current_blocks[doomed[k]])]
    /\ freed_rejected_blocks' = freed_rejected_blocks + Len(subtree(n))
    /\ doom(n)
    /\ pending' = Tail(pending)
    /\ UNCHANGED committed

resolve ==
    LET n == Head(pending)
    IN  /\ Quiescent
        /\ frontier = <<>>
        /\ pending # <<>>
        /\ IF InTable(n)
           THEN Accept(n) \/ Reject(n)
           ELSE /\ pending' = Tail(pending)
                /\ UNCHANGED <<trace, current_blocks, committed, freed_rejected_blocks,
                               draft_blocks_freed_on_rejection>>
        /\ UNCHANGED <<vars, nodes, frontier>>

-----------------------------------------------------------------------------
SpeculativeNext == Expand \/ resolve \/ (Simulate /\ UNCHANGED draft)

-----------------------------------------------------------------------------
(***************************************************************************)
(* Properties                                                              *)
(***************************************************************************)
\* No draft outlives the one it continues: rejecting a node takes everything
\* below it, at any depth.
NoOrphans ==
    \A b \in DOMAIN nodes : InTable(b) /\ nodes[b] # Root => InTable(nodes[b])

\* The simulator holds what the table holds, after every verification.
SimulatorFollowsTable ==
    live_blocks = {kv_object_id(b) : b \in {d \in Drafts : InTable(d)}}

\* Accepting a node commits its descendants in the table before they have been
\* verified: in the end each survivor has been accepted by itself, with a
\* COMMITTED event of its own, and every other draft has been counted as freed
\* once, by the policy and by the trace.
SurvivorsWereVerified ==
    frontier = <<>> /\ pending = <<>> =>
        /\ {b \in Drafts : InTable(b)} = committed
        /\ freed_rejected_blocks = Cardinality(DOMAIN nodes \ committed)
        /\ draft_blocks_freed_on_rejection = freed_rejected_blocks

=============================================================================
