------------------------- MODULE TraceProducersProofs -------------------------
(***************************************************************************)
(* Proofs about the producers of traces, each together with the simulator  *)
(* that replays what it writes: for any requests, token counts, samples,   *)
(* draft trees and block counts, any sizes and capacities, and every       *)
(* policy.  What a trace leaves live, and the mock engine's part, are in   *)
(* VllmAdapterProofs.                                                      *)
(***************************************************************************)
EXTENDS MCTraceProducers, VllmAdapterProofs

-----------------------------------------------------------------------------
(***************************************************************************)
(* The draft tree: lists of node ids                                       *)
(***************************************************************************)
\* Ids that are filtered keep their order, and none occurs more often.
LEMMA KeptIds ==
    ASSUME NEW S, NEW ids \in Seq(S), NEW keep
    PROVE  /\ kept(ids, keep) \in Seq(S)
           /\ Range(kept(ids, keep)) = Range(ids) \cap keep
           /\ IsInjective(ids) => IsInjective(kept(ids, keep))
<1> DEFINE seqs == [k \in DOMAIN ids |-> IF ids[k] \in keep THEN <<ids[k]>> ELSE <<>>]
<1>0. Len(ids) \in Nat /\ DOMAIN ids = 1 .. Len(ids) /\ \A k \in 1 .. Len(ids) : ids[k] \in S
  OBVIOUS
<1>1. \A k \in 1 .. Len(ids) : seqs[k] = IF ids[k] \in keep THEN <<ids[k]>> ELSE <<>>
  BY <1>0
<1>2. seqs \in Seq(Seq(S)) /\ Len(seqs) = Len(ids)
  <2>1. \A k \in 1 .. Len(ids) : (IF ids[k] \in keep THEN <<ids[k]>> ELSE <<>>) \in Seq(S)
    BY <1>0
  <2>2. seqs \in [1 .. Len(ids) -> Seq(S)]
    BY <1>0, <2>1
  <2> HIDE DEF seqs
  <2> QED BY <1>0, <2>2
<1>3. kept(ids, keep) = FlattenSeq(seqs)
  BY DEF kept
<1> HIDE DEF seqs
<1>4. \A k \in 1 .. Len(ids) :
        /\ Range(seqs[k]) = {ids[k]} \cap keep
        /\ IsInjective(seqs[k])
  <2> SUFFICES ASSUME NEW k \in 1 .. Len(ids)
               PROVE  Range(seqs[k]) = {ids[k]} \cap keep /\ IsInjective(seqs[k])
    OBVIOUS
  <2>1. CASE ids[k] \in keep
    <3>1. seqs[k] = <<ids[k]>>
      BY <1>1, <2>1
    <3>2. Range(<<ids[k]>>) = {ids[k]} /\ IsInjective(<<ids[k]>>)
      BY DEF Range, IsInjective
    <3> QED BY <2>1, <3>1, <3>2
  <2>2. CASE ids[k] \notin keep
    <3>1. seqs[k] = <<>>
      BY <1>1, <2>2
    <3>2. Range(<<>>) = {} /\ IsInjective(<<>>)
      BY DEF Range, IsInjective
    <3> QED BY <2>2, <3>1, <3>2
  <2> QED BY <2>1, <2>2
<1>5. kept(ids, keep) \in Seq(S)
  BY <1>2, <1>3, FlattenRange
<1>6. Range(kept(ids, keep)) = Range(ids) \cap keep
  <2>1. Range(kept(ids, keep)) = UNION {Range(seqs[k]) : k \in 1 .. Len(ids)}
    BY <1>2, <1>3, FlattenRange
  <2>2. Range(ids) = {ids[k] : k \in 1 .. Len(ids)}
    BY <1>0 DEF Range
  <2> QED BY <2>1, <2>2, <1>4
<1>7. ASSUME IsInjective(ids) PROVE IsInjective(kept(ids, keep))
  <2>1. ASSUME NEW j \in 1 .. Len(ids), NEW k \in 1 .. Len(ids), j # k
        PROVE  Range(seqs[j]) \cap Range(seqs[k]) = {}
    <3>1. ids[j] # ids[k]
      BY <2>1, <1>0, <1>7 DEF IsInjective
    <3> QED BY <3>1, <1>4
  <2>2. \A j \in 1 .. Len(seqs) : IsInjective(seqs[j])
    BY <1>2, <1>4
  <2>3. \A j, k \in 1 .. Len(seqs) : j # k => Range(seqs[j]) \cap Range(seqs[k]) = {}
    BY <1>2, <2>1
  <2> QED BY <1>2, <1>3, <2>2, <2>3, FlattenInjective
<1> QED BY <1>5, <1>6, <1>7

\* The next ids, in order.
LEMMA NextIds ==
    ASSUME NEW first \in Nat, NEW count \in Nat
    PROVE  /\ ids_from(first, count) \in Seq(first .. first + count - 1)
           /\ Len(ids_from(first, count)) = count
           /\ \A k \in 1 .. count : ids_from(first, count)[k] = first + k - 1
           /\ Range(ids_from(first, count)) = first .. first + count - 1
           /\ IsInjective(ids_from(first, count))
<1> DEFINE s == ids_from(first, count)
<1>1. /\ DOMAIN s = 1 .. count
      /\ \A k \in 1 .. count : s[k] = first + k - 1
  BY DEF ids_from
<1>2. s \in [1 .. count -> first .. first + count - 1]
  <2>1. \A k \in 1 .. count : first + k - 1 \in first .. first + count - 1
    OBVIOUS
  <2> QED BY <2>1 DEF ids_from
<1> HIDE DEF s
<1>3. s \in Seq(first .. first + count - 1) /\ Len(s) = count
  BY <1>1, <1>2
<1>4. Range(s) = first .. first + count - 1
  <2>1. ASSUME NEW b \in first .. first + count - 1 PROVE b \in Range(s)
    <3>1. b - first + 1 \in 1 .. count /\ first + (b - first + 1) - 1 = b
      OBVIOUS
    <3>2. s[b - first + 1] = b
      BY <1>1, <3>1
    <3> QED BY <1>1, <3>1, <3>2 DEF Range
  <2>2. Range(s) \subseteq first .. first + count - 1
    BY <1>1, <1>2 DEF Range
  <2> QED BY <2>1, <2>2
<1>5. IsInjective(s)
  BY <1>1 DEF IsInjective
<1> QED BY <1>1, <1>3, <1>4, <1>5 DEF s

\* A tree of size nodes, numbered in the order in which they were made: each
\* comes after its parent.
IsTree(tree, size) ==
    /\ size \in Nat /\ DOMAIN tree = 0 .. size - 1
    /\ \A b \in DOMAIN tree : tree[b] = Root \/ tree[b] \in 0 .. b - 1

\* children lists the nodes below a parent, each once.
LEMMA ChildrenOf ==
    ASSUME NEW tree, NEW size, IsTree(tree, size), NEW p
    PROVE  /\ children(tree, p) \in Seq(DOMAIN tree)
           /\ Range(children(tree, p)) = {b \in DOMAIN tree : tree[b] = p}
           /\ IsInjective(children(tree, p))
<1> DEFINE keep == {b \in DOMAIN tree : tree[b] = p}
<1>1. size \in Nat /\ DOMAIN tree = 0 .. size - 1
  BY DEF IsTree
<1>2. Cardinality(DOMAIN tree) = size
  BY <1>1, FS_Interval
<1>3. children(tree, p) = kept(ids_from(0, size), keep)
  BY <1>2 DEF children
<1> HIDE DEF keep
<1>4. /\ ids_from(0, size) \in Seq(DOMAIN tree)
      /\ Range(ids_from(0, size)) = DOMAIN tree
      /\ IsInjective(ids_from(0, size))
  <2>1. 0 + size - 1 = size - 1 /\ 0 \in Nat
    BY <1>1
  <2> QED BY <1>1, <2>1, NextIds
<1>5. DOMAIN tree \cap keep = keep
  BY DEF keep
<1> QED BY <1>3, <1>4, <1>5, KeptIds DEF keep

\* What descendants is defined to be, from what it is for younger nodes.
Line(f, tree, node) ==
    children(tree, node)
      \o FlattenSeq([k \in DOMAIN children(tree, node) |-> f[Reverse(children(tree, node))[k]]])

\* f solves the recursion of descendants for the nodes from first on.
LinesOf(f, tree, first, size) ==
    f = [node \in first .. size - 1 |-> Line(f, tree, node)]

\* The children of a node are younger than the node.
LEMMA ChildrenAreYounger ==
    ASSUME NEW tree, NEW size, IsTree(tree, size), NEW node \in DOMAIN tree
    PROVE  /\ \A b \in DOMAIN tree : tree[b] = node => b \in node + 1 .. size - 1
           /\ \A k \in DOMAIN children(tree, node) :
                 Reverse(children(tree, node))[k] \in node + 1 .. size - 1
<1>1. size \in Nat /\ DOMAIN tree = 0 .. size - 1 /\ node \in Nat
  BY DEF IsTree
<1>2. \A b \in DOMAIN tree : tree[b] = node => b \in node + 1 .. size - 1
  <2> SUFFICES ASSUME NEW b \in DOMAIN tree, tree[b] = node PROVE b \in node + 1 .. size - 1
    OBVIOUS
  <2>1. node # Root
    BY <1>1, TreeAssumption
  <2>2. node \in 0 .. b - 1
    BY <2>1 DEF IsTree
  <2> QED BY <1>1, <2>2
<1> DEFINE below == children(tree, node)
           back == Reverse(below)
<1>3. below \in Seq(DOMAIN tree) /\ Range(below) = {b \in DOMAIN tree : tree[b] = node}
  BY ChildrenOf
<1> HIDE DEF below
<1>4. /\ back \in Seq(DOMAIN tree) /\ Len(back) = Len(below) /\ Range(back) = Range(below)
      /\ DOMAIN below = 1 .. Len(below)
  BY <1>3, ReverseFacts
<1> HIDE DEF back
<1>5. \A k \in DOMAIN below : back[k] \in Range(back)
  BY <1>4 DEF Range
<1> QED BY <1>2, <1>3, <1>4, <1>5 DEF below, back

\* The recursion of descendants has a solution: it ends, the ids being bounded.
LEMMA LinesExist ==
    ASSUME NEW tree, NEW size, IsTree(tree, size)
    PROVE  \E f : LinesOf(f, tree, 0, size)
<1> DEFINE Bad == {i \in 0 .. size - 1 : ~ \E f : LinesOf(f, tree, i, size)}
<1>1. size \in Nat /\ DOMAIN tree = 0 .. size - 1
  BY DEF IsTree
<1>2. \E f : LinesOf(f, tree, size, size)
  <2> DEFINE e == [node \in size .. size - 1 |-> 0]
  <2>1. size .. size - 1 = {}
    BY <1>1
  <2>2. LinesOf(e, tree, size, size)
    BY <2>1 DEF LinesOf
  <2> QED BY <2>2
<1>3. Bad = {}
  <2> SUFFICES ASSUME Bad # {} PROVE FALSE
    OBVIOUS
  <2>1. PICK i \in Bad : \A j \in Bad : j <= i
    <3>1. Bad \in SUBSET (0 .. size - 1)
      OBVIOUS
    <3> HIDE DEF Bad
    <3> QED BY <1>1, <3>1, GreatestBelow
  <2>i. i \in 0 .. size - 1 /\ ~ \E f : LinesOf(f, tree, i, size)
    OBVIOUS
  <2>2. \E f : LinesOf(f, tree, i + 1, size)
    <3>1. CASE i = size - 1
      <4>1. i + 1 = size
        BY <1>1, <3>1
      <4> QED BY <4>1, <1>2
    <3>2. CASE i # size - 1
      <4>1. i + 1 \in 0 .. size - 1 /\ ~ (i + 1 <= i)
        BY <1>1, <2>i, <3>2
      <4>2. i + 1 \notin Bad
        <5> HIDE DEF Bad
        <5> QED BY <2>1, <4>1
      <4> QED BY <4>1, <4>2
    <3> QED BY <3>1, <3>2
  <2> HIDE DEF Bad
  <2>3. PICK f : LinesOf(f, tree, i + 1, size)
    BY <2>2
  <2> DEFINE g == [node \in i .. size - 1 |-> IF node = i THEN Line(f, tree, i) ELSE f[node]]
  <2>4. ASSUME NEW node \in i .. size - 1 PROVE g[node] = Line(g, tree, node)
    <3>0. node \in DOMAIN tree
      BY <1>1, <2>i
    <3>1. \A k \in DOMAIN children(tree, node) :
            Reverse(children(tree, node))[k] \in node + 1 .. size - 1
      BY <3>0, ChildrenAreYounger
    <3>2. \A b \in node + 1 .. size - 1 : b \in i .. size - 1 /\ b # i
      BY <1>1, <2>i
    <3>3. \A b \in node + 1 .. size - 1 : g[b] = f[b]
      BY <3>2
    <3> HIDE DEF g
    <3>4. [k \in DOMAIN children(tree, node) |-> g[Reverse(children(tree, node))[k]]]
            = [k \in DOMAIN children(tree, node) |-> f[Reverse(children(tree, node))[k]]]
      BY <3>1, <3>3
    <3>5. Line(g, tree, node) = Line(f, tree, node)
      BY <3>4 DEF Line
    <3>6. g[node] = Line(f, tree, node)
      <4>1. CASE node = i
        BY <4>1, <2>i, <1>1 DEF g
      <4>2. CASE node # i
        <5>1. node \in i + 1 .. size - 1
          BY <4>2, <2>i, <1>1
        <5>2. f[node] = Line(f, tree, node)
          BY <5>1, <2>3 DEF LinesOf
        <5> QED BY <4>2, <5>2 DEF g
      <4> QED BY <4>1, <4>2
    <3> QED BY <3>5, <3>6
  <2>5. LinesOf(g, tree, i, size)
    <3>1. g = [node \in i .. size - 1 |-> g[node]]
      OBVIOUS
    <3> HIDE DEF g
    <3>2. [node \in i .. size - 1 |-> g[node]] = [node \in i .. size - 1 |-> Line(g, tree, node)]
      BY <2>4
    <3> QED BY <3>1, <3>2 DEF LinesOf
  <2> QED BY <2>5, <2>i
<1>4. CASE size = 0
  BY <1>2, <1>4
<1>5. CASE size # 0
  <2>1. 0 \in 0 .. size - 1
    BY <1>1, <1>5
  <2>2. 0 \notin Bad
    <3> HIDE DEF Bad
    <3> QED BY <1>3
  <2> QED BY <2>1, <2>2
<1> QED BY <1>4, <1>5

\* The equation by which descendants was defined holds of it.
LEMMA DescendantsLine ==
    ASSUME NEW size, IsTree(nodes, size)
    PROVE  \A node \in DOMAIN nodes : descendants[node] = Line(descendants, nodes, node)
<1>1. size \in Nat /\ DOMAIN nodes = 0 .. size - 1
  BY DEF IsTree
<1>2. \E f : f = [node \in DOMAIN nodes |-> Line(f, nodes, node)]
  BY <1>1, LinesExist DEF LinesOf
<1>3. descendants = CHOOSE f : f = [node \in DOMAIN nodes |-> Line(f, nodes, node)]
  BY DEF descendants, Line
<1>4. descendants = [node \in DOMAIN nodes |-> Line(descendants, nodes, node)]
  BY <1>2, <1>3
<1> QED BY <1>4

\* The descendants of a node, by the nodes directly below it and theirs.
Heirs(node) == Range(descendants[node])

\* The children of a node.
Kids(node) == {b \in DOMAIN nodes : nodes[b] = node}

\* Descendants are nodes, and a node's are its children and theirs.
LEMMA HeirsOfKids ==
    ASSUME NEW size, IsTree(nodes, size), NEW node \in DOMAIN nodes
    PROVE  /\ descendants[node] \in Seq(DOMAIN nodes)
           /\ Heirs(node) = Kids(node) \cup UNION {Heirs(c) : c \in Kids(node)}
<1> DEFINE D == descendants
           Bad == {i \in 0 .. size - 1 : D[i] \notin Seq(DOMAIN nodes)}
           parts(i) == [k \in DOMAIN children(nodes, i) |-> D[Reverse(children(nodes, i))[k]]]
<1>1. size \in Nat /\ DOMAIN nodes = 0 .. size - 1
  BY DEF IsTree
<1>2. ASSUME NEW i \in DOMAIN nodes, \A c \in i + 1 .. size - 1 : D[c] \in Seq(DOMAIN nodes)
      PROVE  /\ D[i] \in Seq(DOMAIN nodes)
             /\ Range(D[i]) = Kids(i) \cup UNION {Range(D[c]) : c \in Kids(i)}
  <2> DEFINE below == children(nodes, i)
             back == Reverse(below)
             ps == [k \in DOMAIN below |-> D[back[k]]]
  <2>1. D[i] = below \o FlattenSeq(ps)
    <3> HIDE DEF D
    <3> QED BY DescendantsLine DEF Line, D
  <2>2. below \in Seq(DOMAIN nodes) /\ Range(below) = Kids(i)
    BY ChildrenOf DEF Kids
  <2>3. \A k \in DOMAIN below : back[k] \in i + 1 .. size - 1
    BY ChildrenAreYounger
  <2> HIDE DEF below, D
  <2>4. /\ back \in Seq(DOMAIN nodes) /\ Len(back) = Len(below) /\ Range(back) = Kids(i)
        /\ DOMAIN below = 1 .. Len(below) /\ Len(below) \in Nat /\ DOMAIN back = 1 .. Len(below)
    BY <2>2, ReverseFacts
  <2> HIDE DEF back
  <2>5. \A k \in 1 .. Len(below) : ps[k] = D[back[k]] /\ D[back[k]] \in Seq(DOMAIN nodes)
    BY <2>3, <2>4, <1>2
  <2>6. ps \in Seq(Seq(DOMAIN nodes)) /\ Len(ps) = Len(below)
    <3>1. ps \in [1 .. Len(below) -> Seq(DOMAIN nodes)]
      BY <2>4, <2>5
    <3> HIDE DEF ps
    <3> QED BY <2>4, <3>1
  <2> HIDE DEF ps
  <2>7. /\ FlattenSeq(ps) \in Seq(DOMAIN nodes)
        /\ Range(FlattenSeq(ps)) = UNION {Range(ps[k]) : k \in 1 .. Len(below)}
    BY <2>6, FlattenRange
  <2>8. UNION {Range(ps[k]) : k \in 1 .. Len(below)} = UNION {Range(D[c]) : c \in Kids(i)}
    <3>1. Kids(i) = {back[k] : k \in 1 .. Len(below)}
      BY <2>4 DEF Range
    <3>2. \A k \in 1 .. Len(below) : Range(ps[k]) = Range(D[back[k]])
      BY <2>5
    <3> QED BY <3>1, <3>2
  <2>9. D[i] \in Seq(DOMAIN nodes)
    BY <2>1, <2>2, <2>7, ConcatProperties
  <2>10. Range(D[i]) = Range(below) \cup Range(FlattenSeq(ps))
    BY <2>1, <2>2, <2>7, RangeConcatenation
  <2> QED BY <2>2, <2>7, <2>8, <2>9, <2>10
<1> HIDE DEF D
<1>3. Bad = {}
  <2> SUFFICES ASSUME Bad # {} PROVE FALSE
    OBVIOUS
  <2>1. PICK i \in Bad : \A j \in Bad : j <= i
    <3>1. Bad \in SUBSET (0 .. size - 1)
      OBVIOUS
    <3> HIDE DEF Bad
    <3> QED BY <1>1, <3>1, GreatestBelow
  <2>2. i \in DOMAIN nodes /\ D[i] \notin Seq(DOMAIN nodes)
    BY <1>1
  <2>3. ASSUME NEW c \in i + 1 .. size - 1 PROVE D[c] \in Seq(DOMAIN nodes)
    <3>1. c \in 0 .. size - 1 /\ ~ (c <= i)
      BY <1>1, <2>2
    <3>2. c \notin Bad
      <4> HIDE DEF Bad
      <4> QED BY <2>1, <3>1
    <3> QED BY <3>1, <3>2
  <2> QED BY <2>2, <2>3, <1>2
<1>4. \A c \in 0 .. size - 1 : D[c] \in Seq(DOMAIN nodes)
  BY <1>3
<1>5. \A c \in node + 1 .. size - 1 : D[c] \in Seq(DOMAIN nodes)
  BY <1>1, <1>4
<1> QED BY <1>2, <1>5 DEF Heirs, D

\* The heirs of a node are younger, are closed under having children, and hang
\* together: the parent of an heir is the node or an heir.
IsClan(node, size) ==
    /\ Heirs(node) \subseteq node + 1 .. size - 1
    /\ \A b \in Heirs(node) : nodes[b] \in {node} \cup Heirs(node)
    /\ \A b \in DOMAIN nodes : nodes[b] \in {node} \cup Heirs(node) => b \in Heirs(node)

\* What is listed for a node is exactly the tree below it, at any depth.
LEMMA HeirsAreClan ==
    ASSUME NEW size, IsTree(nodes, size), NEW node \in DOMAIN nodes
    PROVE  IsClan(node, size)
<1> DEFINE Bad == {i \in 0 .. size - 1 : ~ IsClan(i, size)}
<1>1. size \in Nat /\ DOMAIN nodes = 0 .. size - 1
  BY DEF IsTree
<1>2. ASSUME NEW i \in DOMAIN nodes, \A c \in i + 1 .. size - 1 : IsClan(c, size)
      PROVE  IsClan(i, size)
  <2>0. i \in Nat
    BY <1>1
  <2>1. Heirs(i) = Kids(i) \cup UNION {Heirs(c) : c \in Kids(i)}
    BY HeirsOfKids
  <2>2. \A c \in Kids(i) : c \in i + 1 .. size - 1 /\ nodes[c] = i
    BY ChildrenAreYounger DEF Kids
  <2>3. \A c \in Kids(i) : IsClan(c, size)
    BY <2>2, <1>2
  <2>4. ASSUME NEW b \in Heirs(i) PROVE b \in i + 1 .. size - 1
    <3>1. CASE b \in Kids(i)
      BY <3>1, <2>2
    <3>2. CASE b \notin Kids(i)
      <4>1. PICK c \in Kids(i) : b \in Heirs(c)
        BY <2>1, <3>2
      <4>2. b \in c + 1 .. size - 1 /\ c \in i + 1 .. size - 1
        BY <4>1, <2>2, <2>3 DEF IsClan
      <4> QED BY <4>2, <2>0, <1>1
    <3> QED BY <3>1, <3>2
  <2>5. ASSUME NEW b \in Heirs(i) PROVE nodes[b] \in {i} \cup Heirs(i)
    <3>1. CASE b \in Kids(i)
      BY <3>1, <2>2
    <3>2. CASE b \notin Kids(i)
      <4>1. PICK c \in Kids(i) : b \in Heirs(c)
        BY <2>1, <3>2
      <4>2. nodes[b] \in {c} \cup Heirs(c)
        BY <4>1, <2>3 DEF IsClan
      <4> QED BY <4>1, <4>2, <2>1
    <3> QED BY <3>1, <3>2
  <2>6. ASSUME NEW b \in DOMAIN nodes, nodes[b] \in {i} \cup Heirs(i) PROVE b \in Heirs(i)
    <3>1. CASE nodes[b] = i
      BY <3>1, <2>1 DEF Kids
    <3>2. CASE nodes[b] \in Kids(i)
      <4>1. b \in Heirs(nodes[b])
        BY <3>2, <2>3 DEF IsClan
      <4> QED BY <4>1, <3>2, <2>1
    <3>3. CASE nodes[b] # i /\ nodes[b] \notin Kids(i)
      <4>1. PICK c \in Kids(i) : nodes[b] \in Heirs(c)
        BY <2>1, <2>6, <3>3
      <4>2. b \in Heirs(c)
        BY <4>1, <2>3 DEF IsClan
      <4> QED BY <4>2, <2>1
    <3> QED BY <3>1, <3>2, <3>3
  <2> QED BY <2>4, <2>5, <2>6 DEF IsClan
<1>3. Bad = {}
  <2> SUFFICES ASSUME Bad # {} PROVE FALSE
    OBVIOUS
  <2>1. PICK i \in Bad : \A j \in Bad : j <= i
    <3>1. Bad \in SUBSET (0 .. size - 1)
      OBVIOUS
    <3> HIDE DEF Bad
    <3> QED BY <1>1, <3>1, GreatestBelow
  <2>2. i \in DOMAIN nodes /\ ~ IsClan(i, size)
    BY <1>1
  <2>3. ASSUME NEW c \in i + 1 .. size - 1 PROVE IsClan(c, size)
    <3>1. c \in 0 .. size - 1 /\ ~ (c <= i)
      BY <1>1, <2>2
    <3>2. c \notin Bad
      <4> HIDE DEF Bad
      <4> QED BY <2>1, <3>1
    <3> QED BY <3>1, <3>2
  <2> QED BY <2>2, <2>3, <1>2
<1> QED BY <1>1, <1>3

\* The parent of a node that has one is an older node.
LEMMA ParentIsOlder ==
    ASSUME NEW size, IsTree(nodes, size), NEW b \in DOMAIN nodes, nodes[b] # Root
    PROVE  nodes[b] \in DOMAIN nodes /\ nodes[b] < b /\ nodes[b] \in Nat /\ b \in Nat
<1>1. size \in Nat /\ DOMAIN nodes = 0 .. size - 1 /\ nodes[b] \in 0 .. b - 1
  BY DEF IsTree
<1> QED BY <1>1

\* What is below two different children of a node has nothing in common.
LEMMA CousinsDiffer ==
    ASSUME NEW size, IsTree(nodes, size), NEW node \in DOMAIN nodes,
           NEW c \in Kids(node), NEW d \in Kids(node), c # d
    PROVE  c \notin Heirs(d) /\ Heirs(c) \cap Heirs(d) = {}
<1>1. size \in Nat /\ DOMAIN nodes = 0 .. size - 1
  BY DEF IsTree
<1>2. ASSUME NEW x \in Kids(node), NEW y \in Kids(node), x # y PROVE x \notin Heirs(y)
  <2> SUFFICES ASSUME x \in Heirs(y) PROVE FALSE
    OBVIOUS
  <2>1. x \in DOMAIN nodes /\ y \in DOMAIN nodes /\ nodes[x] = node
    BY DEF Kids
  <2>2. node \in {y} \cup Heirs(y) /\ Heirs(y) \subseteq y + 1 .. size - 1
    BY <2>1, HeirsAreClan DEF IsClan
  <2>3. y \in node + 1 .. size - 1
    BY ChildrenAreYounger DEF Kids
  <2> QED BY <2>2, <2>3, <1>1
<1>3. Heirs(c) \cap Heirs(d) = {}
  <2> DEFINE Both == Heirs(c) \cap Heirs(d)
  <2> SUFFICES ASSUME Both # {} PROVE FALSE
    OBVIOUS
  <2>0. c \in DOMAIN nodes /\ d \in DOMAIN nodes
    BY DEF Kids
  <2>1. IsClan(c, size) /\ IsClan(d, size)
    BY <2>0, HeirsAreClan
  <2>2. Both \in SUBSET Nat /\ Both \subseteq DOMAIN nodes
    BY <2>0, <2>1, <1>1 DEF IsClan
  <2>3. PICK x \in Both : \A y \in Both : x <= y
    <3> HIDE DEF Both
    <3> QED BY <2>2, LeastNatural
  <2>4. nodes[x] \in {c} \cup Heirs(c) /\ nodes[x] \in {d} \cup Heirs(d)
    BY <2>1, <2>3 DEF IsClan
  <2>5. nodes[x] \in Both
    BY <2>4, <1>2
  <2>6. x \in DOMAIN nodes /\ nodes[x] # Root
    <3>1. nodes[x] \in Nat
      BY <2>2, <2>5
    <3> QED BY <2>2, <2>3, <3>1, TreeAssumption
  <2>7. nodes[x] < x /\ nodes[x] \in Nat /\ x \in Nat
    BY <2>6, ParentIsOlder
  <2>8. x <= nodes[x]
    BY <2>3, <2>5
  <2> QED BY <2>7, <2>8
<1> QED BY <1>2, <1>3

\* Every descendant is listed once.
LEMMA HeirsOnce ==
    ASSUME NEW size, IsTree(nodes, size), NEW node \in DOMAIN nodes
    PROVE  IsInjective(descendants[node])
<1> DEFINE D == descendants
           Bad == {i \in 0 .. size - 1 : ~ IsInjective(D[i])}
<1>1. size \in Nat /\ DOMAIN nodes = 0 .. size - 1
  BY DEF IsTree
<1>2. ASSUME NEW i \in DOMAIN nodes, \A c \in i + 1 .. size - 1 : IsInjective(D[c])
      PROVE  IsInjective(D[i])
  <2> DEFINE below == children(nodes, i)
             back == Reverse(below)
             ps == [k \in DOMAIN below |-> D[back[k]]]
  <2>1. D[i] = below \o FlattenSeq(ps)
    <3> HIDE DEF D
    <3> QED BY DescendantsLine DEF Line, D
  <2>2. below \in Seq(DOMAIN nodes) /\ Range(below) = Kids(i) /\ IsInjective(below)
    BY ChildrenOf DEF Kids
  <2>3. \A k \in DOMAIN below : back[k] \in i + 1 .. size - 1
    BY ChildrenAreYounger
  <2>k. \A c \in Kids(i) : c \in i + 1 .. size - 1 /\ c \in DOMAIN nodes
    BY ChildrenAreYounger DEF Kids
  <2>h. \A c \in DOMAIN nodes : D[c] \in Seq(DOMAIN nodes) /\ Range(D[c]) = Heirs(c)
    BY HeirsOfKids DEF Heirs
  <2>o. \A c \in DOMAIN nodes : c \notin Heirs(c)
    BY HeirsAreClan, <1>1 DEF IsClan
  <2> HIDE DEF below, D
  <2>4. /\ back \in Seq(DOMAIN nodes) /\ Len(back) = Len(below) /\ Range(back) = Kids(i)
        /\ DOMAIN below = 1 .. Len(below) /\ Len(below) \in Nat /\ DOMAIN back = 1 .. Len(below)
        /\ IsInjective(back)
    BY <2>2, ReverseFacts
  <2> HIDE DEF back
  <2>b. \A k \in 1 .. Len(below) : back[k] \in Kids(i)
    BY <2>4 DEF Range
  <2>5. \A k \in 1 .. Len(below) :
          /\ ps[k] = D[back[k]] /\ ps[k] \in Seq(DOMAIN nodes)
          /\ Range(ps[k]) = Heirs(back[k]) /\ IsInjective(ps[k])
    BY <2>3, <2>4, <2>b, <2>k, <2>h, <1>2
  <2>6. ps \in Seq(Seq(DOMAIN nodes)) /\ Len(ps) = Len(below)
    <3>1. ps \in [1 .. Len(below) -> Seq(DOMAIN nodes)]
      BY <2>4, <2>5
    <3> HIDE DEF ps
    <3> QED BY <2>4, <3>1
  <2> HIDE DEF ps
  <2>7. ASSUME NEW j \in 1 .. Len(below), NEW k \in 1 .. Len(below), j # k
        PROVE  Range(ps[j]) \cap Range(ps[k]) = {}
    <3>1. back[j] # back[k]
      BY <2>4, <2>7 DEF IsInjective
    <3>2. Heirs(back[j]) \cap Heirs(back[k]) = {}
      BY <3>1, <2>b, CousinsDiffer
    <3> QED BY <3>2, <2>5
  <2>8. /\ IsInjective(FlattenSeq(ps)) /\ FlattenSeq(ps) \in Seq(DOMAIN nodes)
        /\ Range(FlattenSeq(ps)) = UNION {Range(ps[k]) : k \in 1 .. Len(below)}
    <3>1. \A j \in 1 .. Len(ps) : IsInjective(ps[j])
      BY <2>5, <2>6
    <3>2. \A j, k \in 1 .. Len(ps) : j # k => Range(ps[j]) \cap Range(ps[k]) = {}
      BY <2>6, <2>7
    <3> QED BY <3>1, <3>2, <2>6, FlattenInjective, FlattenRange
  <2>9. Range(below) \cap Range(FlattenSeq(ps)) = {}
    <3> SUFFICES ASSUME NEW x \in Kids(i), NEW k \in 1 .. Len(below), x \in Range(ps[k])
                 PROVE  FALSE
      BY <2>2, <2>8
    <3>1. x \in Heirs(back[k]) /\ back[k] \in Kids(i)
      BY <2>5, <2>b
    <3>2. x # back[k]
      BY <3>1, <2>o, <2>k
    <3> QED BY <3>1, <3>2, CousinsDiffer
  <2> QED BY <2>1, <2>2, <2>8, <2>9, ConcatInjective
<1> HIDE DEF D
<1>3. Bad = {}
  <2> SUFFICES ASSUME Bad # {} PROVE FALSE
    OBVIOUS
  <2>1. PICK i \in Bad : \A j \in Bad : j <= i
    <3>1. Bad \in SUBSET (0 .. size - 1)
      OBVIOUS
    <3> HIDE DEF Bad
    <3> QED BY <1>1, <3>1, GreatestBelow
  <2>2. i \in DOMAIN nodes /\ ~ IsInjective(D[i])
    BY <1>1
  <2>3. ASSUME NEW c \in i + 1 .. size - 1 PROVE IsInjective(D[c])
    <3>1. c \in 0 .. size - 1 /\ ~ (c <= i)
      BY <1>1, <2>2
    <3>2. c \notin Bad
      <4> HIDE DEF Bad
      <4> QED BY <2>1, <3>1
    <3> QED BY <3>1, <3>2
  <2> QED BY <2>2, <2>3, <1>2
<1> QED BY <1>1, <1>3 DEF D

-----------------------------------------------------------------------------
(***************************************************************************)
(* The inductive invariant of the draft tree                               *)
(***************************************************************************)
Size == Cardinality(DOMAIN nodes)

\* The drafts in the table.
Table == {b \in Drafts : InTable(b)}

\* The types of the decoder's variables.
DraftTypes ==
    /\ IsTree(nodes, Size) /\ DOMAIN nodes \subseteq Drafts
    /\ current_blocks \in [Drafts -> Intents \cup {NoIntent}]
    /\ \A b \in Drafts :
          current_blocks[b] \in {NoIntent, draft_intent(b), verified(draft_intent(b))}
    /\ Table \subseteq DOMAIN nodes
    /\ frontier \in Seq(({Root} \cup DOMAIN nodes) \X Nat)
    /\ pending \in Seq(DOMAIN nodes)
    /\ committed \in SUBSET Table
    /\ freed_rejected_blocks \in Nat /\ draft_blocks_freed_on_rejection \in Nat

\* The tree grows: all of it is in the table, nothing has been verified.
Growing ==
    frontier # <<>> =>
        /\ Table = DOMAIN nodes
        /\ pending = <<>> /\ committed = {}
        /\ freed_rejected_blocks = 0 /\ draft_blocks_freed_on_rejection = 0

\* The parent of b, if it has one, is committed.
IsReached(b) == nodes[b] = Root \/ nodes[b] \in committed

\* The tree is verified from the roots down: what is committed hangs together,
\* the calls still to be made are about the nodes next to it, each once, and
\* what is in the table is committed, about to be verified, or further down.
Resolving ==
    frontier = <<>> =>
        /\ \A b \in committed : IsReached(b)
        /\ IsInjective(pending)
        /\ \A b \in Range(pending) : b \notin committed /\ IsReached(b)
        /\ \A b \in Table : b \in committed \/ b \in Range(pending) \/ ~ IsReached(b)
        /\ freed_rejected_blocks = Cardinality(DOMAIN nodes \ Table)
        /\ draft_blocks_freed_on_rejection = freed_rejected_blocks

\* The inductive invariant of the draft tree.
DraftInvariant == DraftTypes /\ Growing /\ Resolving /\ NoOrphans

\* A block is in the table or not: the intents of drafts are intents.
LEMMA DraftIntents ==
    ASSUME NEW b \in Drafts
    PROVE  /\ draft_intent(b) \in Intents /\ draft_intent(b) # NoIntent
           /\ verified(draft_intent(b)) \in Intents /\ verified(draft_intent(b)) # NoIntent
           /\ verified(verified(draft_intent(b))) = verified(draft_intent(b))
<1>1. draft_intent(b) \in Intents /\ verified(draft_intent(b)) \in Intents
  BY DraftIntentsAssumption
<1>2. NoIntent \notin Intents
  BY NoIntentAssumption, IntentsAssumption
<1>3. verified(verified(draft_intent(b))) = verified(draft_intent(b))
  BY DEF verified, draft_intent
<1> QED BY <1>1, <1>2, <1>3

\* What the number of nodes says of their ids.
LEMMA SizeOfTree ==
    ASSUME NEW tree, NEW count \in Nat, DOMAIN tree = 0 .. count - 1
    PROVE  Cardinality(DOMAIN tree) = count
BY FS_Interval

\* A round of the frontier adds nodes below one that is there, all in the table.
LEMMA ExpandStep ==
    ASSUME DraftInvariant, Expand
    PROVE  DraftInvariant'
<1> DEFINE p == Head(frontier)[1]
           depth == Head(frontier)[2]
           count == IF depth >= tree_depth THEN 0 ELSE tree_width
           ids == ids_from(Size, count)
           new == Range(ids)
           grown == [b \in DOMAIN nodes \cup new |-> IF b \in new THEN p ELSE nodes[b]]
           left == Tail(frontier) \o (IF depth + 1 < tree_depth
                                      THEN [k \in DOMAIN ids |-> <<ids[k], depth + 1>>]
                                      ELSE <<>>)
<1>e. /\ frontier # <<>> /\ new \subseteq Drafts /\ nodes' = grown
      /\ current_blocks' = [b \in Drafts |-> IF b \in new THEN draft_intent(b)
                                                         ELSE current_blocks[b]]
      /\ frontier' = left
      /\ pending' = IF left = <<>> THEN children(grown, Root) ELSE <<>>
      /\ UNCHANGED <<committed, freed_rejected_blocks, draft_blocks_freed_on_rejection>>
  BY DEF Expand, Size
<1>1. /\ Size \in Nat /\ DOMAIN nodes = 0 .. Size - 1
      /\ \A b \in DOMAIN nodes : nodes[b] = Root \/ nodes[b] \in 0 .. b - 1
  BY DEF DraftInvariant, DraftTypes, IsTree
<1> DEFINE Entries == ({Root} \cup DOMAIN nodes) \X Nat
<1>2. frontier \in Seq(Entries)
  BY DEF DraftInvariant, DraftTypes
<1>3. Head(frontier) \in Entries /\ Tail(frontier) \in Seq(Entries)
  <2> HIDE DEF Entries
  <2> QED BY <1>e, <1>2, HeadTailProperties
<1>4. p \in {Root} \cup DOMAIN nodes /\ depth \in Nat
  BY <1>3
<1>5. count \in Nat
  BY TreeAssumption
<1> HIDE DEF p, depth, count
<1>6. /\ new = Size .. Size + count - 1
      /\ ids \in Seq(new)
  BY <1>1, <1>5, NextIds
<1>7. /\ Table = DOMAIN nodes /\ committed = {}
      /\ freed_rejected_blocks = 0 /\ draft_blocks_freed_on_rejection = 0
  BY <1>e DEF DraftInvariant, Growing
<1> HIDE DEF ids, new
<1>8. /\ DOMAIN grown = 0 .. (Size + count) - 1
      /\ \A b \in DOMAIN grown : grown[b] = IF b \in new THEN p ELSE nodes[b]
  <2>1. DOMAIN nodes \cup new = 0 .. (Size + count) - 1
    BY <1>1, <1>5, <1>6
  <2> QED BY <2>1
<1>g. DOMAIN grown = DOMAIN nodes \cup new
  OBVIOUS
<1> HIDE DEF grown
<1>9. IsTree(grown, Size + count)
  <2>1. Size + count \in Nat
    BY <1>1, <1>5
  <2>2. ASSUME NEW b \in DOMAIN grown PROVE grown[b] = Root \/ grown[b] \in 0 .. b - 1
    <3>1. CASE b \in new
      <4>1. grown[b] = p /\ b \in Size .. Size + count - 1
        BY <3>1, <1>6, <1>8
      <4> QED BY <4>1, <1>1, <1>4, <1>5
    <3>2. CASE b \notin new
      <4>1. b \in DOMAIN nodes /\ grown[b] = nodes[b]
        BY <3>2, <1>8, <1>g
      <4> QED BY <4>1, <1>1
    <3> QED BY <3>1, <3>2
  <2> QED BY <2>1, <2>2, <1>8 DEF IsTree
<1>10. Cardinality(DOMAIN grown) = Size + count
  <2>1. Size + count \in Nat
    BY <1>1, <1>5
  <2> QED BY <2>1, <1>8, SizeOfTree
<1>11. IsTree(nodes, Size)' /\ (DOMAIN nodes \subseteq Drafts)'
  <2>1. IsTree(nodes, Size)'
    BY <1>e, <1>9, <1>10 DEF Size, IsTree
  <2>2. (DOMAIN nodes \subseteq Drafts)'
    BY <1>e, <1>g DEF DraftInvariant, DraftTypes
  <2> QED BY <2>1, <2>2
<1>12. \A b \in Drafts : current_blocks'[b] = IF b \in new THEN draft_intent(b)
                                                        ELSE current_blocks[b]
  BY <1>e
<1>13. Table' = DOMAIN nodes'
  <2>1. Table' = {b \in Drafts : current_blocks'[b] # NoIntent}
    BY DEF Table, InTable
  <2>2. Table = {b \in Drafts : current_blocks[b] # NoIntent}
    BY DEF Table, InTable
  <2>3. Table' = Table \cup new
    <3>1. ASSUME NEW b \in Drafts
          PROVE  b \in Table' <=> b \in Table \cup new
      <4>1. CASE b \in new
        BY <4>1, <2>1, <1>12, DraftIntents
      <4>2. CASE b \notin new
        BY <4>2, <2>1, <2>2, <1>12
      <4> QED BY <4>1, <4>2
    <3> QED BY <3>1, <2>1, <2>2, <1>e
  <2> QED BY <2>3, <1>7, <1>e, <1>g
<1>14. /\ current_blocks' \in [Drafts -> Intents \cup {NoIntent}]
       /\ \A b \in Drafts :
             current_blocks'[b] \in {NoIntent, draft_intent(b), verified(draft_intent(b))}
  <2>1. \A b \in Drafts :
          /\ current_blocks[b] \in Intents \cup {NoIntent}
          /\ current_blocks[b] \in {NoIntent, draft_intent(b), verified(draft_intent(b))}
    BY DEF DraftInvariant, DraftTypes
  <2>2. \A b \in Drafts :
          /\ current_blocks'[b] \in Intents \cup {NoIntent}
          /\ current_blocks'[b] \in {NoIntent, draft_intent(b), verified(draft_intent(b))}
    BY <2>1, <1>12, DraftIntents
  <2>3. current_blocks' = [b \in Drafts |-> current_blocks'[b]]
    BY <1>e
  <2> QED BY <2>2, <2>3
<1>15. frontier' \in Seq(({Root} \cup DOMAIN nodes') \X Nat)
  <2> DEFINE Later == ({Root} \cup DOMAIN grown) \X Nat
             next == [k \in DOMAIN ids |-> <<ids[k], depth + 1>>]
  <2>1. Entries \subseteq Later
    BY <1>g
  <2>2. Tail(frontier) \in Seq(Later)
    <3> HIDE DEF Entries, Later
    <3> QED BY <2>1, <1>3, SeqMonotonic
  <2>3. next \in Seq(Later)
    <3>1. Len(ids) \in Nat /\ DOMAIN ids = 1 .. Len(ids)
      BY <1>6
    <3>2. \A k \in 1 .. Len(ids) : <<ids[k], depth + 1>> \in Later
      <4>1. \A k \in 1 .. Len(ids) : ids[k] \in new
        <5>1. ids \in Seq(new)
          BY <1>6
        <5> QED BY <5>1, ElementOfSeq
      <4>2. depth + 1 \in Nat
        BY <1>4
      <4>3. \A k \in 1 .. Len(ids) : ids[k] \in {Root} \cup DOMAIN grown
        BY <4>1, <1>g
      <4> QED BY <4>2, <4>3
    <3>3. next \in [1 .. Len(ids) -> Later]
      BY <3>1, <3>2
    <3> HIDE DEF next, Later
    <3> QED BY <3>1, <3>3
  <2>4. <<>> \in Seq(Later)
    BY EmptySeq
  <2> HIDE DEF next, Later
  <2>5. (IF depth + 1 < tree_depth THEN next ELSE <<>>) \in Seq(Later)
    BY <2>3, <2>4
  <2>6. left \in Seq(Later)
    BY <2>2, <2>5, ConcatProperties DEF next
  <2> HIDE DEF left
  <2> QED BY <2>6, <1>e DEF Later
<1> HIDE DEF left
<1>16. /\ children(grown, Root) \in Seq(DOMAIN grown)
       /\ Range(children(grown, Root)) = {b \in DOMAIN grown : grown[b] = Root}
       /\ IsInjective(children(grown, Root))
  BY <1>9, ChildrenOf
<1>17. pending' \in Seq(DOMAIN nodes')
  <2>1. <<>> \in Seq(DOMAIN grown)
    BY EmptySeq
  <2> QED BY <2>1, <1>16, <1>e
<1>18. DraftTypes'
  <2>1. committed' = {} /\ freed_rejected_blocks' = 0 /\ draft_blocks_freed_on_rejection' = 0
    BY <1>e, <1>7
  <2>2. committed' \in SUBSET Table' /\ Table' \subseteq DOMAIN nodes'
    BY <2>1, <1>13
  <2> QED BY <2>1, <2>2, <1>11, <1>14, <1>15, <1>17 DEF DraftTypes
<1>19. Growing'
  BY <1>e, <1>7, <1>13 DEF Growing
<1>20. Resolving'
  <2> SUFFICES ASSUME frontier' = <<>>
               PROVE  /\ \A b \in committed' : IsReached(b)'
                      /\ IsInjective(pending')
                      /\ \A b \in Range(pending') : b \notin committed' /\ IsReached(b)'
                      /\ \A b \in Table' :
                            b \in committed' \/ b \in Range(pending') \/ ~ IsReached(b)'
                      /\ freed_rejected_blocks' = Cardinality(DOMAIN nodes' \ Table')
                      /\ draft_blocks_freed_on_rejection' = freed_rejected_blocks'
    BY DEF Resolving
  <2>1. /\ pending' = children(grown, Root) /\ committed' = {}
        /\ Range(pending') = {b \in DOMAIN grown : grown[b] = Root} /\ IsInjective(pending')
    BY <1>e, <1>7, <1>16
  <2>2. \A b : IsReached(b)' <=> grown[b] = Root
    BY <2>1, <1>e DEF IsReached
  <2>3. DOMAIN nodes' \ Table' = {} /\ Cardinality({}) = 0
    BY <1>13, FS_EmptySet
  <2> QED BY <2>1, <2>2, <2>3, <1>e, <1>7, <1>13
<1>21. NoOrphans'
  <2> SUFFICES ASSUME NEW b \in DOMAIN nodes', nodes'[b] # Root
               PROVE  InTable(nodes[b])'
    BY DEF NoOrphans
  <2>1. b \in 0 .. (Size + count) - 1 /\ nodes'[b] \in 0 .. b - 1
    BY <1>e, <1>9 DEF IsTree
  <2>2. nodes'[b] \in DOMAIN nodes'
    BY <2>1, <1>1, <1>5, <1>8, <1>e
  <2>3. nodes'[b] \in Table'
    BY <2>2, <1>13
  <2> QED BY <2>3 DEF Table
<1> QED BY <1>18, <1>19, <1>20, <1>21 DEF DraftInvariant

\* What process_verify_event works on: the node and all below it that is in the
\* table, each once.
LEMMA SubtreeOf ==
    ASSUME DraftTypes, NEW node \in DOMAIN nodes
    PROVE  /\ subtree(node) \in Seq(DOMAIN nodes)
           /\ Range(subtree(node)) = ({node} \cup Heirs(node)) \cap Table
           /\ IsInjective(subtree(node))
           /\ Cardinality(Range(subtree(node))) = Len(subtree(node))
<1>1. IsTree(nodes, Size) /\ DOMAIN nodes = 0 .. Size - 1 /\ Size \in Nat
  BY DEF DraftTypes, IsTree
<1>2. /\ descendants[node] \in Seq(DOMAIN nodes) /\ IsInjective(descendants[node])
      /\ node \notin Heirs(node)
  BY <1>1, HeirsOfKids, HeirsOnce, HeirsAreClan DEF IsClan
<1>3. /\ <<node>> \in Seq(DOMAIN nodes) /\ IsInjective(<<node>>) /\ Range(<<node>>) = {node}
  BY DEF IsInjective, Range
<1> DEFINE ids == <<node>> \o descendants[node]
<1>4. ids \in Seq(DOMAIN nodes) /\ IsInjective(ids) /\ Range(ids) = {node} \cup Heirs(node)
  <2>1. ids \in Seq(DOMAIN nodes)
    BY <1>2, <1>3, ConcatProperties
  <2>2. Range(ids) = {node} \cup Heirs(node)
    <3> DEFINE S == DOMAIN nodes
    <3>1. ASSUME NEW s \in Seq(S), NEW t \in Seq(S)
          PROVE  Range(s \o t) = Range(s) \cup Range(t)
      <4> HIDE DEF S
      <4> QED BY RangeConcatenation
    <3>2. Range(ids) = Range(<<node>>) \cup Range(descendants[node])
      BY <1>2, <1>3, <3>1
    <3> QED BY <3>2, <1>3 DEF Heirs
  <2>3. Range(<<node>>) \cap Range(descendants[node]) = {}
    BY <1>2, <1>3 DEF Heirs
  <2>4. IsInjective(ids)
    BY <2>3, <1>2, <1>3, ConcatInjective
  <2> QED BY <2>1, <2>2, <2>4
<1>5. subtree(node) = kept(ids, Table)
  BY DEF subtree, Table
<1> HIDE DEF ids
<1>6. /\ subtree(node) \in Seq(DOMAIN nodes) /\ IsInjective(subtree(node))
      /\ Range(subtree(node)) = ({node} \cup Heirs(node)) \cap Table
  BY <1>4, <1>5, KeptIds
<1> QED BY <1>6, InjectiveLen

\* The node whose turn it is, and the calls after it.
LEMMA NextCall ==
    ASSUME DraftInvariant, frontier = <<>>, pending # <<>>
    PROVE  /\ Head(pending) \in DOMAIN nodes /\ Head(pending) \in Nat /\ Head(pending) # Root
           /\ Head(pending) \notin committed
           /\ IsReached(Head(pending))
           /\ Tail(pending) \in Seq(DOMAIN nodes) /\ IsInjective(Tail(pending))
           /\ Range(pending) = {Head(pending)} \cup Range(Tail(pending))
           /\ Head(pending) \notin Range(Tail(pending))
<1>1. pending \in Seq(DOMAIN nodes) /\ IsInjective(pending)
  BY DEF DraftInvariant, DraftTypes, Resolving
<1>2. /\ Head(pending) \in DOMAIN nodes
      /\ Tail(pending) \in Seq(DOMAIN nodes) /\ IsInjective(Tail(pending))
      /\ Range(pending) = {Head(pending)} \cup Range(Tail(pending))
      /\ Head(pending) \notin Range(Tail(pending))
  BY <1>1, HeadAndTail
<1>3. Head(pending) \notin committed /\ IsReached(Head(pending))
  BY <1>2 DEF DraftInvariant, Resolving
<1>4. Head(pending) \in Nat
  BY <1>2 DEF DraftInvariant, DraftTypes, IsTree
<1> QED BY <1>2, <1>3, <1>4, TreeAssumption

\* Verifying a node changes intents in the table, and what is in it only by a
\* rejection.
LEMMA AcceptedTable ==
    ASSUME DraftTypes, NEW node \in DOMAIN nodes, promote(node)
    PROVE  /\ Table' = Table
           /\ current_blocks' \in [Drafts -> Intents \cup {NoIntent}]
           /\ \A b \in Drafts :
                 current_blocks'[b] \in {NoIntent, draft_intent(b), verified(draft_intent(b))}
<1> DEFINE accepted == Range(subtree(node))
<1>1. accepted \subseteq Table
  BY SubtreeOf
<1>2. current_blocks' = [b \in Drafts |-> IF b \in accepted THEN promoted(b)
                                                            ELSE current_blocks[b]]
  BY DEF promote
<1> HIDE DEF accepted
<1>3. ASSUME NEW b \in Drafts
      PROVE  /\ current_blocks'[b] \in Intents \cup {NoIntent}
             /\ current_blocks'[b] \in {NoIntent, draft_intent(b), verified(draft_intent(b))}
             /\ current_blocks'[b] = NoIntent <=> current_blocks[b] = NoIntent
  <2>1. /\ current_blocks[b] \in {NoIntent, draft_intent(b), verified(draft_intent(b))}
        /\ current_blocks[b] \in Intents \cup {NoIntent}
    BY DEF DraftTypes
  <2>2. CASE b \in accepted
    <3>1. current_blocks'[b] = verified(current_blocks[b]) /\ current_blocks[b] # NoIntent
      BY <1>1, <1>2, <2>2 DEF promoted, Table, InTable
    <3>2. current_blocks'[b] = verified(draft_intent(b))
      BY <2>1, <3>1, DraftIntents
    <3> QED BY <3>1, <3>2, DraftIntents
  <2>3. CASE b \notin accepted
    BY <1>2, <2>1, <2>3
  <2> QED BY <2>2, <2>3
<1>4. current_blocks' = [b \in Drafts |-> current_blocks'[b]]
  BY <1>2
<1>5. Table' = {b \in Drafts : current_blocks'[b] # NoIntent}
  BY DEF Table, InTable
<1>6. Table = {b \in Drafts : current_blocks[b] # NoIntent}
  BY DEF Table, InTable
<1>7. Table' = Table
  BY <1>3, <1>5, <1>6
<1>8. current_blocks' \in [Drafts -> Intents \cup {NoIntent}]
  BY <1>3, <1>4
<1> QED BY <1>3, <1>7, <1>8

\* A rejected subtree leaves the table, and nothing else does.
LEMMA RejectedTable ==
    ASSUME DraftTypes, NEW node \in DOMAIN nodes, doom(node)
    PROVE  /\ Table' = Table \ ({node} \cup Heirs(node))
           /\ current_blocks' \in [Drafts -> Intents \cup {NoIntent}]
           /\ \A b \in Drafts :
                 current_blocks'[b] \in {NoIntent, draft_intent(b), verified(draft_intent(b))}
<1> DEFINE doomed == Range(subtree(node))
<1>1. doomed = ({node} \cup Heirs(node)) \cap Table
  BY SubtreeOf
<1>2. current_blocks' = [b \in Drafts |-> IF b \in doomed THEN NoIntent ELSE current_blocks[b]]
  BY DEF doom
<1> HIDE DEF doomed
<1>3. ASSUME NEW b \in Drafts
      PROVE  /\ current_blocks'[b] \in Intents \cup {NoIntent}
             /\ current_blocks'[b] \in {NoIntent, draft_intent(b), verified(draft_intent(b))}
             /\ current_blocks'[b] = NoIntent <=> current_blocks[b] = NoIntent \/ b \in doomed
  <2>1. /\ current_blocks[b] \in {NoIntent, draft_intent(b), verified(draft_intent(b))}
        /\ current_blocks[b] \in Intents \cup {NoIntent}
    BY DEF DraftTypes
  <2>2. current_blocks'[b] = IF b \in doomed THEN NoIntent ELSE current_blocks[b]
    BY <1>2
  <2> QED BY <2>1, <2>2
<1>4. current_blocks' = [b \in Drafts |-> current_blocks'[b]]
  BY <1>2
<1>5. Table' = {b \in Drafts : current_blocks'[b] # NoIntent}
  BY DEF Table, InTable
<1>6. Table = {b \in Drafts : current_blocks[b] # NoIntent}
  BY DEF Table, InTable
<1>7. Table' = Table \ ({node} \cup Heirs(node))
  BY <1>1, <1>3, <1>5, <1>6
<1>8. current_blocks' \in [Drafts -> Intents \cup {NoIntent}]
  BY <1>3, <1>4
<1> QED BY <1>3, <1>7, <1>8

\* Verifying a node moves it to the committed ones, and its children, of which
\* none has had its turn, in front of the calls to be made.
LEMMA AcceptStep ==
    ASSUME DraftInvariant, frontier = <<>>, pending # <<>>, InTable(Head(pending)),
           Accept(Head(pending)), UNCHANGED <<nodes, frontier>>
    PROVE  DraftInvariant'
<1> DEFINE node == Head(pending)
           rest == Tail(pending)
           below == children(nodes, node)
<1>1. /\ node \in DOMAIN nodes /\ node \in Nat /\ node # Root /\ node \notin committed /\ IsReached(node)
      /\ rest \in Seq(DOMAIN nodes) /\ IsInjective(rest)
      /\ Range(pending) = {node} \cup Range(rest) /\ node \notin Range(rest)
  BY NextCall
<1>2. /\ promote(node) /\ committed' = committed \cup {node} /\ pending' = below \o rest
      /\ UNCHANGED <<nodes, frontier, freed_rejected_blocks, draft_blocks_freed_on_rejection>>
  BY DEF Accept
<1>3. /\ IsTree(nodes, Size) /\ DOMAIN nodes \subseteq Drafts
      /\ Table \subseteq DOMAIN nodes /\ committed \in SUBSET Table
  BY DEF DraftInvariant, DraftTypes
<1>4. /\ below \in Seq(DOMAIN nodes) /\ Range(below) = Kids(node) /\ IsInjective(below)
  BY <1>1, <1>3, ChildrenOf DEF Kids
<1> DEFINE kids == Kids(node)
<1>k. \A b \in DOMAIN nodes : b \in kids <=> nodes[b] = node
  BY DEF Kids
<1>5. /\ \A b \in committed : IsReached(b)
      /\ \A b \in Range(pending) : b \notin committed /\ IsReached(b)
      /\ \A b \in Table : b \in committed \/ b \in Range(pending) \/ ~ IsReached(b)
      /\ freed_rejected_blocks = Cardinality(DOMAIN nodes \ Table)
      /\ draft_blocks_freed_on_rejection = freed_rejected_blocks
  BY DEF DraftInvariant, Resolving
<1>6. /\ Table' = Table
      /\ current_blocks' \in [Drafts -> Intents \cup {NoIntent}]
      /\ \A b \in Drafts :
            current_blocks'[b] \in {NoIntent, draft_intent(b), verified(draft_intent(b))}
  BY <1>1, <1>2, AcceptedTable DEF DraftInvariant
<1>t. node \in Table
  BY <1>1, <1>3 DEF Table
<1> HIDE DEF node, rest, below, kids
<1>7. \A b : IsReached(b)' <=> nodes[b] = Root \/ nodes[b] \in committed \cup {node}
  BY <1>2 DEF IsReached
<1>8. kids \subseteq DOMAIN nodes /\ kids \cap Range(rest) = {} /\ kids \cap committed = {}
      /\ node \notin kids
  <2>1. kids \subseteq DOMAIN nodes
    BY DEF Kids, kids
  <2>2. ASSUME NEW b \in kids PROVE ~ IsReached(b) /\ b # node
    <3>1. b \in DOMAIN nodes /\ nodes[b] = node
      BY <2>1, <1>k
    <3>2. b # node
      BY <3>1, <1>1, <1>3, ParentIsOlder
    <3> QED BY <3>1, <3>2, <1>1 DEF IsReached
  <2> QED BY <2>1, <2>2, <1>1, <1>5
<1>9. /\ pending' \in Seq(DOMAIN nodes) /\ IsInjective(pending')
      /\ Range(pending') = kids \cup Range(rest)
  <2>1. ASSUME NEW S, below \in Seq(S), rest \in Seq(S)
        PROVE  below \o rest \in Seq(S) /\ Range(below \o rest) = Range(below) \cup Range(rest)
    BY <2>1, ConcatProperties, RangeConcatenation
  <2>2. below \o rest \in Seq(DOMAIN nodes) /\ Range(below \o rest) = kids \cup Range(rest)
    BY <2>1, <1>1, <1>4 DEF kids
  <2>3. IsInjective(below \o rest)
    BY <1>1, <1>4, <1>8, ConcatInjective DEF kids
  <2> QED BY <2>2, <2>3, <1>2
<1>10. DraftTypes'
  <2>1. Size' = Size /\ IsTree(nodes, Size)'
    BY <1>2, <1>3 DEF Size, IsTree
  <2>2. committed' \in SUBSET Table'
    BY <1>2, <1>3, <1>6, <1>t
  <2> QED BY <2>1, <2>2, <1>2, <1>3, <1>6, <1>9 DEF DraftTypes, DraftInvariant
<1>11. Growing'
  BY <1>2 DEF Growing
<1>12. Resolving'
  <2>1. \A b \in committed' : IsReached(b)'
    BY <1>1, <1>2, <1>5, <1>7 DEF IsReached
  <2>2. \A b \in Range(pending') : b \notin committed' /\ IsReached(b)'
    <3> SUFFICES ASSUME NEW b \in Range(pending') PROVE b \notin committed' /\ IsReached(b)'
      OBVIOUS
    <3>1. CASE b \in kids
      BY <3>1, <1>2, <1>7, <1>8, <1>k
    <3>2. CASE b \in Range(rest)
      BY <3>2, <1>1, <1>2, <1>5, <1>7 DEF IsReached
    <3> QED BY <3>1, <3>2, <1>9
  <2>3. \A b \in Table' : b \in committed' \/ b \in Range(pending') \/ ~ IsReached(b)'
    <3> SUFFICES ASSUME NEW b \in Table, b \notin committed', IsReached(b)'
                 PROVE  b \in Range(pending')
      BY <1>6
    <3>1. CASE nodes[b] = node
      BY <3>1, <1>3, <1>k, <1>9
    <3>2. CASE nodes[b] # node
      BY <3>2, <1>1, <1>2, <1>5, <1>7, <1>9 DEF IsReached
    <3> QED BY <3>1, <3>2
  <2> QED BY <2>1, <2>2, <2>3, <1>2, <1>5, <1>6, <1>9 DEF Resolving
<1>13. NoOrphans'
  <2>1. \A b \in DOMAIN nodes : b \in Drafts
    BY <1>3
  <2>2. \A b \in Drafts : InTable(b)' <=> InTable(b)
    BY <1>6 DEF Table
  <2> SUFFICES ASSUME NEW b \in DOMAIN nodes, InTable(b)', nodes[b] # Root
               PROVE  InTable(nodes[b])'
    BY <1>2 DEF NoOrphans
  <2>3. nodes[b] \in DOMAIN nodes
    BY <1>3, ParentIsOlder
  <2>4. InTable(nodes[b])
    BY <2>1, <2>2 DEF DraftInvariant, NoOrphans
  <2> QED BY <2>1, <2>2, <2>3, <2>4
<1> QED BY <1>10, <1>11, <1>12, <1>13 DEF DraftInvariant

\* No descendant of a node that has not been verified is committed.
LEMMA HeirsUnverified ==
    ASSUME DraftTypes, NEW node \in DOMAIN nodes, node \notin committed,
           \A b \in committed : IsReached(b)
    PROVE  Heirs(node) \cap committed = {}
<1> DEFINE Both == Heirs(node) \cap committed
<1> SUFFICES ASSUME Both # {} PROVE FALSE
  OBVIOUS
<1>1. IsTree(nodes, Size) /\ DOMAIN nodes = 0 .. Size - 1 /\ Size \in Nat
  BY DEF DraftTypes, IsTree
<1>2. IsClan(node, Size) /\ node \in Nat
  BY <1>1, HeirsAreClan
<1>3. Both \in SUBSET Nat /\ Both \subseteq DOMAIN nodes
  BY <1>1, <1>2 DEF IsClan
<1>4. PICK x \in Both : \A y \in Both : x <= y
  <2> HIDE DEF Both
  <2> QED BY <1>3, LeastNatural
<1>5. nodes[x] \in {node} \cup Heirs(node) /\ Heirs(node) \subseteq Nat
  BY <1>1, <1>2, <1>4 DEF IsClan
<1>6. nodes[x] # Root
  BY <1>2, <1>5, TreeAssumption
<1>7. nodes[x] \in Both
  BY <1>4, <1>5, <1>6 DEF IsReached
<1>8. x \in DOMAIN nodes
  BY <1>3, <1>4
<1>9. nodes[x] < x /\ nodes[x] \in Nat /\ x \in Nat
  BY <1>1, <1>6, <1>8, ParentIsOlder
<1>10. x <= nodes[x]
  BY <1>4, <1>7
<1> QED BY <1>9, <1>10

\* Rejecting a node takes all below it from the table, and each is counted.
LEMMA RejectStep ==
    ASSUME DraftInvariant, frontier = <<>>, pending # <<>>, InTable(Head(pending)),
           Reject(Head(pending)), UNCHANGED <<nodes, frontier>>
    PROVE  DraftInvariant'
<1> DEFINE node == Head(pending)
           rest == Tail(pending)
           doomed == Range(subtree(node))
<1>1. /\ node \in DOMAIN nodes /\ node \in Nat /\ node # Root /\ node \notin committed /\ IsReached(node)
      /\ rest \in Seq(DOMAIN nodes) /\ IsInjective(rest)
      /\ Range(pending) = {node} \cup Range(rest) /\ node \notin Range(rest)
  BY NextCall
<1>2. /\ doom(node) /\ pending' = rest
      /\ freed_rejected_blocks' = freed_rejected_blocks + Len(subtree(node))
      /\ draft_blocks_freed_on_rejection' =
            draft_blocks_freed_on_rejection + Cardinality(doomed)
      /\ UNCHANGED <<nodes, frontier, committed>>
  BY DEF Reject, doom
<1>3. /\ IsTree(nodes, Size) /\ DOMAIN nodes \subseteq Drafts
      /\ Table \subseteq DOMAIN nodes /\ committed \in SUBSET Table
      /\ freed_rejected_blocks \in Nat /\ draft_blocks_freed_on_rejection \in Nat
  BY DEF DraftInvariant, DraftTypes
<1>5. /\ \A b \in committed : IsReached(b)
      /\ \A b \in Range(pending) : b \notin committed /\ IsReached(b)
      /\ \A b \in Table : b \in committed \/ b \in Range(pending) \/ ~ IsReached(b)
      /\ freed_rejected_blocks = Cardinality(DOMAIN nodes \ Table)
      /\ draft_blocks_freed_on_rejection = freed_rejected_blocks
  BY DEF DraftInvariant, Resolving
<1>6. /\ Table' = Table \ ({node} \cup Heirs(node))
      /\ current_blocks' \in [Drafts -> Intents \cup {NoIntent}]
      /\ \A b \in Drafts :
            current_blocks'[b] \in {NoIntent, draft_intent(b), verified(draft_intent(b))}
  BY <1>1, <1>2, RejectedTable DEF DraftInvariant
<1>7. /\ subtree(node) \in Seq(DOMAIN nodes)
      /\ doomed = ({node} \cup Heirs(node)) \cap Table
      /\ Cardinality(doomed) = Len(subtree(node))
  BY <1>1, SubtreeOf DEF DraftInvariant
<1>8. Heirs(node) \cap committed = {}
  BY <1>1, <1>5, HeirsUnverified DEF DraftInvariant
<1>9. IsClan(node, Size)
  BY <1>1, <1>3, HeirsAreClan
<1> DEFINE count == Len(subtree(node))
<1>l. count \in Nat
  BY <1>7, LenProperties
<1> HIDE DEF node, rest, doomed, count
<1>10. IsFiniteSet(DOMAIN nodes)
  <2>1. Size \in Nat /\ DOMAIN nodes = 0 .. Size - 1
    BY <1>3 DEF IsTree
  <2> QED BY <2>1, FS_Interval
<1>11. Cardinality(DOMAIN nodes \ Table') = Cardinality(DOMAIN nodes \ Table) + count
  <2> DEFINE gone == DOMAIN nodes \ Table
  <2>1. DOMAIN nodes \ Table' = gone \cup doomed /\ gone \cap doomed = {}
    BY <1>3, <1>6, <1>7
  <2>2. IsFiniteSet(gone) /\ IsFiniteSet(doomed) /\ Cardinality({}) = 0
    <3>1. gone \subseteq DOMAIN nodes /\ doomed \subseteq DOMAIN nodes
      BY <1>3, <1>7
    <3> HIDE DEF gone
    <3> QED BY <3>1, <1>10, FS_Subset, FS_EmptySet
  <2> HIDE DEF gone
  <2>3. Cardinality(gone \cup doomed)
          = Cardinality(gone) + Cardinality(doomed) - Cardinality(gone \cap doomed)
    BY <2>2, FS_Union
  <2>4. Cardinality(gone) \in Nat /\ Cardinality(doomed) = count
    BY <2>2, FS_CardinalityType, <1>7 DEF count
  <2>5. Cardinality(gone \cup doomed) = Cardinality(gone) + count
    <3>1. Cardinality(gone \cap doomed) = 0
      BY <2>1, <2>2
    <3>2. Cardinality(gone \cup doomed) = Cardinality(gone) + count - 0
      BY <2>3, <2>4, <3>1
    <3> QED BY <3>2, <2>4, <1>l
  <2> QED BY <2>1, <2>5 DEF gone
<1>12. DraftTypes'
  <2>1. Size' = Size /\ IsTree(nodes, Size)'
    BY <1>2, <1>3 DEF Size, IsTree
  <2>2. committed' \in SUBSET Table' /\ Table' \subseteq DOMAIN nodes'
    BY <1>1, <1>2, <1>3, <1>6, <1>8
  <2>3. freed_rejected_blocks' \in Nat /\ draft_blocks_freed_on_rejection' \in Nat
    BY <1>2, <1>3, <1>7, <1>l DEF count
  <2> QED BY <2>1, <2>2, <2>3, <1>1, <1>2, <1>3, <1>6 DEF DraftTypes, DraftInvariant
<1>13. Growing'
  BY <1>2 DEF Growing
<1>14. Resolving'
  <2>1. \A b : IsReached(b)' <=> IsReached(b)
    BY <1>2 DEF IsReached
  <2>2. IsInjective(pending')
    BY <1>1, <1>2
  <2>3. \A b \in Table' : b \in Table /\ b # node
    BY <1>6
  <2>4. \A b \in Table' : b \in committed' \/ b \in Range(pending') \/ ~ IsReached(b)'
    BY <2>1, <2>3, <1>1, <1>2, <1>5
  <2>5. /\ freed_rejected_blocks' = Cardinality(DOMAIN nodes \ Table')
        /\ draft_blocks_freed_on_rejection' = freed_rejected_blocks'
    BY <1>2, <1>5, <1>7, <1>11 DEF count
  <2> QED BY <2>1, <2>2, <2>4, <2>5, <1>1, <1>2, <1>5 DEF Resolving
<1>15. NoOrphans'
  <2>1. \A b \in DOMAIN nodes : b \in Drafts
    BY <1>3
  <2>2. \A b \in Drafts : InTable(b)' <=> InTable(b) /\ b \notin {node} \cup Heirs(node)
    BY <1>6 DEF Table
  <2> SUFFICES ASSUME NEW b \in DOMAIN nodes, InTable(b)', nodes[b] # Root
               PROVE  InTable(nodes[b])'
    BY <1>2 DEF NoOrphans
  <2>3. nodes[b] \in DOMAIN nodes
    BY <1>3, ParentIsOlder
  <2>4. InTable(nodes[b])
    BY <2>1, <2>2 DEF DraftInvariant, NoOrphans
  <2>5. nodes[b] \notin {node} \cup Heirs(node)
    BY <2>1, <2>2, <1>9 DEF IsClan
  <2> QED BY <2>1, <2>2, <2>3, <2>4, <2>5
<1> QED BY <1>12, <1>13, <1>14, <1>15 DEF DraftInvariant

\* A node that has left the table is passed over.
LEMMA PassStep ==
    ASSUME DraftInvariant, frontier = <<>>, pending # <<>>, ~ InTable(Head(pending)),
           pending' = Tail(pending),
           UNCHANGED <<nodes, frontier, current_blocks, committed, freed_rejected_blocks,
                       draft_blocks_freed_on_rejection>>
    PROVE  DraftInvariant'
<1> DEFINE node == Head(pending)
           rest == Tail(pending)
<1>1. /\ rest \in Seq(DOMAIN nodes) /\ IsInjective(rest)
      /\ Range(pending) = {node} \cup Range(rest)
  BY NextCall
<1>2. node \notin Table
  BY DEF Table
<1>3. Table' = Table /\ Size' = Size /\ \A b : IsReached(b)' <=> IsReached(b)
  BY DEF Table, InTable, Size, IsReached
<1>4. pending' = rest
  OBVIOUS
<1> HIDE DEF node, rest
<1>5. DraftTypes'
  BY <1>1, <1>3, <1>4 DEF DraftInvariant, DraftTypes, IsTree
<1>6. Growing'
  BY DEF Growing
<1>7. Resolving'
  BY <1>1, <1>2, <1>3, <1>4 DEF DraftInvariant, Resolving
<1>8. NoOrphans'
  BY DEF DraftInvariant, NoOrphans, InTable
<1> QED BY <1>5, <1>6, <1>7, <1>8 DEF DraftInvariant

\* Every step of the speculative producer keeps the invariant.
LEMMA DraftStep ==
    ASSUME DraftInvariant, SpeculativeNext
    PROVE  DraftInvariant'
<1>1. CASE Expand
  BY <1>1, ExpandStep
<1>2. CASE resolve
  <2>1. frontier = <<>> /\ pending # <<>> /\ UNCHANGED <<nodes, frontier>>
    BY <1>2 DEF resolve
  <2>2. CASE InTable(Head(pending)) /\ Accept(Head(pending))
    BY <2>1, <2>2, AcceptStep
  <2>3. CASE InTable(Head(pending)) /\ Reject(Head(pending))
    BY <2>1, <2>3, RejectStep
  <2>4. CASE ~ InTable(Head(pending))
    BY <1>2, <2>1, <2>4, PassStep DEF resolve
  <2> QED BY <1>2, <2>2, <2>3, <2>4 DEF resolve
<1>3. CASE UNCHANGED draft
  BY <1>3 DEF draft, DraftInvariant, DraftTypes, Growing, Resolving, NoOrphans, IsReached,
              Table, InTable, Size, IsTree
<1> QED BY <1>1, <1>2, <1>3 DEF SpeculativeNext

\* Before the first round there is no node; a producer that does not start has
\* no round to make.
LEMMA DraftStart ==
    ASSUME NoDrafts, frontier \in {<<>>, <<<<Root, 0>>>>}
    PROVE  DraftInvariant
<1>1. /\ DOMAIN nodes = {} /\ pending = <<>> /\ committed = {}
      /\ current_blocks = [b \in Drafts |-> NoIntent]
      /\ freed_rejected_blocks = 0 /\ draft_blocks_freed_on_rejection = 0
  BY DEF NoDrafts
<1>2. Size = 0 /\ Cardinality({}) = 0
  BY <1>1, FS_EmptySet DEF Size
<1>3. IsTree(nodes, Size)
  BY <1>1, <1>2 DEF IsTree
<1>4. Table = {}
  BY <1>1 DEF Table, InTable
<1>5. <<>> \in Seq(DOMAIN nodes) /\ Range(pending) = {} /\ IsInjective(pending)
  BY <1>1, EmptySeq DEF Range, IsInjective
<1>6. frontier \in Seq(({Root} \cup DOMAIN nodes) \X Nat)
  <2> DEFINE Entries == ({Root} \cup DOMAIN nodes) \X Nat
  <2>1. <<Root, 0>> \in Entries
    OBVIOUS
  <2> HIDE DEF Entries
  <2>2. <<>> \in Seq(Entries) /\ <<<<Root, 0>>>> \in Seq(Entries)
    BY <2>1
  <2> QED BY <2>2 DEF Entries
<1>7. DraftTypes
  <2>1. /\ DOMAIN nodes \subseteq Drafts /\ Table \subseteq DOMAIN nodes
        /\ committed \in SUBSET Table /\ pending \in Seq(DOMAIN nodes)
    BY <1>1, <1>4, <1>5
  <2>2. /\ current_blocks \in [Drafts -> Intents \cup {NoIntent}]
        /\ \A b \in Drafts :
              current_blocks[b] \in {NoIntent, draft_intent(b), verified(draft_intent(b))}
    BY <1>1
  <2> QED BY <2>1, <2>2, <1>1, <1>3, <1>6 DEF DraftTypes
<1>8. Growing
  BY <1>1, <1>4 DEF Growing
<1>9. Resolving
  <2>1. DOMAIN nodes \ Table = {}
    BY <1>1
  <2> QED BY <2>1, <1>1, <1>2, <1>4, <1>5 DEF Resolving
<1>10. NoOrphans
  BY <1>1 DEF NoOrphans
<1> QED BY <1>7, <1>8, <1>9, <1>10 DEF DraftInvariant

\* When no call is left, what is in the table has been verified: the oldest
\* node that had not would hang on one that had.
LEMMA VerifiedAtEnd ==
    ASSUME DraftInvariant
    PROVE  SurvivorsWereVerified
<1> SUFFICES ASSUME frontier = <<>>, pending = <<>>
             PROVE  /\ Table = committed
                    /\ freed_rejected_blocks = Cardinality(DOMAIN nodes \ committed)
                    /\ draft_blocks_freed_on_rejection = freed_rejected_blocks
  BY DEF SurvivorsWereVerified, Table
<1> DEFINE Others == Table \ committed
<1>1. Range(pending) = {}
  BY DEF Range
<1>2. /\ \A b \in Table : b \in committed \/ ~ IsReached(b)
      /\ freed_rejected_blocks = Cardinality(DOMAIN nodes \ Table)
      /\ draft_blocks_freed_on_rejection = freed_rejected_blocks
  BY <1>1 DEF DraftInvariant, Resolving
<1>3. /\ IsTree(nodes, Size) /\ Table \subseteq DOMAIN nodes /\ committed \in SUBSET Table
      /\ DOMAIN nodes = 0 .. Size - 1 /\ Size \in Nat /\ DOMAIN nodes \subseteq Drafts
  BY DEF DraftInvariant, DraftTypes, IsTree
<1>4. Others = {}
  <2> SUFFICES ASSUME Others # {} PROVE FALSE
    OBVIOUS
  <2>1. Others \in SUBSET Nat
    BY <1>3
  <2>2. PICK x \in Others : \A y \in Others : x <= y
    <3> HIDE DEF Others
    <3> QED BY <2>1, LeastNatural
  <2>3. x \in DOMAIN nodes /\ nodes[x] # Root /\ nodes[x] \notin committed
    BY <1>2, <1>3, <2>2 DEF IsReached
  <2>4. nodes[x] \in DOMAIN nodes /\ nodes[x] < x /\ nodes[x] \in Nat /\ x \in Nat
    BY <1>3, <2>3, ParentIsOlder
  <2>5. nodes[x] \in Table
    BY <2>2, <2>3, <2>4, <1>3 DEF DraftInvariant, NoOrphans, Table
  <2>6. x <= nodes[x]
    BY <2>2, <2>3, <2>5
  <2> QED BY <2>4, <2>6
<1> QED BY <1>2, <1>3, <1>4

-----------------------------------------------------------------------------
(***************************************************************************)
(* The importer                                                            *)
(***************************************************************************)
\* The least number of parts of size b that hold a.
LEMMA CeilFacts ==
    ASSUME NEW a \in Nat, NEW b \in Nat \ {0}
    PROVE  /\ ceil(a, b) \in Nat
           /\ ceil(a, b) * b >= a /\ ceil(a, b) * b - a < b
           /\ a > 0 => ceil(a, b) >= 1
<1> DEFINE c == (a + b - 1) \div b
           m == (a + b - 1) % b
<1>1. a + b - 1 \in Nat
  OBVIOUS
<1>2. c \in Nat /\ m \in 0 .. b - 1 /\ a + b - 1 = b * c + m
  BY <1>1
<1> HIDE DEF c, m
<1>3. b * c \in Nat /\ c * b = b * c
  BY <1>2
<1>4. c * b >= a /\ c * b - a < b
  BY <1>2, <1>3
<1>5. ASSUME a > 0 PROVE c >= 1
  <2> SUFFICES ASSUME c = 0 PROVE FALSE
    BY <1>2
  <2>1. c * b = 0
    OBVIOUS
  <2> QED BY <2>1, <1>4, <1>5
<1>6. ceil(a, b) = c
  BY DEF ceil, c
<1> QED BY <1>2, <1>4, <1>5, <1>6

\* A request has at least one block, and its hot tail too; with or without the cap
\* its blocks hold its bytes.
LEMMA RequestBlocks ==
    ASSUME NEW rec \in Records
    PROVE  /\ num_blocks(rec) \in 1 .. MaxBlocks /\ TailStart(rec) \in 0 .. num_blocks(rec) - 1
           /\ logical_block_size(rec) \in WorkloadSizes
           /\ RequestIsCovered(rec)
<1> DEFINE bytes == estimate_request_kv_bytes(rec)
           c == ceil(bytes, block_size_bytes)
           count == num_blocks(rec)
<1>1. rec.prompt_tokens \in Nat /\ rec.generated_tokens \in Nat
  BY ImporterAssumption DEF Records
<1>2. /\ kv_bytes_per_token \in Nat \ {0} /\ block_size_bytes \in Nat \ {0}
      /\ decode_block_tokens \in Nat \ {0} /\ max_blocks_per_request \in Nat
  BY ImporterAssumption
<1>3. bytes \in Nat
  BY <1>1, <1>2 DEF estimate_request_kv_bytes
<1> HIDE DEF bytes
<1>4. /\ c \in Nat /\ c * block_size_bytes >= bytes
      /\ c * block_size_bytes - bytes < block_size_bytes /\ (bytes > 0 => c >= 1)
  BY <1>2, <1>3, CeilFacts
<1> HIDE DEF c
<1>5. RequestedBlocks(rec) = (IF 1 >= c THEN 1 ELSE c)
  BY <1>4, MaxMinOfTwo DEF RequestedBlocks, c, bytes
<1> DEFINE requested == RequestedBlocks(rec)
           capped == IsCapped(rec)
<1>6. requested \in Nat /\ requested >= 1
  BY <1>4, <1>5
<1>7. /\ capped <=> max_blocks_per_request # 0 /\ requested > max_blocks_per_request
      /\ count = IF capped THEN max_blocks_per_request ELSE requested
      /\ logical_block_size(rec) = IF capped THEN ceil(bytes, count) ELSE block_size_bytes
      /\ RequestIsCovered(rec) <=>
            /\ count * logical_block_size(rec) >= bytes
            /\ bytes > 0 => count * logical_block_size(rec) - bytes
                               < IF capped THEN count ELSE block_size_bytes
  BY DEF IsCapped, num_blocks, logical_block_size, RequestIsCovered, bytes
<1>8. count <= MaxBlocks /\ MaxBlocks \in Nat
  BY BlockBoundAssumption
<1> DEFINE size == logical_block_size(rec)
<1>s. size \in WorkloadSizes
  BY DEF WorkloadSizes
<1>a. decode_hot_blocks(rec) =
        Min({Max({1, ceil(Max({rec.generated_tokens, 1}), decode_block_tokens)}), count})
  BY DEF decode_hot_blocks
<1>b. TailStart(rec) = count - decode_hot_blocks(rec)
  BY DEF TailStart
<1> HIDE DEF requested, capped, count, size
<1>9. count \in Nat /\ count >= 1
  BY <1>2, <1>6, <1>7
<1>10. RequestIsCovered(rec)
  <2>1. CASE capped
    <3>1. /\ ceil(bytes, count) * count >= bytes
          /\ ceil(bytes, count) * count - bytes < count /\ ceil(bytes, count) \in Nat
      BY <1>3, <1>9, CeilFacts
    <3>2. size = ceil(bytes, count)
      BY <2>1, <1>7 DEF size
    <3>3. count * size = size * count
      BY <3>1, <3>2, <1>9
    <3> QED BY <2>1, <3>1, <3>2, <3>3, <1>7 DEF size
  <2>2. CASE ~ capped
    <3>1. size = block_size_bytes /\ count = requested
      BY <2>2, <1>7 DEF size
    <3>2. CASE 1 >= c
      <4>1. count = 1
        BY <3>1, <3>2, <1>5 DEF requested
      <4>2. count * size = block_size_bytes
        BY <3>1, <4>1, <1>2
      <4>3. c = 0 \/ c = 1
        BY <3>2, <1>4
      <4>4. c * block_size_bytes = 0 \/ c * block_size_bytes = block_size_bytes
        BY <4>3, <1>2
      <4>5. c * block_size_bytes = 0 => bytes = 0
        BY <1>3, <1>4
      <4>6. bytes > 0 => c * block_size_bytes = block_size_bytes
        BY <4>4, <4>5, <1>3
      <4> QED BY <2>2, <4>2, <4>4, <4>5, <4>6, <1>2, <1>3, <1>4, <1>7 DEF size
    <3>3. CASE ~ (1 >= c)
      <4>1. count = c
        BY <3>1, <3>3, <1>5 DEF requested
      <4>2. count * size = c * block_size_bytes
        BY <3>1, <4>1
      <4> QED BY <2>2, <4>2, <1>4, <1>7 DEF size
    <3> QED BY <3>2, <3>3
  <2> QED BY <2>1, <2>2
<1>11. TailStart(rec) \in 0 .. count - 1
  <2> DEFINE wanted == ceil(Max({rec.generated_tokens, 1}), decode_block_tokens)
             tail == Max({1, wanted})
  <2>1. Max({rec.generated_tokens, 1}) \in Nat
    BY <1>1, MaxMinOfTwo
  <2>2. wanted \in Nat
    BY <2>1, <1>2, CeilFacts
  <2> HIDE DEF wanted
  <2>3. tail \in Nat /\ tail >= 1
    BY <2>2, MaxMinOfTwo
  <2>4. decode_hot_blocks(rec) = Min({tail, count})
    BY <1>a DEF wanted
  <2> HIDE DEF tail
  <2>5. decode_hot_blocks(rec) = IF tail <= count THEN tail ELSE count
    BY <2>3, <2>4, <1>9, MaxMinOfTwo
  <2> QED BY <2>3, <2>5, <1>9, <1>b
<1> QED BY <1>8, <1>9, <1>10, <1>11, <1>s DEF count, size

-----------------------------------------------------------------------------
(***************************************************************************)
(* The importer's trace                                                    *)
(***************************************************************************)
\* The events of the workloads are events that the simulator knows.
LEMMA WorkloadEvent ==
    ASSUME NEW type \in EventType, NEW b \in Blocks, NEW phase \in Phase, NEW priority \in Priority,
           NEW tier \in {"HBM", "DRAM"}, NEW size \in WorkloadSizes
    PROVE  /\ Ev(type, b, make(phase, priority, tier, size)) \in MemoryIntentEvent
           /\ make(phase, priority, tier, size) \in Intents
BY WorkloadIntentsAssumption DEF Ev, MemoryIntentEvent

\* The blocks that a request may have.
LEMMA RequestSpan ==
    ASSUME NEW r \in Requests, NEW first \in Nat, NEW last \in Int, last < MaxBlocks
    PROVE  /\ Span(r, first, last) \subseteq Blocks
           /\ \A k \in first .. last : <<r, k>> \in Blocks
<1>1. MaxBlocks \in Nat
  BY BlockBoundAssumption
<1>2. \A k \in first .. last : k \in 0 .. MaxBlocks - 1
  BY <1>1
<1>3. \A k \in first .. last : <<r, k>> \in Blocks
  BY <1>2, RequestsAssumption
<1> QED BY <1>3 DEF Span

\* The hot tail, at each decode step: critical marks and accesses.
IsHotTail(s, r, first, last) ==
    /\ s \in Seq(MemoryIntentEvent)
    /\ \A k \in DOMAIN s :
          /\ s[k].event_type \in {"MARKED_DECODE_CRITICAL", "ACCESSED"}
          /\ s[k].object_id \in Span(r, first, last)
          /\ s[k].intent.priority = "DECODE_CRITICAL" /\ s[k].intent.pin_requested
    /\ \A b \in Span(r, first, last) : \E k \in DOMAIN s : s[k].object_id = b

\* CriticalPairs writes the events of a hot tail.
LEMMA CriticalPairsFacts ==
    ASSUME NEW r \in Requests, NEW first \in Nat, NEW last \in Int, last < MaxBlocks,
           NEW size \in WorkloadSizes
    PROVE  IsHotTail(CriticalPairs(r, first, last, size), r, first, last)
<1> DEFINE i == make("DECODE", "DECODE_CRITICAL", "HBM", size)
           pair(k) == <<Ev("MARKED_DECODE_CRITICAL", <<r, k>>, i), Ev("ACCESSED", <<r, k>>, i)>>
           m == last - first + 1
           seqs == [k \in 1 .. m |-> pair(first + k - 1)]
           s == FlattenSeq(seqs)
           count == IF m >= 0 THEN m ELSE 0
<1>1. /\ "DECODE" \in Phase /\ "DECODE_CRITICAL" \in Priority
      /\ {"MARKED_DECODE_CRITICAL", "ACCESSED"} \subseteq EventType
  BY DEF Phase, Priority, EventType
<1>2. i.priority = "DECODE_CRITICAL" /\ i.pin_requested
  BY DEF make
<1>3. \A k \in first .. last : <<r, k>> \in Blocks
  BY RequestSpan
<1>4. CriticalPairs(r, first, last, size) = s
  BY DEF CriticalPairs, PerBlock
<1>5. ASSUME NEW k \in first .. last
      PROVE  /\ pair(k) \in Seq(MemoryIntentEvent)
             /\ Range(pair(k)) = {Ev("MARKED_DECODE_CRITICAL", <<r, k>>, i), Ev("ACCESSED", <<r, k>>, i)}
  <2>1. /\ Ev("MARKED_DECODE_CRITICAL", <<r, k>>, i) \in MemoryIntentEvent
        /\ Ev("ACCESSED", <<r, k>>, i) \in MemoryIntentEvent
    BY <1>1, <1>3, WorkloadEvent
  <2> DEFINE e == Ev("MARKED_DECODE_CRITICAL", <<r, k>>, i)
             f == Ev("ACCESSED", <<r, k>>, i)
  <2> HIDE DEF e, f
  <2>2. \A x, y : DOMAIN <<x, y>> = {1, 2} /\ <<x, y>>[1] = x /\ <<x, y>>[2] = y
    OBVIOUS
  <2>3. Range(<<e, f>>) = {e, f}
    BY <2>2 DEF Range
  <2> QED BY <2>1, <2>3 DEF e, f
<1>6. count \in Nat /\ 1 .. count = 1 .. m /\ \A k \in 1 .. m : first + k - 1 \in first .. last
  OBVIOUS
<1> HIDE DEF pair
<1>7. seqs \in Seq(Seq(MemoryIntentEvent)) /\ Len(seqs) = count
      /\ \A k \in 1 .. count : seqs[k] = pair(first + k - 1)
  <2>1. seqs = [k \in 1 .. count |-> pair(first + k - 1)]
    BY <1>6
  <2>2. \A k \in 1 .. count : pair(first + k - 1) \in Seq(MemoryIntentEvent)
    BY <1>5, <1>6
  <2> HIDE DEF count, seqs
  <2>3. \A k \in 1 .. count : seqs[k] = pair(first + k - 1)
    BY <2>1
  <2>4. Len(seqs) = count /\ seqs \in Seq(Seq(MemoryIntentEvent))
    BY <1>6, <2>1, <2>2
  <2> QED BY <2>3, <2>4
<1> HIDE DEF seqs
<1>8. /\ s \in Seq(MemoryIntentEvent)
      /\ Range(s) = UNION {Range(seqs[j]) : j \in 1 .. count}
  BY <1>7, FlattenRange
<1> HIDE DEF s
<1>9. ASSUME NEW e
      PROVE  e \in Range(s) <=>
                \E k \in first .. last : e \in {Ev("MARKED_DECODE_CRITICAL", <<r, k>>, i),
                                                Ev("ACCESSED", <<r, k>>, i)}
  <2>1. ASSUME e \in Range(s)
        PROVE  \E k \in first .. last : e \in {Ev("MARKED_DECODE_CRITICAL", <<r, k>>, i),
                                               Ev("ACCESSED", <<r, k>>, i)}
    <3>1. PICK j \in 1 .. count : e \in Range(seqs[j])
      BY <2>1, <1>8
    <3>2. first + j - 1 \in first .. last /\ e \in Range(pair(first + j - 1))
      BY <3>1, <1>6, <1>7
    <3> QED BY <3>2, <1>5
  <2>2. ASSUME NEW k \in first .. last,
               e \in {Ev("MARKED_DECODE_CRITICAL", <<r, k>>, i), Ev("ACCESSED", <<r, k>>, i)}
        PROVE  e \in Range(s)
    <3>1. k - first + 1 \in 1 .. count /\ first + (k - first + 1) - 1 = k
      BY <1>6
    <3>2. e \in Range(seqs[k - first + 1])
      BY <2>2, <3>1, <1>5, <1>7
    <3> QED BY <3>1, <3>2, <1>8
  <2> QED BY <2>1, <2>2
<1> HIDE DEF count, m, i
<1>10. ASSUME NEW k \in DOMAIN s
       PROVE  /\ s[k].event_type \in {"MARKED_DECODE_CRITICAL", "ACCESSED"}
              /\ s[k].object_id \in Span(r, first, last)
              /\ s[k].intent.priority = "DECODE_CRITICAL" /\ s[k].intent.pin_requested
  <2>1. s[k] \in Range(s)
    BY DEF Range
  <2>2. PICK j \in first .. last : s[k] \in {Ev("MARKED_DECODE_CRITICAL", <<r, j>>, i),
                                             Ev("ACCESSED", <<r, j>>, i)}
    BY <2>1, <1>9
  <2>3. s[k].event_type \in {"MARKED_DECODE_CRITICAL", "ACCESSED"} /\ s[k].object_id = <<r, j>>
        /\ s[k].intent = i
    BY <2>2 DEF Ev
  <2> QED BY <2>3, <1>2 DEF Span
<1>11. ASSUME NEW b \in Span(r, first, last) PROVE \E k \in DOMAIN s : s[k].object_id = b
  <2>1. PICK j \in first .. last : b = <<r, j>>
    BY DEF Span
  <2>2. Ev("ACCESSED", <<r, j>>, i) \in Range(s)
    BY <1>9
  <2>3. PICK k \in DOMAIN s : s[k] = Ev("ACCESSED", <<r, j>>, i)
    BY <2>2 DEF Range
  <2> QED BY <2>1, <2>3 DEF Ev
<1> QED BY <1>4, <1>8, <1>10, <1>11 DEF IsHotTail

\* A block is pinned by an access or a mark, and loses its pin with its life.
Pins == [gives |-> {"ACCESSED", "MARKED_DECODE_CRITICAL"}, ends |-> {"ALLOCATED", "FREED"}]

\* What the hot tail does to the live blocks and to the pinned ones.
LEMMA HotTailCarries ==
    ASSUME NEW s, NEW r, NEW first, NEW last, IsHotTail(s, r, first, last), NEW L
    PROVE  /\ Span(r, first, last) \subseteq L => Carries(L, s, L)
           /\ Left(Pins, L, s) = L \cup Span(r, first, last)
<1>1. /\ s \in Seq(MemoryIntentEvent)
      /\ \A k \in DOMAIN s : /\ s[k].event_type \in {"MARKED_DECODE_CRITICAL", "ACCESSED"}
                             /\ s[k].object_id \in Span(r, first, last)
      /\ \A b \in Span(r, first, last) : \E k \in DOMAIN s : s[k].object_id = b
  BY DEF IsHotTail
<1>2. ASSUME Span(r, first, last) \subseteq L PROVE Carries(L, s, L)
  <2>1. \A k \in DOMAIN s : s[k].event_type \notin {"ALLOCATED", "FREED"} /\ s[k].object_id \in L
    BY <1>1, <1>2
  <2> QED BY <1>1, <2>1, LeftOfUses DEF Carries
<1>3. About(s) = Span(r, first, last)
  BY <1>1 DEF About
<1>4. \A k \in DOMAIN s : s[k].event_type \in Pins.gives /\ s[k].event_type \notin Pins.ends
  BY <1>1 DEF Pins
<1>5. Left(Pins, L, s) = L \cup About(s)
  BY <1>1, <1>4, LeftOfGivers
<1> QED BY <1>2, <1>3, <1>5

\* What the other lists do to the pinned blocks.
LEMMA SpanPins ==
    ASSUME NEW s, NEW type, NEW r, NEW first, NEW last, first \in Nat, last \in Int, NEW L,
           OnePerBlock(s, type, r, first, last)
    PROVE  /\ type \in {"ALLOCATED", "FREED"} => Left(Pins, L, s) = L \ Span(r, first, last)
           /\ type = "MARKED_COLD" => Left(Pins, L, s) = L
<1>1. About(s) = Span(r, first, last)
  BY SpanOfEvents
<1>2. s \in Seq(MemoryIntentEvent) /\ \A k \in DOMAIN s : s[k].event_type = type
  BY DEF OnePerBlock
<1>3. ASSUME type \in {"ALLOCATED", "FREED"} PROVE Left(Pins, L, s) = L \ Span(r, first, last)
  <2>1. \A k \in DOMAIN s : s[k].event_type \in Pins.ends /\ s[k].event_type \notin Pins.gives
    BY <1>2, <1>3 DEF Pins
  <2> QED BY <1>1, <1>2, <2>1, LeftOfEnders
<1>4. ASSUME type = "MARKED_COLD" PROVE Left(Pins, L, s) = L
  <2>1. \A k \in DOMAIN s : s[k].event_type \notin Pins.ends /\ s[k].event_type \notin Pins.gives
    BY <1>2, <1>4 DEF Pins
  <2> QED BY <1>2, <2>1, LeftOfOthers
<1> QED BY <1>3, <1>4

\* All blocks of a request are freed.
LEMMA FreeAllFacts ==
    ASSUME NEW r \in Requests, NEW count \in Nat, count <= MaxBlocks, NEW size \in WorkloadSizes
    PROVE  OnePerBlock(FreeAll(r, count, size), "FREED", r, 0, count - 1)
<1> DEFINE i == make("DONE", "COLD", "DRAM", size)
           s == [k \in 1 .. count |-> Ev("FREED", <<r, k - 1>>, i)]
<1>1. FreeAll(r, count, size) = s
  BY DEF FreeAll, PerBlock
<1>2. "DONE" \in Phase /\ "COLD" \in Priority /\ "FREED" \in EventType
  BY DEF Phase, Priority, EventType
<1>3. \A k \in 1 .. count : <<r, k - 1>> \in Blocks
  <2>1. /\ 0 \in Nat /\ count - 1 \in Int /\ count - 1 < MaxBlocks
        /\ \A k \in 1 .. count : k - 1 \in 0 .. count - 1
    BY BlockBoundAssumption
  <2> QED BY <2>1, RequestSpan
<1>4. \A k \in 1 .. count : Ev("FREED", <<r, k - 1>>, i) \in MemoryIntentEvent
  BY <1>2, <1>3, WorkloadEvent
<1>5. s \in Seq(MemoryIntentEvent)
  BY <1>4
<1>6. (count - 1) - 0 + 1 = count /\ \A k \in 1 .. count : 0 + k - 1 = k - 1
  OBVIOUS
<1> HIDE DEF i
<1>7. \A k \in 1 .. count : s[k].event_type = "FREED" /\ s[k].object_id = <<r, k - 1>>
  BY DEF Ev
<1>8. DOMAIN s = 1 .. count
  OBVIOUS
<1> HIDE DEF s
<1>9. \A k \in 1 .. count : s[k].object_id = <<r, 0 + k - 1>>
  BY <1>6, <1>7
<1> QED BY <1>1, <1>5, <1>6, <1>7, <1>8, <1>9 DEF OnePerBlock

\* The blocks of an imported request, and its hot tail.
BlocksOf(rec) == Span(rec.request_id, 0, num_blocks(rec) - 1)

\* Its hot tail.
TailOf(rec) == Span(rec.request_id, TailStart(rec), num_blocks(rec) - 1)

\* The four parts of its trace.
LEMMA ImportParts ==
    ASSUME NEW rec \in Records
    PROVE  /\ OnePerBlock(ImportAllocations(rec), "ALLOCATED", rec.request_id, 0, num_blocks(rec) - 1)
           /\ IsHotTail(ImportHotTail(rec), rec.request_id, TailStart(rec), num_blocks(rec) - 1)
           /\ OnePerBlock(ImportCold(rec), "MARKED_COLD", rec.request_id, 0, TailStart(rec) - 1)
           /\ ImportFrees(rec) = <<>> \/ OnePerBlock(ImportFrees(rec), "FREED", rec.request_id, 0, num_blocks(rec) - 1)
           /\ rec.status = "completed" <=> ImportFrees(rec) # <<>>
<1> DEFINE r == rec.request_id
           count == num_blocks(rec)
           start == TailStart(rec)
           size == logical_block_size(rec)
<1>1. /\ r \in Requests /\ count \in 1 .. MaxBlocks /\ start \in 0 .. count - 1
      /\ size \in WorkloadSizes /\ MaxBlocks \in Nat
  BY RequestBlocks, BlockBoundAssumption DEF Records
<1>2. /\ {"PREFILL", "IDLE"} \subseteq Phase /\ {"HOT", "WARM", "COLD"} \subseteq Priority
      /\ {"ALLOCATED", "MARKED_COLD"} \subseteq EventType
  BY DEF Phase, Priority, EventType
<1>3. /\ count - 1 \in Int /\ count - 1 < MaxBlocks /\ start \in Nat /\ 0 \in Nat /\ start - 1 \in Int
      /\ count \in Nat /\ count <= MaxBlocks /\ start - 1 < MaxBlocks
      /\ (count - 1) - 0 + 1 = count /\ (start - 1) - 0 + 1 = start
  BY <1>1
<1>4. \A k \in 1 .. count : <<r, 0 + k - 1>> \in Blocks
  <2>1. \A k \in 1 .. count : 0 + k - 1 \in 0 .. count - 1
    BY <1>1
  <2> HIDE DEF r, count
  <2> QED BY <1>1, <1>3, <2>1, RequestSpan
<1>5. OnePerBlock(ImportAllocations(rec), "ALLOCATED", r, 0, count - 1)
  <2> DEFINE i(k) == make("PREFILL", AllocationPriority(rec, 0 + k - 1), "HBM", size)
             s == [k \in 1 .. count |-> Ev("ALLOCATED", <<r, 0 + k - 1>>, i(k))]
  <2>1. ImportAllocations(rec) = s
    BY <1>3 DEF ImportAllocations, PerBlock
  <2>2. \A k \in 1 .. count : AllocationPriority(rec, 0 + k - 1) \in Priority
    BY <1>2 DEF AllocationPriority
  <2> HIDE DEF r, count, size
  <2>3. \A k \in 1 .. count : Ev("ALLOCATED", <<r, 0 + k - 1>>, i(k)) \in MemoryIntentEvent
    BY <1>1, <1>2, <1>4, <2>2, WorkloadEvent
  <2>4. s \in Seq(MemoryIntentEvent) /\ DOMAIN s = 1 .. count
    BY <1>3, <2>3
  <2> HIDE DEF i
  <2>5. \A k \in 1 .. count : s[k].event_type = "ALLOCATED" /\ s[k].object_id = <<r, 0 + k - 1>>
    BY DEF Ev
  <2> HIDE DEF s
  <2> QED BY <1>3, <2>1, <2>4, <2>5 DEF OnePerBlock
<1>6. OnePerBlock(ImportCold(rec), "MARKED_COLD", r, 0, start - 1)
  <2> DEFINE i == make("IDLE", "COLD", "HBM", size)
             s == [k \in 1 .. start |-> Ev("MARKED_COLD", <<r, 0 + k - 1>>, i)]
  <2>1. ImportCold(rec) = s
    BY <1>3 DEF ImportCold, PerBlock
  <2> HIDE DEF r, count, size, start
  <2>2. \A k \in 1 .. start : k \in 1 .. count
    BY <1>1
  <2>3. \A k \in 1 .. start : Ev("MARKED_COLD", <<r, 0 + k - 1>>, i) \in MemoryIntentEvent
    BY <1>1, <1>2, <1>4, <2>2, WorkloadEvent
  <2>4. s \in Seq(MemoryIntentEvent) /\ DOMAIN s = 1 .. start
    BY <1>3, <2>3
  <2> HIDE DEF i
  <2>5. \A k \in 1 .. start : s[k].event_type = "MARKED_COLD" /\ s[k].object_id = <<r, 0 + k - 1>>
    BY DEF Ev
  <2> HIDE DEF s
  <2> QED BY <1>3, <2>1, <2>4, <2>5 DEF OnePerBlock
<1>7. IsHotTail(ImportHotTail(rec), r, start, count - 1)
  <2>1. ImportHotTail(rec) = CriticalPairs(r, start, count - 1, size)
    BY DEF ImportHotTail
  <2> HIDE DEF r, count, size, start
  <2> QED BY <1>1, <1>3, <2>1, CriticalPairsFacts
<1>8. /\ ImportFrees(rec) = <<>> \/ OnePerBlock(ImportFrees(rec), "FREED", r, 0, count - 1)
      /\ rec.status = "completed" <=> ImportFrees(rec) # <<>>
  <2>1. ImportFrees(rec) = IF rec.status = "completed" THEN FreeAll(r, count, size) ELSE <<>>
    BY DEF ImportFrees
  <2> HIDE DEF r, count, size, start
  <2>2. OnePerBlock(FreeAll(r, count, size), "FREED", r, 0, count - 1)
    BY <1>1, <1>3, FreeAllFacts
  <2>3. FreeAll(r, count, size) # <<>>
    <3>1. DOMAIN FreeAll(r, count, size) = 1 .. count /\ 1 \in 1 .. count /\ DOMAIN <<>> = {}
      BY <1>1, <1>3, <2>2 DEF OnePerBlock
    <3> QED BY <3>1
  <2> QED BY <2>1, <2>2, <2>3
<1> QED BY <1>5, <1>6, <1>7, <1>8

\* The pins that two lists leave.
LEMMA PinsOfTwo ==
    ASSUME NEW s \in Seq(MemoryIntentEvent), NEW t \in Seq(MemoryIntentEvent),
           NEW L, NEW M, NEW N, Left(Pins, L, s) = M, Left(Pins, M, t) = N
    PROVE  Left(Pins, L, s \o t) = N
<1>1. Left(Pins, L, s \o t) = Left(Pins, Left(Pins, L, s), t)
  BY LeftOfTwo
<1> QED BY <1>1

\* One record: its blocks stay exactly if the request did not complete, and then
\* its hot tail stays pinned.
RecordTrace(rec) ==
    ImportAllocations(rec) \o ImportHotTail(rec) \o ImportCold(rec) \o ImportFrees(rec)

\* What the trace of one request leaves live, and pinned: nothing new if it
\* completed, otherwise its blocks, and its tail.
LEMMA ImportRecord ==
    ASSUME NEW rec \in Records, NEW L, L \cap BlocksOf(rec) = {}
    PROVE  /\ Carries(L, RecordTrace(rec), IF rec.status = "completed" THEN L ELSE L \cup BlocksOf(rec))
           /\ Left(Pins, L, RecordTrace(rec)) =
                 IF rec.status = "completed" THEN L ELSE L \cup TailOf(rec)
<1> DEFINE r == rec.request_id
           start == TailStart(rec)
           last == num_blocks(rec) - 1
           A == ImportAllocations(rec)
           H == ImportHotTail(rec)
           C == ImportCold(rec)
           F == ImportFrees(rec)
           own == Span(r, 0, last)
           tail == Span(r, start, last)
           M == L \cup own
<1>1. /\ OnePerBlock(A, "ALLOCATED", r, 0, last)
      /\ IsHotTail(H, r, start, last)
      /\ OnePerBlock(C, "MARKED_COLD", r, 0, start - 1)
      /\ F = <<>> \/ OnePerBlock(F, "FREED", r, 0, last)
      /\ rec.status = "completed" <=> F # <<>>
  BY ImportParts
<1>2. last \in Int /\ start \in Nat /\ start - 1 \in Int /\ start - 1 <= last /\ 0 \in Nat
  BY RequestBlocks, BlockBoundAssumption
<1>3. L \cap own = {}
  BY DEF BlocksOf
<1>4. BlocksOf(rec) = own /\ TailOf(rec) = tail /\ RecordTrace(rec) = A \o H \o C \o F
  BY DEF BlocksOf, TailOf, RecordTrace
<1> HIDE DEF A, H, C, F, start, last
<1>5. tail \subseteq own /\ Span(r, 0, start - 1) \subseteq own
  BY <1>2 DEF Span
<1> HIDE DEF r, own, tail
<1>6. Carries(L, A, M)
  BY <1>1, <1>2, <1>3, CarriesSpan DEF own
<1>7. Carries(M, H, M)
  <2>1. Span(r, start, last) \subseteq M
    BY <1>5 DEF tail
  <2> QED BY <1>1, <2>1, HotTailCarries
<1>8. Carries(M, C, M)
  <2>1. Span(r, 0, start - 1) \subseteq M /\ "MARKED_COLD" \notin {"ALLOCATED", "FREED"}
    BY <1>5
  <2> HIDE DEF M
  <2> QED BY <1>1, <1>2, <2>1, CarriesSpan
<1>9. Carries(L, A \o H \o C, M)
  BY <1>6, <1>7, <1>8, CarriesTwo
<1>10. Carries(M, F, IF rec.status = "completed" THEN L ELSE M)
  <2>1. CASE F = <<>>
    BY <2>1, <1>1, CarriesNone
  <2>2. CASE F # <<>>
    <3>1. OnePerBlock(F, "FREED", r, 0, last) /\ own \subseteq M /\ M \ own = L
      BY <2>2, <1>1, <1>3
    <3> HIDE DEF M
    <3>2. Carries(M, F, M \ own)
      BY <3>1, <1>2, CarriesSpan DEF own
    <3> QED BY <2>2, <3>1, <3>2, <1>1
  <2> QED BY <2>1, <2>2
<1>11. Carries(L, A \o H \o C \o F, IF rec.status = "completed" THEN L ELSE M)
  BY <1>9, <1>10, CarriesTwo
<1>12. /\ A \in Seq(MemoryIntentEvent) /\ H \in Seq(MemoryIntentEvent)
       /\ C \in Seq(MemoryIntentEvent) /\ F \in Seq(MemoryIntentEvent)
       /\ A \o H \in Seq(MemoryIntentEvent) /\ A \o H \o C \in Seq(MemoryIntentEvent)
  <2>1. /\ A \in Seq(MemoryIntentEvent) /\ H \in Seq(MemoryIntentEvent)
        /\ C \in Seq(MemoryIntentEvent) /\ F \in Seq(MemoryIntentEvent)
    BY <1>6, <1>7, <1>8, <1>10 DEF Carries
  <2> QED BY <2>1, ConcatProperties
<1>p. ASSUME NEW P
      PROVE  /\ Left(Pins, P, C) = P
             /\ F # <<>> => Left(Pins, P, F) = P \ own
  <2>1. Left(Pins, P, C) = P
    <3> DEFINE e == start - 1
    <3>1. e \in Int /\ OnePerBlock(C, "MARKED_COLD", r, 0, e) /\ 0 \in Nat
      BY <1>1, <1>2
    <3> HIDE DEF e
    <3> QED BY <3>1, SpanPins
  <2>2. ASSUME F # <<>> PROVE Left(Pins, P, F) = P \ own
    BY <2>2, <1>1, <1>2, SpanPins DEF own
  <2> QED BY <2>1, <2>2
<1>13. Left(Pins, L, A \o H \o C) = L \cup tail
  <2>1. Left(Pins, L, A) = L
    <3>1. Left(Pins, L, A) = L \ own
      BY <1>1, <1>2, SpanPins DEF own
    <3> QED BY <3>1, <1>3
  <2>2. Left(Pins, L, H) = L \cup tail
    BY <1>1, HotTailCarries DEF tail
  <2>3. Left(Pins, L \cup tail, C) = L \cup tail
    BY <1>p
  <2>4. Left(Pins, L, A \o H) = L \cup tail
    BY <1>12, <2>1, <2>2, PinsOfTwo
  <2> DEFINE s == A \o H
             N == L \cup tail
  <2>5. s \in Seq(MemoryIntentEvent) /\ Left(Pins, L, s) = N /\ Left(Pins, N, C) = N
    BY <1>12, <2>3, <2>4
  <2> HIDE DEF s, N
  <2>6. Left(Pins, L, s \o C) = N
    BY <1>12, <2>5, PinsOfTwo
  <2> QED BY <2>6 DEF s, N
<1>14. Left(Pins, L \cup tail, F) = IF rec.status = "completed" THEN L ELSE L \cup tail
  <2>1. CASE F = <<>>
    BY <2>1, <1>1, LeftOfNone
  <2>2. CASE F # <<>>
    <3>1. OnePerBlock(F, "FREED", r, 0, last) /\ (L \cup tail) \ own = L
      BY <2>2, <1>1, <1>3, <1>5
    <3>2. Left(Pins, L \cup tail, F) = (L \cup tail) \ own
      BY <2>2, <1>p
    <3> QED BY <2>2, <3>1, <3>2, <1>1
  <2> QED BY <2>1, <2>2
<1>15. Left(Pins, L, A \o H \o C \o F) = IF rec.status = "completed" THEN L ELSE L \cup tail
  <2> DEFINE s == A \o H \o C
             N == L \cup tail
             Z == IF rec.status = "completed" THEN L ELSE L \cup tail
  <2>1. s \in Seq(MemoryIntentEvent) /\ Left(Pins, L, s) = N /\ Left(Pins, N, F) = Z
    BY <1>12, <1>13, <1>14
  <2> HIDE DEF s, N, Z
  <2>2. Left(Pins, L, s \o F) = Z
    BY <1>12, <2>1, PinsOfTwo
  <2> QED BY <2>2 DEF s, Z
<1> QED BY <1>4, <1>11, <1>15

\* After i records the blocks of those that did not complete are live.
KeptBy(records, i) == UNION {BlocksOf(records[j]) : j \in {k \in 1 .. i : records[k].status # "completed"}}

\* The tails of these requests.
PinnedBy(records, i) == UNION {TailOf(records[j]) : j \in {k \in 1 .. i : records[k].status # "completed"}}

\* What the importer writes leaves live, and pinned.
LEMMA ImportedTrace ==
    ASSUME NEW records \in Seq(Records), IsInjective([k \in DOMAIN records |-> records[k].request_id])
    PROVE  /\ Carries({}, request_trace_to_intent_events(records), KeptBy(records, Len(records)))
           /\ Left(Pins, {}, request_trace_to_intent_events(records)) = PinnedBy(records, Len(records))
<1> DEFINE m == Len(records)
           seqs == [k \in 1 .. m |-> RecordTrace(records[k])]
           g == [i \in 0 .. m |-> KeptBy(records, i)]
           h == [i \in 0 .. m |-> PinnedBy(records, i)]
<1>1. m \in Nat /\ DOMAIN records = 1 .. m /\ \A k \in 1 .. m : records[k] \in Records
  BY ElementOfSeq
<1>2. \A j, k \in 1 .. m : records[j].request_id = records[k].request_id => j = k
  BY <1>1 DEF IsInjective
<1>3. request_trace_to_intent_events(records) = FlattenSeq(seqs)
  BY <1>1 DEF request_trace_to_intent_events, RecordTrace
<1> HIDE DEF m
<1>4. ASSUME NEW i \in 1 .. m
      PROVE  /\ g[i - 1] \cap BlocksOf(records[i]) = {} /\ h[i - 1] \cap BlocksOf(records[i]) = {}
             /\ g[i] = IF records[i].status = "completed" THEN g[i - 1] ELSE g[i - 1] \cup BlocksOf(records[i])
             /\ h[i] = IF records[i].status = "completed" THEN h[i - 1] ELSE h[i - 1] \cup TailOf(records[i])
  <2>1. i - 1 \in 0 .. m /\ i \in 0 .. m /\ 1 .. i = (1 .. i - 1) \cup {i} /\ i \notin 1 .. i - 1
        /\ \A j \in 1 .. i - 1 : j \in 1 .. m
    BY <1>1
  <2>2. ASSUME NEW j \in 1 .. i - 1
        PROVE  /\ BlocksOf(records[j]) \cap BlocksOf(records[i]) = {}
               /\ TailOf(records[j]) \cap BlocksOf(records[i]) = {}
    <3>1. records[j].request_id # records[i].request_id
      BY <2>1, <1>2
    <3> QED BY <3>1 DEF BlocksOf, TailOf, Span
  <2>3. g[i - 1] = KeptBy(records, i - 1) /\ h[i - 1] = PinnedBy(records, i - 1)
        /\ g[i] = KeptBy(records, i) /\ h[i] = PinnedBy(records, i)
    BY <2>1
  <2> DEFINE open(j) == records[j].status # "completed"
  <2>4. {k \in 1 .. i : open(k)} = {k \in 1 .. i - 1 : open(k)} \cup (IF open(i) THEN {i} ELSE {})
    BY <2>1
  <2> HIDE DEF g, h
  <2>5. g[i] = g[i - 1] \cup (IF open(i) THEN BlocksOf(records[i]) ELSE {})
    BY <2>3, <2>4 DEF KeptBy
  <2>6. h[i] = h[i - 1] \cup (IF open(i) THEN TailOf(records[i]) ELSE {})
    BY <2>3, <2>4 DEF PinnedBy
  <2>7. g[i - 1] \cap BlocksOf(records[i]) = {} /\ h[i - 1] \cap BlocksOf(records[i]) = {}
    BY <2>2, <2>3 DEF KeptBy, PinnedBy
  <2> QED BY <2>5, <2>6, <2>7
<1>5. g[0] = {} /\ h[0] = {} /\ g[m] = KeptBy(records, m) /\ h[m] = PinnedBy(records, m)
  <2>1. 0 \in 0 .. m /\ m \in 0 .. m /\ 1 .. 0 = {}
    BY <1>1
  <2> QED BY <2>1 DEF KeptBy, PinnedBy
<1> HIDE DEF g, h
<1>6. ASSUME NEW i \in 1 .. m
      PROVE  Carries(g[i - 1], seqs[i], g[i]) /\ Left(Pins, h[i - 1], seqs[i]) = h[i]
  <2>1. records[i] \in Records /\ seqs[i] = RecordTrace(records[i])
    BY <1>1
  <2> DEFINE rec == records[i]
             G == g[i - 1]
             H == h[i - 1]
             N == IF rec.status = "completed" THEN G ELSE G \cup BlocksOf(rec)
  <2>2. rec \in Records /\ G \cap BlocksOf(rec) = {} /\ H \cap BlocksOf(rec) = {}
        /\ g[i] = N
        /\ h[i] = IF rec.status = "completed" THEN H ELSE H \cup TailOf(rec)
    BY <2>1, <1>4
  <2> HIDE DEF seqs, rec, G, H
  <2>3. Carries(G, RecordTrace(rec), N)
    BY <2>2, ImportRecord
  <2>4. Left(Pins, H, RecordTrace(rec)) = h[i]
    BY <2>2, ImportRecord
  <2> HIDE DEF N
  <2> QED BY <2>1, <2>2, <2>3, <2>4 DEF rec, G, H
<1>7. DOMAIN seqs = 1 .. m /\ seqs = [i \in 1 .. m |-> seqs[i]]
  OBVIOUS
<1> HIDE DEF seqs
<1>8. Carries(g[0], FlattenSeq(seqs), g[m])
  BY <1>1, <1>6, <1>7, CarriesMany
<1>9. Left(Pins, h[0], FlattenSeq(seqs)) = h[m]
  <2>1. \A i \in 1 .. m : seqs[i] \in Seq(MemoryIntentEvent)
    BY <1>6 DEF Carries
  <2>2. seqs \in Seq(Seq(MemoryIntentEvent)) /\ Len(seqs) = m
    BY <2>1, <1>1, <1>7
  <2>3. \A i \in 1 .. Len(seqs) : /\ Left(Pins, h[i - 1], seqs[i]) = h[i]
                                  /\ FALSE => Sound(Pins, h[i - 1], seqs[i])
    BY <1>6, <2>2
  <2>4. Left(Pins, h[0], FlattenSeq(seqs)) = h[Len(seqs)]
    BY <2>2, <2>3, LeftOfMany
  <2> QED BY <2>2, <2>4
<1> QED BY <1>3, <1>5, <1>8, <1>9 DEF m

-----------------------------------------------------------------------------
(***************************************************************************)
(* What an event does to the priority and the pin of its block             *)
(***************************************************************************)
Marked(e) ==
    LET b == e.object_id
        i == e.intent
    IN  /\ e.event_type = "ALLOCATED" => intent'[b] = i
        /\ e.event_type = "ACCESSED" =>
              intent'[b].priority = i.priority /\ intent'[b].pin_requested = i.pin_requested
        /\ e.event_type = "MARKED_DECODE_CRITICAL" =>
              intent'[b].priority = "DECODE_CRITICAL" /\ intent'[b].pin_requested
        /\ e.event_type = "MARKED_COLD" /\ b \in live_blocks =>
              intent'[b].priority = "COLD" /\ intent'[b].pin_requested = intent[b].pin_requested
        /\ e.event_type \in {"COMMITTED", "SPILLED"} /\ b \in live_blocks =>
              /\ intent'[b].priority = intent[b].priority
              /\ intent'[b].pin_requested = intent[b].pin_requested
        /\ e.event_type = "PREFETCHED" /\ b \in live_blocks =>
              \/ intent'[b] = intent[b]
              \/ intent'[b].priority = i.priority

\* A handler that does not raise marks the block as its event says.
LEMMA HandlerMarks ==
    ASSUME TypeOK, NEW e \in MemoryIntentEvent, Handle(e), pc' # "raised"
    PROVE  Marked(e)
<1> DEFINE b == e.object_id
           i == e.intent
<1>1. /\ intent \in [Blocks -> MemoryIntent \cup {NoIntent}]
      /\ b \in Blocks /\ i \in Intents /\ i \in MemoryIntent
      /\ b \in live_blocks => intent[b] \in MemoryIntent
  BY IntentsAssumption DEF TypeOK, MemoryIntentEvent
<1>2. Handle(e) <=>
        \/ e.event_type = "ALLOCATED" /\ Allocated(b, i)
        \/ e.event_type = "ACCESSED" /\ Accessed(b, i)
        \/ e.event_type = "MARKED_DECODE_CRITICAL" /\ MarkedDecodeCritical(b, i)
        \/ e.event_type = "MARKED_COLD" /\ MarkedCold(b, i)
        \/ e.event_type = "COMMITTED" /\ Committed(b)
        \/ e.event_type = "SPILLED" /\ Spilled(b)
        \/ e.event_type = "PREFETCHED" /\ \E urgent \in BOOLEAN : Prefetched(b, i, urgent)
        \/ e.event_type = "FREED" /\ Freed(b)
  BY DEF Handle
<1>3. Marked(e) <=>
        /\ e.event_type = "ALLOCATED" => intent'[b] = i
        /\ e.event_type = "ACCESSED" =>
              intent'[b].priority = i.priority /\ intent'[b].pin_requested = i.pin_requested
        /\ e.event_type = "MARKED_DECODE_CRITICAL" =>
              intent'[b].priority = "DECODE_CRITICAL" /\ intent'[b].pin_requested
        /\ e.event_type = "MARKED_COLD" /\ b \in live_blocks =>
              intent'[b].priority = "COLD" /\ intent'[b].pin_requested = intent[b].pin_requested
        /\ e.event_type \in {"COMMITTED", "SPILLED"} /\ b \in live_blocks =>
              /\ intent'[b].priority = intent[b].priority
              /\ intent'[b].pin_requested = intent[b].pin_requested
        /\ e.event_type = "PREFETCHED" /\ b \in live_blocks =>
              intent'[b] = intent[b] \/ intent'[b].priority = i.priority
  BY DEF Marked
<1> HIDE DEF b, i
<1>4. CASE e.event_type = "ALLOCATED" /\ Allocated(b, i)
  BY <1>1, <1>3, <1>4 DEF Allocated
<1>5. CASE e.event_type = "ACCESSED" /\ Accessed(b, i)
  <2> DEFINE a == AccessedIntent(b, i)
  <2>1. a \in MemoryIntent
    BY <1>1, AccessedType
  <2>2. a.priority = i.priority /\ a.pin_requested = i.pin_requested
    BY <1>1, <2>1 DEF AccessedIntent, MemoryIntent
  <2>3. intent' = [intent EXCEPT ![b] = a] \/ intent' = [intent EXCEPT ![b] = [a EXCEPT !.current_tier = "HBM"]]
    BY <1>5 DEF Accessed, Raise, move_to_hbm
  <2> HIDE DEF a
  <2>4. [a EXCEPT !.current_tier = "HBM"].priority = a.priority
        /\ [a EXCEPT !.current_tier = "HBM"].pin_requested = a.pin_requested
    BY <2>1 DEF MemoryIntent
  <2>5. intent'[b] = a \/ intent'[b] = [a EXCEPT !.current_tier = "HBM"]
    BY <1>1, <2>3
  <2>6. intent'[b].priority = i.priority /\ intent'[b].pin_requested = i.pin_requested
    BY <2>2, <2>4, <2>5
  <2> QED BY <1>3, <1>5, <2>6
<1>6. CASE e.event_type = "MARKED_DECODE_CRITICAL" /\ MarkedDecodeCritical(b, i)
  <2> DEFINE base == IF b \in live_blocks THEN intent[b] ELSE i
             a == [base EXCEPT !.priority = "DECODE_CRITICAL", !.phase = i.phase,
                               !.pin_requested = TRUE]
  <2>1. base \in MemoryIntent
    BY <1>1
  <2>2. intent' = [intent EXCEPT ![b] = a]
    BY <1>6 DEF MarkedDecodeCritical, Raise
  <2> HIDE DEF base
  <2>3. a.priority = "DECODE_CRITICAL" /\ a.pin_requested
    BY <2>1 DEF MemoryIntent
  <2>4. intent'[b] = a
    BY <1>1, <2>2
  <2> HIDE DEF a
  <2> QED BY <1>3, <1>6, <2>3, <2>4
<1>7. CASE e.event_type = "MARKED_COLD" /\ MarkedCold(b, i)
  <2>1. ASSUME b \in live_blocks
        PROVE  intent'[b].priority = "COLD" /\ intent'[b].pin_requested = intent[b].pin_requested
    <3>1. intent' = [intent EXCEPT ![b].priority = "COLD", ![b].phase = i.phase]
      BY <1>7, <2>1 DEF MarkedCold, Raise
    <3>2. intent[b] \in MemoryIntent
      BY <1>1, <2>1
    <3> QED BY <1>1, <3>1, <3>2 DEF MemoryIntent
  <2> QED BY <1>3, <1>7, <2>1
<1>8. CASE e.event_type = "COMMITTED" /\ Committed(b)
  BY <1>3, <1>8 DEF Committed, Ignore, Raise, placement
<1>9. CASE e.event_type = "SPILLED" /\ Spilled(b)
  <2>1. ASSUME b \in live_blocks
        PROVE  /\ intent'[b].priority = intent[b].priority
               /\ intent'[b].pin_requested = intent[b].pin_requested
    <3>1. intent[b] \in MemoryIntent
      BY <1>1, <2>1
    <3>2. intent' = [intent EXCEPT ![b].current_tier = "DRAM"] \/ intent' = intent
      BY <1>9 DEF Spilled, Ignore, placement
    <3> QED BY <1>1, <3>1, <3>2 DEF MemoryIntent
  <2> QED BY <1>3, <1>9, <2>1
<1>10. CASE e.event_type = "PREFETCHED" /\ \E urgent \in BOOLEAN : Prefetched(b, i, urgent)
  <2>1. PICK urgent \in BOOLEAN : Prefetched(b, i, urgent)
    BY <1>10
  <2>2. \/ intent' = intent \/ intent' = [intent EXCEPT ![b] = i]
        \/ intent' = [intent EXCEPT ![b] = [i EXCEPT !.current_tier = "HBM"]]
    BY <2>1 DEF Prefetched, Ignore, placement, move_to_hbm
  <2>3. [i EXCEPT !.current_tier = "HBM"].priority = i.priority
    BY <1>1 DEF MemoryIntent
  <2>4. intent'[b] = intent[b] \/ intent'[b] = i \/ intent'[b] = [i EXCEPT !.current_tier = "HBM"]
    BY <1>1, <2>2
  <2>5. intent'[b] = intent[b] \/ intent'[b].priority = i.priority
    BY <2>3, <2>4
  <2> QED BY <1>3, <1>10, <2>5
<1>11. CASE e.event_type = "FREED" /\ Freed(b)
  BY <1>3, <1>11
<1> QED BY <1>2, <1>4, <1>5, <1>6, <1>7, <1>8, <1>9, <1>10, <1>11

\* The capacity loop changes no priority and no pin.
LEMMA LoopMarks ==
    ASSUME TypeOK, Loop \/ Finish, NEW b \in live_blocks
    PROVE  /\ intent'[b].priority = intent[b].priority
           /\ intent'[b].pin_requested = intent[b].pin_requested
<1>1. CASE EvictOne
  <2>1. PICK v : Displace(v)
    BY <1>1 DEF EvictOne
  <2>2. PICK target : intent' = [intent EXCEPT ![v].current_tier = target]
    BY <2>1 DEF Displace
  <2>3. b \in Blocks /\ intent \in [Blocks -> MemoryIntent \cup {NoIntent}]
        /\ intent[b] \in MemoryIntent
    BY DEF TypeOK
  <2> QED BY <2>2, <2>3 DEF MemoryIntent
<1>2. CASE CapacityExhausted \/ EnsureDone \/ Finish
  BY <1>2 DEF CapacityExhausted, EnsureDone, Finish, placement
<1> QED BY <1>1, <1>2 DEF Loop

\* The head and the tail, element by element.
LEMMA TailElements ==
    ASSUME NEW S, NEW s \in Seq(S), s # <<>>
    PROVE  /\ 1 \in DOMAIN s /\ Head(s) = s[1] /\ s[1] \in S
           /\ Tail(s) \in Seq(S) /\ Len(Tail(s)) = Len(s) - 1
           /\ \A k \in DOMAIN Tail(s) : k + 1 \in DOMAIN s /\ Tail(s)[k] = s[k + 1]
<1> DEFINE t == Tail(s)
           len == Len(s)
<1>1. len \in Nat \ {0} /\ DOMAIN s = 1 .. len /\ Head(s) = s[1] /\ Head(s) \in S
      /\ t \in Seq(S) /\ Len(t) = len - 1 /\ DOMAIN t = 1 .. len - 1
      /\ \A k \in 1 .. len - 1 : t[k] = s[k + 1]
  BY HeadTailProperties, EmptySeq
<1> HIDE DEF t, len
<1>2. 1 \in 1 .. len /\ \A k \in 1 .. len - 1 : k + 1 \in 1 .. len
  BY <1>1
<1> QED BY <1>1, <1>2 DEF t, len

\* Replay takes the head, between two events.
LEMMA ReplayTakes ==
    ASSUME trace \in Seq(MemoryIntentEvent), Replay
    PROVE  /\ trace # <<>> /\ trace' = Tail(trace) /\ Handle(Head(trace))
           /\ Head(trace) \in MemoryIntentEvent /\ Head(trace) = trace[1] /\ 1 \in DOMAIN trace
           /\ trace' \in Seq(MemoryIntentEvent) /\ Len(trace') = Len(trace) - 1
           /\ \A k \in DOMAIN trace' : k + 1 \in DOMAIN trace /\ trace'[k] = trace[k + 1]
           /\ pc = "idle"
<1>1. trace # <<>> /\ trace' = Tail(trace) /\ Handle(Head(trace))
  BY DEF Replay
<1>2. pc = "idle"
  BY <1>1 DEF Handle, Allocated, Accessed, MarkedDecodeCritical, MarkedCold, Committed,
              Spilled, Prefetched, Freed
<1>3. /\ 1 \in DOMAIN trace /\ Head(trace) = trace[1] /\ trace[1] \in MemoryIntentEvent
      /\ Tail(trace) \in Seq(MemoryIntentEvent) /\ Len(Tail(trace)) = Len(trace) - 1
      /\ \A k \in DOMAIN Tail(trace) : k + 1 \in DOMAIN trace /\ Tail(trace)[k] = trace[k + 1]
  BY <1>1, TailElements
<1> QED BY <1>1, <1>2, <1>3

\* The events that pin a block ask for it, and none replaces the whole intent.
PinsAreAsked ==
    \A k \in DOMAIN trace :
       /\ trace[k].event_type \in Pins.gives => trace[k].intent.pin_requested
       /\ trace[k].event_type # "PREFETCHED"

\* The blocks of T will be pinned in the end, if run() does not raise.
PinsLeft(T) == pc # "raised" => T \subseteq Left(Pins, Pinned, trace)

\* A step of run() keeps these promises.
LEMMA SimulatePins ==
    ASSUME TypeOK, trace \in Seq(MemoryIntentEvent), PinsAreAsked, NEW T, PinsLeft(T), Simulate
    PROVE  PinsAreAsked' /\ PinsLeft(T)'
<1>1. CASE Replay
  <2> DEFINE e == Head(trace)
             A == After(Pins, Pinned, e)
  <2>1. /\ trace # <<>> /\ trace' = Tail(trace) /\ Handle(e) /\ e \in MemoryIntentEvent
        /\ e = trace[1] /\ 1 \in DOMAIN trace /\ pc = "idle"
        /\ trace' \in Seq(MemoryIntentEvent)
        /\ \A k \in DOMAIN trace' : k + 1 \in DOMAIN trace /\ trace'[k] = trace[k + 1]
    BY <1>1, ReplayTakes
  <2>2. PinsAreAsked'
    BY <2>1 DEF PinsAreAsked, Pins
  <2>3. ASSUME pc' # "raised" PROVE T \subseteq Left(Pins, Pinned', trace')
    <3>1. Left(Pins, Pinned, trace) = Left(Pins, A, Tail(trace))
      BY <2>1, LeftOfHead
    <3>2. A \subseteq Pinned'
      <4> SUFFICES ASSUME NEW c \in A PROVE c \in live_blocks' /\ intent'[c].pin_requested
        BY DEF Pinned
      <4>1. /\ e.event_type \in Pins.gives => e.intent.pin_requested
            /\ e.event_type # "PREFETCHED" /\ e.event_type \in EventType
        BY <2>1 DEF PinsAreAsked, MemoryIntentEvent
      <4>2. live_blocks' = After(Life, live_blocks, e)
        BY <2>1, HandleLive
      <4>3. Marked(e)
        BY <2>1, <2>3, HandlerMarks
      <4>4. c = e.object_id \/ c \in Pinned
        BY DEF After
      <4> HIDE DEF e
      <4>5. CASE c # e.object_id
        <5>1. c \in live_blocks /\ intent[c].pin_requested /\ c \in Blocks
          BY <4>4, <4>5 DEF Pinned, TypeOK
        <5>2. c \in live_blocks'
          BY <4>2, <4>5, <5>1 DEF After
        <5>3. intent'[c] = intent[c]
          BY <2>1, <4>5, <5>1, OthersUnchanged
        <5> QED BY <5>1, <5>2, <5>3
      <4>6. CASE c = e.object_id
        <5>1. CASE e.event_type \in Pins.gives
          <6>1. c \in live_blocks'
            BY <4>2, <4>6, <5>1 DEF After, Life, Pins
          <6>2. intent'[c].pin_requested
            BY <4>1, <4>3, <4>6, <5>1 DEF Marked, Pins
          <6> QED BY <6>1, <6>2
        <5>2. CASE e.event_type \notin Pins.gives
          <6>1. c \in Pinned /\ e.event_type \in {"COMMITTED", "SPILLED", "MARKED_COLD"}
            BY <4>1, <4>6, <5>2 DEF After, Pins, EventType
          <6>2. c \in live_blocks /\ intent[c].pin_requested
            BY <6>1 DEF Pinned
          <6>3. c \in live_blocks'
            BY <4>2, <6>1, <6>2 DEF After, Life
          <6>4. intent'[c].pin_requested = intent[c].pin_requested
            BY <4>3, <4>6, <6>1, <6>2 DEF Marked
          <6> QED BY <6>2, <6>3, <6>4
        <5> QED BY <5>1, <5>2
      <4> QED BY <4>5, <4>6
    <3>3. Left(Pins, A, trace') \subseteq Left(Pins, Pinned', trace')
      <4> HIDE DEF A
      <4> QED BY <2>1, <3>2, LeftGrows
    <3>4. T \subseteq Left(Pins, Pinned, trace)
      BY <2>1 DEF PinsLeft
    <3> QED BY <2>1, <3>1, <3>3, <3>4
  <2> QED BY <2>2, <2>3 DEF PinsLeft
<1>2. CASE (Loop \/ Finish) /\ UNCHANGED trace
  <2>1. live_blocks' = live_blocks /\ trace' = trace /\ pc # "raised"
    BY <1>2, LoopLive DEF Loop, Finish, EvictOne, CapacityExhausted, EnsureDone
  <2>2. Pinned' = Pinned
    BY <1>2, <2>1, LoopMarks DEF Pinned
  <2>3. PinsAreAsked'
    BY <2>1 DEF PinsAreAsked
  <2>4. Left(Pins, Pinned', trace') = Left(Pins, Pinned, trace)
    BY <2>1, <2>2
  <2> QED BY <2>1, <2>3, <2>4 DEF PinsLeft
<1> QED BY <1>1, <1>2 DEF Simulate

\* An event that pins its block asks for it.
Asks(e) ==
    /\ e.event_type \in Pins.gives => e.intent.pin_requested
    /\ e.event_type # "PREFETCHED"

\* The importer asks for every pin that it needs, and prefetches nothing.
LEMMA ImporterAsks ==
    ASSUME NEW records \in Seq(Records), trace = request_trace_to_intent_events(records)
    PROVE  PinsAreAsked
<1> DEFINE m == Len(records)
           seqs == [k \in 1 .. m |-> RecordTrace(records[k])]
<1>1. m \in Nat /\ DOMAIN records = 1 .. m /\ \A k \in 1 .. m : records[k] \in Records
  BY ElementOfSeq
<1>2. request_trace_to_intent_events(records) = FlattenSeq(seqs)
  BY <1>1 DEF request_trace_to_intent_events, RecordTrace
<1> HIDE DEF m
<1>3. ASSUME NEW rec \in Records
      PROVE  /\ RecordTrace(rec) \in Seq(MemoryIntentEvent)
             /\ \A e \in Range(RecordTrace(rec)) : Asks(e)
  <2> DEFINE A == ImportAllocations(rec)
             H == ImportHotTail(rec)
             C == ImportCold(rec)
             F == ImportFrees(rec)
             r == rec.request_id
             start == TailStart(rec)
             last == num_blocks(rec) - 1
  <2>1. /\ OnePerBlock(A, "ALLOCATED", r, 0, last)
        /\ IsHotTail(H, r, start, last)
        /\ OnePerBlock(C, "MARKED_COLD", r, 0, start - 1)
        /\ F = <<>> \/ OnePerBlock(F, "FREED", r, 0, last)
    BY ImportParts
  <2>2. RecordTrace(rec) = A \o H \o C \o F
    BY DEF RecordTrace
  <2> HIDE DEF A, H, C, F, r, start, last
  <2>3. A \in Seq(MemoryIntentEvent) /\ \A e \in Range(A) : Asks(e)
    BY <2>1 DEF OnePerBlock, Range, Asks, Pins
  <2>4. H \in Seq(MemoryIntentEvent) /\ \A e \in Range(H) : Asks(e)
    BY <2>1 DEF IsHotTail, Range, Asks, Pins
  <2>5. C \in Seq(MemoryIntentEvent) /\ \A e \in Range(C) : Asks(e)
    BY <2>1 DEF OnePerBlock, Range, Asks, Pins
  <2>6. F \in Seq(MemoryIntentEvent) /\ \A e \in Range(F) : Asks(e)
    <3>1. CASE F = <<>>
      BY <3>1, EmptySeq DEF Range
    <3>2. CASE OnePerBlock(F, "FREED", r, 0, last)
      BY <3>2 DEF OnePerBlock, Range, Asks, Pins
    <3> QED BY <2>1, <3>1, <3>2
  <2>7. ASSUME NEW s \in Seq(MemoryIntentEvent), NEW t \in Seq(MemoryIntentEvent),
               \A e \in Range(s) : Asks(e), \A e \in Range(t) : Asks(e)
        PROVE  s \o t \in Seq(MemoryIntentEvent) /\ \A e \in Range(s \o t) : Asks(e)
    BY <2>7, RangeConcatenation, ConcatProperties
  <2>8. A \o H \in Seq(MemoryIntentEvent) /\ \A e \in Range(A \o H) : Asks(e)
    BY <2>3, <2>4, <2>7
  <2>9. A \o H \o C \in Seq(MemoryIntentEvent) /\ \A e \in Range(A \o H \o C) : Asks(e)
    BY <2>5, <2>7, <2>8
  <2> QED BY <2>2, <2>6, <2>7, <2>9
<1>4. \A k \in 1 .. m : seqs[k] \in Seq(MemoryIntentEvent) /\ \A e \in Range(seqs[k]) : Asks(e)
  BY <1>1, <1>3
<1>5. seqs \in Seq(Seq(MemoryIntentEvent)) /\ Len(seqs) = m
  BY <1>1, <1>4
<1> HIDE DEF seqs
<1>6. Range(trace) = UNION {Range(seqs[j]) : j \in 1 .. m}
  BY <1>2, <1>5, FlattenRange
<1>7. \A e \in Range(trace) : Asks(e)
  BY <1>4, <1>6
<1> QED BY <1>7 DEF PinsAreAsked, Asks, Range

\* A list that is bounded is a list.
LEMMA BoundedIsSeq ==
    ASSUME NEW S, NEW k, NEW s \in BoundedSeq(S, k)
    PROVE  s \in Seq(S)
<1>1. PICK m \in 0 .. k : s \in [1 .. m -> S]
  BY DEF BoundedSeq, SeqOf
<1>2. m \in Nat
  OBVIOUS
<1> QED BY <1>1, <1>2

\* While the importer's trace is replayed: it will leave the blocks of the requests
\* that did not complete, with their hot tails pinned.
ImporterInvariant ==
    /\ input \in Seq(Records) /\ IsInjective([k \in DOMAIN input |-> input[k].request_id])
    /\ Leads(KeptBy(input, Len(input)))
    /\ PinsAreAsked /\ PinsLeft(PinnedBy(input, Len(input)))

\* The importer writes its trace when nothing is live.
LEMMA ImporterStart ==
    ASSUME ImporterInit
    PROVE  ImporterInvariant /\ trace \in Seq(MemoryIntentEvent)
<1>1. /\ Init /\ trace = request_trace_to_intent_events(input)
      /\ input \in BoundedSeq(Records, Cardinality(Requests))
      /\ IsInjective([k \in DOMAIN input |-> input[k].request_id])
  BY DEF ImporterInit
<1>2. input \in Seq(Records)
  BY <1>1, BoundedIsSeq
<1>3. /\ Carries({}, trace, KeptBy(input, Len(input)))
      /\ Left(Pins, {}, trace) = PinnedBy(input, Len(input))
  BY <1>1, <1>2, ImportedTrace
<1>4. live_blocks = {} /\ Pinned = {}
  BY <1>1, NothingLive
<1>5. Leads(KeptBy(input, Len(input))) /\ trace \in Seq(MemoryIntentEvent)
  BY <1>3, <1>4 DEF Leads, Carries
<1>6. PinsLeft(PinnedBy(input, Len(input)))
  BY <1>3, <1>4 DEF PinsLeft
<1>7. PinsAreAsked
  BY <1>1, <1>2, ImporterAsks
<1> QED BY <1>1, <1>2, <1>5, <1>6, <1>7 DEF ImporterInvariant

\* A step of run() on the trace of the importer.
LEMMA ImporterStep ==
    ASSUME TypeOK, trace \in Seq(MemoryIntentEvent), ImporterInvariant, WorkloadNext
    PROVE  ImporterInvariant' /\ trace' \in Seq(MemoryIntentEvent) /\ ~ TakesUnknownBlock
<1>1. Simulate /\ input' = input
  BY DEF WorkloadNext
<1> DEFINE K == KeptBy(input, Len(input))
           T == PinnedBy(input, Len(input))
<1>2. Leads(K) /\ PinsAreAsked /\ PinsLeft(T) /\ K' = K /\ T' = T
      /\ input \in Seq(Records) /\ IsInjective([k \in DOMAIN input |-> input[k].request_id])
  BY <1>1 DEF ImporterInvariant, KeptBy, PinnedBy
<1>3. trace' \in Seq(MemoryIntentEvent) /\ ~ TakesUnknownBlock
  BY <1>1, <1>2, SimulateLeads
<1>4. /\ Sound(Life, live_blocks', trace') /\ Left(Life, live_blocks', trace') = K
      /\ PinsAreAsked'
      /\ pc' # "raised" => T \subseteq Left(Pins, Pinned', trace')
  <2> HIDE DEF K, T
  <2>1. \A M : Leads(M) => Sound(Life, live_blocks', trace') /\ Left(Life, live_blocks', trace') = M
    BY <1>1, SimulateLeads DEF Leads
  <2>2. PinsAreAsked' /\ \A M : PinsLeft(M) => (pc' # "raised" => M \subseteq Left(Pins, Pinned', trace'))
    BY <1>1, <1>2, SimulatePins DEF PinsLeft
  <2> QED BY <1>2, <2>1, <2>2
<1>5. Leads(KeptBy(input, Len(input)))' /\ PinsLeft(PinnedBy(input, Len(input)))'
  BY <1>2, <1>4 DEF Leads, PinsLeft
<1>6. /\ input' \in Seq(Records)
      /\ IsInjective([k \in DOMAIN input |-> input[k].request_id])'
  BY <1>1, <1>2
<1> QED BY <1>3, <1>4, <1>5, <1>6 DEF ImporterInvariant

\* When the trace has been taken, what was promised is so.
LEMMA ImporterEnd ==
    ASSUME ImporterInvariant, Quiescent
    PROVE  OnlyUnfinishedStayLive
<1> DEFINE unfinished == {rec \in Range(input) : rec.status # "completed"}
           m == Len(input)
           open == {k \in 1 .. m : input[k].status # "completed"}
<1>1. /\ input \in Seq(Records) /\ m \in Nat /\ DOMAIN input = 1 .. m
      /\ \A k \in 1 .. m : input[k] \in Records
  BY ElementOfSeq DEF ImporterInvariant
<1>2. \A rec : rec \in unfinished <=> \E k \in open : rec = input[k]
  BY <1>1 DEF Range
<1>3. live_blocks = KeptBy(input, m)
  BY LedTo DEF ImporterInvariant
<1>4. PinnedBy(input, m) \subseteq Pinned
  <2>1. PinsLeft(PinnedBy(input, m)) /\ trace = <<>> /\ pc = "idle"
    BY DEF ImporterInvariant, Quiescent
  <2>2. Left(Pins, Pinned, <<>>) = Pinned
    BY LeftOfNone
  <2> QED BY <2>1, <2>2 DEF PinsLeft
<1> HIDE DEF m
<1>5. \A rec : BlocksOf(rec) = {rec.request_id} \X (0 .. num_blocks(rec) - 1)
  BY DEF BlocksOf, Span
<1>6. live_blocks = UNION {{rec.request_id} \X (0 .. num_blocks(rec) - 1) : rec \in unfinished}
  <2>1. KeptBy(input, m) = UNION {BlocksOf(input[j]) : j \in open}
    BY DEF KeptBy
  <2>2. KeptBy(input, m) = UNION {BlocksOf(rec) : rec \in unfinished}
    <3> HIDE DEF open, unfinished
    <3> QED BY <1>2, <2>1
  <2> HIDE DEF unfinished
  <2> QED BY <1>3, <1>5, <2>2
<1>7. ASSUME NEW rec \in unfinished
      PROVE  \E k \in 0 .. num_blocks(rec) - 1 : intent[<<rec.request_id, k>>].pin_requested
  <2>1. PICK j \in open : rec = input[j]
    BY <1>2
  <2>2. rec \in Records /\ j \in 1 .. m
    BY <1>1, <2>1
  <2>3. /\ num_blocks(rec) - 1 \in TailStart(rec) .. num_blocks(rec) - 1
        /\ num_blocks(rec) - 1 \in 0 .. num_blocks(rec) - 1
    BY <2>2, RequestBlocks, BlockBoundAssumption
  <2>4. <<rec.request_id, num_blocks(rec) - 1>> \in TailOf(rec)
    BY <2>3 DEF TailOf, Span
  <2>5. <<rec.request_id, num_blocks(rec) - 1>> \in PinnedBy(input, m)
    BY <2>1, <2>4 DEF PinnedBy
  <2> QED BY <1>4, <2>3, <2>5 DEF Pinned
<1> QED BY <1>6, <1>7 DEF OnlyUnfinishedStayLive

-----------------------------------------------------------------------------
(***************************************************************************)
(* The trace of the proxy log adapter                                      *)
(***************************************************************************)
ProxyTrace(entry) == ProxyAllocations(entry) \o ProxyMarks(entry) \o ProxyFrees(entry)

\* One entry allocates its blocks, marks the last two, and frees all of them.
LEMMA ProxyEntry ==
    ASSUME NEW entry \in ProxyEntries
    PROVE  Carries({}, ProxyTrace(entry), {})
<1> DEFINE r == entry.request_id
           count == ProxyBlocks(entry)
           start == Max({0, count - 2})
           size == ProxyBlockSize
           A == ProxyAllocations(entry)
           M == ProxyMarks(entry)
           F == ProxyFrees(entry)
           own == Span(r, 0, count - 1)
<1>1. r \in Requests /\ size \in WorkloadSizes /\ entry.prompt_tokens \in Nat
      /\ logical_block_tokens \in Nat \ {0}
  BY ImporterAssumption DEF ProxyEntries, WorkloadSizes
<1>2. count \in Nat /\ count >= 1 /\ count <= MaxBlocks /\ MaxBlocks \in Nat
  <2> DEFINE c == ceil(entry.prompt_tokens, logical_block_tokens)
  <2>1. c \in Nat
    BY <1>1, CeilFacts
  <2>2. count = Max({1, c})
    BY DEF ProxyBlocks
  <2> HIDE DEF c, count
  <2>3. count = IF 1 >= c THEN 1 ELSE c
    BY <2>1, <2>2, MaxMinOfTwo
  <2> QED BY <2>1, <2>3, BlockBoundAssumption DEF count
<1>3. /\ {"PREFILL", "DECODE"} \subseteq Phase /\ {"WARM", "DECODE_CRITICAL"} \subseteq Priority
      /\ {"ALLOCATED", "MARKED_DECODE_CRITICAL"} \subseteq EventType
  BY DEF Phase, Priority, EventType
<1> HIDE DEF count
<1>4. start \in Nat /\ start < count
  <2>1. start = IF 0 >= count - 2 THEN 0 ELSE count - 2
    BY <1>2, MaxMinOfTwo
  <2> QED BY <1>2, <2>1
<1>5. ProxyTrace(entry) = A \o M \o F
  BY DEF ProxyTrace
<1>6. OnePerBlock(A, "ALLOCATED", r, 0, count - 1)
  <2> DEFINE i == make("PREFILL", "WARM", "HBM", size)
             m == (count - 1) - 0 + 1
             s == [k \in 1 .. m |-> Ev("ALLOCATED", <<r, 0 + k - 1>>, i)]
  <2>1. A = s
    BY DEF ProxyAllocations, PerBlock, count
  <2> HIDE DEF r, size
  <2>2. m \in Nat /\ \A k \in 1 .. m : 0 + k - 1 \in 0 .. count - 1
    BY <1>2
  <2>3. \A k \in 1 .. m : <<r, 0 + k - 1>> \in Blocks
    <3>1. 0 \in Nat /\ count - 1 \in Int /\ count - 1 < MaxBlocks
      BY <1>2
    <3> HIDE DEF m
    <3> QED BY <1>1, <2>2, <3>1, RequestSpan
  <2> HIDE DEF m
  <2>4. \A k \in 1 .. m : Ev("ALLOCATED", <<r, 0 + k - 1>>, i) \in MemoryIntentEvent
    BY <1>1, <1>3, <2>3, WorkloadEvent
  <2>5. s \in Seq(MemoryIntentEvent) /\ DOMAIN s = 1 .. m
    BY <2>2, <2>4
  <2> HIDE DEF i
  <2>6. \A k \in 1 .. m : s[k].event_type = "ALLOCATED" /\ s[k].object_id = <<r, 0 + k - 1>>
    BY DEF Ev
  <2> HIDE DEF s
  <2> QED BY <2>1, <2>5, <2>6 DEF OnePerBlock, m
<1>7. OnePerBlock(M, "MARKED_DECODE_CRITICAL", r, start, count - 1)
  <2> DEFINE i == make("DECODE", "DECODE_CRITICAL", "HBM", size)
             m == (count - 1) - start + 1
             s == [k \in 1 .. m |-> Ev("MARKED_DECODE_CRITICAL", <<r, start + k - 1>>, i)]
  <2>1. M = s
    BY DEF ProxyMarks, PerBlock, count
  <2> HIDE DEF r, size, start
  <2>2. m \in Nat /\ \A k \in 1 .. m : start + k - 1 \in start .. count - 1
    BY <1>2, <1>4
  <2>3. \A k \in 1 .. m : <<r, start + k - 1>> \in Blocks
    <3>1. count - 1 \in Int /\ count - 1 < MaxBlocks
      BY <1>2
    <3> HIDE DEF m
    <3> QED BY <1>1, <1>4, <2>2, <3>1, RequestSpan
  <2> HIDE DEF m
  <2>4. \A k \in 1 .. m : Ev("MARKED_DECODE_CRITICAL", <<r, start + k - 1>>, i) \in MemoryIntentEvent
    BY <1>1, <1>3, <2>3, WorkloadEvent
  <2>5. s \in Seq(MemoryIntentEvent) /\ DOMAIN s = 1 .. m
    BY <2>2, <2>4
  <2> HIDE DEF i
  <2>6. \A k \in 1 .. m : s[k].event_type = "MARKED_DECODE_CRITICAL"
                          /\ s[k].object_id = <<r, start + k - 1>>
    BY DEF Ev
  <2> HIDE DEF s
  <2> QED BY <2>1, <2>5, <2>6 DEF OnePerBlock, m
<1>8. OnePerBlock(F, "FREED", r, 0, count - 1)
  <2>1. F = FreeAll(r, count, size)
    BY DEF ProxyFrees, count
  <2> HIDE DEF r, size, F
  <2> QED BY <1>1, <1>2, <2>1, FreeAllFacts
<1> HIDE DEF A, M, F, r, start
<1>9. 0 \in Nat /\ count - 1 \in Int
  BY <1>2
<1>10. Carries({}, A, own)
  <2>1. {} \cap own = {} /\ {} \cup own = own
    OBVIOUS
  <2>2. Carries({}, A, {} \cup own)
    BY <1>6, <1>9, <2>1, CarriesSpan
  <2> QED BY <2>1, <2>2
<1>11. Carries(own, M, own)
  <2>1. Span(r, start, count - 1) \subseteq own
    BY <1>2, <1>4 DEF Span
  <2> DEFINE e == count - 1
             type == "MARKED_DECODE_CRITICAL"
  <2>2. /\ OnePerBlock(M, type, r, start, e) /\ start \in Nat /\ e \in Int
        /\ Span(r, start, e) \subseteq own /\ type \notin {"ALLOCATED", "FREED"}
    BY <1>4, <1>7, <1>9, <2>1
  <2> HIDE DEF own, e, type
  <2> QED BY <2>2, CarriesSpan
<1>12. Carries(own, F, {})
  <2>1. own \ own = {}
    OBVIOUS
  <2>2. Carries(own, F, own \ own)
    BY <1>8, <1>9, CarriesSpan
  <2> QED BY <2>1, <2>2
<1> HIDE DEF own
<1>13. Carries({}, A \o M, own)
  BY <1>10, <1>11, CarriesTwo
<1>14. Carries({}, A \o M \o F, {})
  BY <1>12, <1>13, CarriesTwo
<1> QED BY <1>5, <1>14

\* The whole log leaves nothing, whatever ids it repeats.
ProxyInvariant == Leads({})

\* The proxy log adapter writes its trace when nothing is live.
LEMMA ProxyStart ==
    ASSUME ProxyInit
    PROVE  ProxyInvariant /\ trace \in Seq(MemoryIntentEvent)
<1> DEFINE m == Len(input)
           seqs == [k \in 1 .. m |-> ProxyTrace(input[k])]
           g == [i \in 0 .. m |-> {}]
<1>1. /\ Init /\ trace = openai_proxy_logs_to_intent_events(input)
      /\ input \in BoundedSeq(ProxyEntries, Cardinality(Requests))
  BY DEF ProxyInit
<1>2. input \in Seq(ProxyEntries)
  BY <1>1, BoundedIsSeq
<1>3. m \in Nat /\ DOMAIN input = 1 .. m /\ \A k \in 1 .. m : input[k] \in ProxyEntries
  BY <1>2, ElementOfSeq
<1>4. trace = FlattenSeq(seqs)
  BY <1>1, <1>3 DEF openai_proxy_logs_to_intent_events, ProxyTrace
<1> HIDE DEF m
<1>5. \A i \in 1 .. m : i - 1 \in 0 .. m /\ i \in 0 .. m
  BY <1>3
<1>6. \A i \in 1 .. m : Carries(g[i - 1], seqs[i], g[i])
  <2> SUFFICES ASSUME NEW i \in 1 .. m PROVE Carries(g[i - 1], seqs[i], g[i])
    OBVIOUS
  <2>1. Carries({}, ProxyTrace(input[i]), {})
    BY <1>3, ProxyEntry
  <2>2. g[i - 1] = {} /\ g[i] = {} /\ seqs[i] = ProxyTrace(input[i])
    BY <1>5
  <2> HIDE DEF g, seqs
  <2> QED BY <2>1, <2>2
<1>7. g[0] = {} /\ g[m] = {} /\ DOMAIN seqs = 1 .. m /\ seqs = [i \in 1 .. m |-> seqs[i]]
  BY <1>3
<1> HIDE DEF g, seqs
<1>8. Carries({}, trace, {})
  <2>1. Carries(g[0], FlattenSeq(seqs), g[m])
    BY <1>3, <1>6, <1>7, CarriesMany
  <2> QED BY <1>4, <1>7, <2>1
<1> QED BY <1>1, <1>8, NothingLive DEF ProxyInvariant, Leads, Carries

\* A step of run() on the trace of the proxy log adapter.
LEMMA ProxyStep ==
    ASSUME trace \in Seq(MemoryIntentEvent), ProxyInvariant, WorkloadNext
    PROVE  ProxyInvariant' /\ trace' \in Seq(MemoryIntentEvent) /\ ~ TakesUnknownBlock
<1>1. Simulate /\ Leads({})
  BY DEF WorkloadNext, ProxyInvariant
<1>2. Leads({})' /\ trace' \in Seq(MemoryIntentEvent) /\ ~ TakesUnknownBlock
  BY <1>1, SimulateLeads
<1> QED BY <1>2 DEF ProxyInvariant

\* When the trace has been taken, nothing is live.
LEMMA ProxyEnd ==
    ASSUME ProxyInvariant, Quiescent
    PROVE  ProxyLeavesNothing
BY LedTo DEF ProxyInvariant, ProxyLeavesNothing

-----------------------------------------------------------------------------
(***************************************************************************)
(* The Prometheus adapter                                                  *)
(***************************************************************************)
\* The samples with high pressure among the first p.
High(p) == {k \in 1 .. p : HighPressure(input[k])}

\* What the first p samples have made of the monitor block.
Monitored(p) ==
    /\ live_blocks = IF High(p) = {} THEN {} ELSE {Monitor}
    /\ pc # "raised" /\ High(p) # {} =>
          /\ intent[Monitor].priority = IF HighPressure(input[p]) THEN "DECODE_CRITICAL" ELSE "COLD"
          /\ \E k \in High(p) : intent[Monitor].size_bytes = input[k]
                                /\ \A j \in High(p) : k <= j

\* The samples that run() has taken account for the monitor block, and the events
\* left are those of the other samples.
PrometheusInvariant ==
    /\ input \in Seq(0 .. max_memory_bytes + 1)
    /\ Len(trace) <= Len(input)
    /\ \A k \in DOMAIN trace : trace[k] = MonitorEvent(input[Len(input) - Len(trace) + k])
    /\ Monitored(Len(input) - Len(trace))
    /\ hbm_blocks \cup dram_blocks = {} /\ pc # "ensure"

\* The event of a sample.
LEMMA MonitorEventFacts ==
    ASSUME NEW bytes \in 0 .. max_memory_bytes + 1
    PROVE  /\ MonitorEvent(bytes) \in MemoryIntentEvent
           /\ MonitorEvent(bytes).object_id = Monitor
           /\ MonitorEvent(bytes).event_type =
                 IF HighPressure(bytes) THEN "MARKED_DECODE_CRITICAL" ELSE "MARKED_COLD"
           /\ HighPressure(bytes) => MonitorEvent(bytes).intent.size_bytes = bytes
<1>1. max_memory_bytes \in Nat /\ Monitor \in Blocks
  BY SyntheticAssumption, BlockBoundAssumption
<1> DEFINE size == Max({bytes, 1})
<1>2. size = IF bytes >= 1 THEN bytes ELSE 1
  BY <1>1, MaxMinOfTwo
<1>3. size \in 1 .. max_memory_bytes + 1
  BY <1>1, <1>2
<1>4. size \in WorkloadSizes
  BY <1>3 DEF WorkloadSizes
<1>5. HighPressure(bytes) => size = bytes
  BY <1>1, <1>2 DEF HighPressure
<1> HIDE DEF size
<1>6. /\ {"DECODE", "IDLE"} \subseteq Phase /\ {"DECODE_CRITICAL", "COLD"} \subseteq Priority
      /\ {"MARKED_DECODE_CRITICAL", "MARKED_COLD"} \subseteq EventType
  BY DEF Phase, Priority, EventType
<1> DEFINE d == Ev("MARKED_DECODE_CRITICAL", Monitor, make("DECODE", "DECODE_CRITICAL", "HBM", size))
           c == Ev("MARKED_COLD", Monitor, make("IDLE", "COLD", "HBM", size))
<1>7. d \in MemoryIntentEvent /\ c \in MemoryIntentEvent
  BY <1>1, <1>4, <1>6, WorkloadEvent
<1>8. /\ d.object_id = Monitor /\ d.event_type = "MARKED_DECODE_CRITICAL" /\ d.intent.size_bytes = size
      /\ c.object_id = Monitor /\ c.event_type = "MARKED_COLD"
  BY DEF Ev, make
<1>9. MonitorEvent(bytes) = IF HighPressure(bytes) THEN d ELSE c
  BY DEF MonitorEvent, size
<1> HIDE DEF c, d
<1> QED BY <1>5, <1>7, <1>8, <1>9

\* The telemetry adapter starts with no sample taken.
LEMMA PrometheusStart ==
    ASSUME PrometheusInit
    PROVE  PrometheusInvariant /\ trace \in Seq(MemoryIntentEvent)
<1>1. /\ Init /\ trace = [k \in DOMAIN input |-> MonitorEvent(input[k])]
      /\ input \in Seq(0 .. max_memory_bytes + 1)
  BY BoundedIsSeq DEF PrometheusInit, prometheus_samples_to_intent_events
<1> DEFINE m == Len(input)
<1>2. m \in Nat /\ DOMAIN input = 1 .. m /\ \A k \in 1 .. m : input[k] \in 0 .. max_memory_bytes + 1
  <2> DEFINE S == 0 .. max_memory_bytes + 1
  <2>1. input \in Seq(S)
    BY <1>1
  <2> HIDE DEF S
  <2>2. m \in Nat /\ DOMAIN input = 1 .. m /\ \A k \in 1 .. m : input[k] \in S
    BY <2>1, ElementOfSeq
  <2> QED BY <2>2 DEF S
<1>3. trace = [k \in 1 .. m |-> MonitorEvent(input[k])]
  BY <1>1, <1>2
<1> HIDE DEF m
<1>4. \A k \in 1 .. m : MonitorEvent(input[k]) \in MemoryIntentEvent
  BY <1>2, MonitorEventFacts
<1>5. trace \in Seq(MemoryIntentEvent) /\ Len(trace) = m /\ DOMAIN trace = 1 .. m
      /\ \A k \in 1 .. m : trace[k] = MonitorEvent(input[k])
  BY <1>2, <1>3, <1>4
<1>6. \A k \in DOMAIN trace : trace[k] = MonitorEvent(input[m - Len(trace) + k])
  <2>1. \A k \in 1 .. m : m - m + k = k
    BY <1>2
  <2> QED BY <1>5, <2>1
<1>7. Monitored(m - Len(trace))
  <2>1. m - Len(trace) = 0 /\ High(0) = {}
    BY <1>2, <1>5 DEF High
  <2> QED BY <1>1, <2>1, NothingLive DEF Monitored
<1>8. hbm_blocks \cup dram_blocks = {} /\ pc # "ensure"
  BY <1>1, NothingLive
<1>9. Len(trace) <= m
  BY <1>2, <1>5
<1> QED BY <1>1, <1>5, <1>6, <1>7, <1>8, <1>9 DEF PrometheusInvariant, m

\* What a mark does to the size of its block and to the tiers.
LEMMA MarkSizes ==
    ASSUME TypeOK, NEW e \in MemoryIntentEvent, Handle(e),
           e.event_type \in {"MARKED_DECODE_CRITICAL", "MARKED_COLD"}, pc' # "raised"
    PROVE  /\ e.object_id \in live_blocks =>
                 intent'[e.object_id].size_bytes = intent[e.object_id].size_bytes
           /\ e.event_type = "MARKED_DECODE_CRITICAL" /\ e.object_id \notin live_blocks =>
                 intent'[e.object_id].size_bytes = e.intent.size_bytes
<1> DEFINE b == e.object_id
           i == e.intent
<1>1. /\ intent \in [Blocks -> MemoryIntent \cup {NoIntent}]
      /\ b \in Blocks /\ i \in MemoryIntent
      /\ b \in live_blocks => intent[b] \in MemoryIntent
  BY IntentsAssumption DEF TypeOK, MemoryIntentEvent
<1>2. \/ e.event_type = "MARKED_DECODE_CRITICAL" /\ MarkedDecodeCritical(b, i)
      \/ e.event_type = "MARKED_COLD" /\ MarkedCold(b, i)
  BY DEF Handle
<1> HIDE DEF b, i
<1>3. CASE e.event_type = "MARKED_DECODE_CRITICAL" /\ MarkedDecodeCritical(b, i)
  <2> DEFINE base == IF b \in live_blocks THEN intent[b] ELSE i
             a == [base EXCEPT !.priority = "DECODE_CRITICAL", !.phase = i.phase,
                               !.pin_requested = TRUE]
  <2>1. base \in MemoryIntent /\ base = IF b \in live_blocks THEN intent[b] ELSE i
    BY <1>1
  <2>2. intent' = [intent EXCEPT ![b] = a]
    BY <1>3 DEF MarkedDecodeCritical, Raise
  <2> HIDE DEF base
  <2>3. a.size_bytes = base.size_bytes
    BY <2>1 DEF MemoryIntent
  <2>4. intent'[b] = a
    BY <1>1, <2>2
  <2> HIDE DEF a
  <2>5. intent'[b].size_bytes = base.size_bytes
    BY <2>3, <2>4
  <2> QED BY <1>3, <2>1, <2>5 DEF b, i
<1>4. CASE e.event_type = "MARKED_COLD" /\ MarkedCold(b, i)
  <2>1. ASSUME b \in live_blocks PROVE intent'[b].size_bytes = intent[b].size_bytes
    <3>1. intent' = [intent EXCEPT ![b].priority = "COLD", ![b].phase = i.phase]
      BY <1>4, <2>1 DEF MarkedCold, Raise
    <3>2. intent[b] \in MemoryIntent
      BY <1>1, <2>1
    <3> QED BY <1>1, <3>1, <3>2 DEF MemoryIntent
  <2> QED BY <1>4, <2>1 DEF b, i
<1> QED BY <1>2, <1>3, <1>4

\* A step of run() takes one sample more, or finishes one.
LEMMA PrometheusStep ==
    ASSUME TypeOK, trace \in Seq(MemoryIntentEvent), PrometheusInvariant, WorkloadNext
    PROVE  PrometheusInvariant' /\ trace' \in Seq(MemoryIntentEvent)
<1> DEFINE m == Len(input)
<1>p. PICK p : p = m - Len(trace)
  OBVIOUS
<1>1. Simulate /\ input' = input
  BY DEF WorkloadNext
<1>2. /\ input \in Seq(0 .. max_memory_bytes + 1) /\ Len(trace) <= m
      /\ m \in Nat /\ DOMAIN input = 1 .. m
      /\ \A k \in 1 .. m : input[k] \in 0 .. max_memory_bytes + 1
      /\ \A k \in DOMAIN trace : trace[k] = MonitorEvent(input[p + k])
      /\ Monitored(p) /\ hbm_blocks = {} /\ dram_blocks = {} /\ pc # "ensure"
      /\ Len(trace) \in Nat /\ DOMAIN trace = 1 .. Len(trace)
      /\ p \in 0 .. m
  <2> DEFINE S == 0 .. max_memory_bytes + 1
  <2>1. input \in Seq(S)
    BY DEF PrometheusInvariant
  <2> HIDE DEF S
  <2>2. m \in Nat /\ DOMAIN input = 1 .. m /\ \A k \in 1 .. m : input[k] \in S
    BY <2>1, ElementOfSeq
  <2>3. Len(trace) \in Nat /\ DOMAIN trace = 1 .. Len(trace)
    OBVIOUS
  <2>4. Len(trace) <= m
    BY DEF PrometheusInvariant
  <2>5. p \in 0 .. m
    <3> HIDE DEF m
    <3> QED BY <1>p, <2>2, <2>3, <2>4
  <2> QED BY <1>p, <2>1, <2>2, <2>3, <2>4, <2>5 DEF PrometheusInvariant, S
<1>3. CASE Replay
  <2> DEFINE e == Head(trace)
             x == input[p + 1]
  <2>1. /\ trace # <<>> /\ trace' = Tail(trace) /\ Handle(e) /\ e \in MemoryIntentEvent
        /\ e = trace[1] /\ 1 \in DOMAIN trace /\ pc = "idle"
        /\ trace' \in Seq(MemoryIntentEvent) /\ Len(trace') = Len(trace) - 1
        /\ \A k \in DOMAIN trace' : k + 1 \in DOMAIN trace /\ trace'[k] = trace[k + 1]
    BY <1>3, ReplayTakes
  <2> HIDE DEF m
  <2>2. Len(trace) >= 1 /\ m - Len(trace') = p + 1 /\ p + 1 \in 1 .. m /\ p \in 0 .. m
    BY <1>p, <1>2, <2>1
  <2>3. x \in 0 .. max_memory_bytes + 1 /\ e = MonitorEvent(x)
    BY <1>2, <2>1, <2>2
  <2>4. /\ e.object_id = Monitor
        /\ e.event_type = IF HighPressure(x) THEN "MARKED_DECODE_CRITICAL" ELSE "MARKED_COLD"
        /\ HighPressure(x) => e.intent.size_bytes = x
    BY <2>3, MonitorEventFacts
  <2> HIDE DEF e
  <2>5. ASSUME NEW k \in DOMAIN trace' PROVE trace'[k] = MonitorEvent(input[(p + 1) + k])
    <3>1. k + 1 \in DOMAIN trace /\ trace'[k] = trace[k + 1] /\ k \in Int
      BY <2>1
    <3>2. trace[k + 1] = MonitorEvent(input[p + (k + 1)])
      BY <1>2, <3>1
    <3>3. p + (k + 1) = (p + 1) + k
      BY <1>2, <3>1
    <3> QED BY <3>1, <3>2, <3>3
  <2>6. High(p + 1) = High(p) \cup (IF HighPressure(x) THEN {p + 1} ELSE {})
    <3>1. 1 .. p + 1 = (1 .. p) \cup {p + 1}
      BY <2>2
    <3> QED BY <3>1 DEF High
  <2>7. live_blocks' = After(Life, live_blocks, e)
    BY <2>1, HandleLive
  <2>8. live_blocks' = IF High(p + 1) = {} THEN {} ELSE {Monitor}
    BY <1>2, <2>4, <2>6, <2>7 DEF Monitored, After, Life
  <2>9. ASSUME pc' # "raised", High(p + 1) # {}
        PROVE  /\ intent'[Monitor].priority = IF HighPressure(x) THEN "DECODE_CRITICAL" ELSE "COLD"
               /\ \E k \in High(p + 1) : intent'[Monitor].size_bytes = input[k]
                                         /\ \A j \in High(p + 1) : k <= j
    <3>1. Marked(e)
      BY <2>1, <2>9, HandlerMarks
    <3>2. /\ Monitor \in live_blocks => intent'[Monitor].size_bytes = intent[Monitor].size_bytes
          /\ HighPressure(x) /\ Monitor \notin live_blocks =>
                intent'[Monitor].size_bytes = e.intent.size_bytes
      BY <2>1, <2>4, <2>9, MarkSizes
    <3>3. Monitor \in live_blocks <=> High(p) # {}
      BY <1>2 DEF Monitored
    <3>4. ~ HighPressure(x) => Monitor \in live_blocks
      BY <2>6, <2>9, <3>3
    <3>5. intent'[Monitor].priority = IF HighPressure(x) THEN "DECODE_CRITICAL" ELSE "COLD"
      BY <2>4, <3>1, <3>4 DEF Marked
    <3>6. \E k \in High(p + 1) : intent'[Monitor].size_bytes = input[k]
                                 /\ \A j \in High(p + 1) : k <= j
      <4>1. CASE High(p) # {}
        <5>1. PICK k \in High(p) : intent[Monitor].size_bytes = input[k] /\ \A j \in High(p) : k <= j
          BY <1>2, <2>1, <4>1 DEF Monitored
        <5>2. k \in 1 .. p /\ k <= p + 1
          BY <2>2, <5>1 DEF High
        <5>3. k \in High(p + 1) /\ \A j \in High(p + 1) : k <= j
          BY <2>6, <5>1, <5>2
        <5>4. intent'[Monitor].size_bytes = input[k]
          BY <3>2, <3>3, <4>1, <5>1
        <5> QED BY <5>3, <5>4
      <4>2. CASE High(p) = {}
        <5>1. HighPressure(x) /\ High(p + 1) = {p + 1}
          BY <2>6, <2>9, <4>2
        <5>2. intent'[Monitor].size_bytes = input[p + 1]
          BY <2>4, <3>2, <3>3, <4>2, <5>1
        <5> QED BY <2>2, <5>1, <5>2
      <4> QED BY <4>1, <4>2
    <3> QED BY <3>5, <3>6
  <2>10. Monitored(p + 1)'
    <3>1. High(p + 1)' = High(p + 1) /\ input'[p + 1] = x
      BY <1>1 DEF High, HighPressure
    <3> QED BY <1>1, <2>8, <2>9, <3>1 DEF Monitored, HighPressure
  <2>11. hbm_blocks' = {} /\ dram_blocks' = {} /\ pc' # "ensure"
    <3>1. \/ MarkedDecodeCritical(e.object_id, e.intent)
          \/ MarkedCold(e.object_id, e.intent)
      BY <2>1, <2>4 DEF Handle
    <3> QED BY <1>2, <3>1 DEF MarkedDecodeCritical, MarkedCold, Raise, Ignore, placement
  <2>12. Len(trace') <= m
    BY <1>2, <2>1
  <2>13. Monitored(Len(input) - Len(trace))'
    BY <1>1, <2>2, <2>10 DEF m, Monitored, High, HighPressure
  <2>14. \A k \in DOMAIN trace' : trace'[k] = MonitorEvent(input'[Len(input') - Len(trace') + k])
    BY <1>1, <2>2, <2>5 DEF m
  <2>15. input' \in Seq(0 .. max_memory_bytes + 1)
    BY <1>1, <1>2
  <2> QED BY <1>1, <2>1, <2>11, <2>12, <2>13, <2>14, <2>15 DEF PrometheusInvariant, m
<1>4. CASE (Loop \/ Finish) /\ UNCHANGED trace
  <2>1. trace' = trace /\ Finish
    BY <1>2, <1>4 DEF Loop, EvictOne, CapacityExhausted, EnsureDone
  <2>2. UNCHANGED placement /\ pc = "finish" /\ pc' # "ensure"
    BY <2>1 DEF Finish
  <2>3. Monitored(p)'
    BY <1>1, <1>2, <2>1, <2>2 DEF Monitored, High, HighPressure, placement
  <2> QED BY <1>p, <1>1, <1>2, <2>1, <2>2, <2>3 DEF PrometheusInvariant, placement
<1> QED BY <1>1, <1>3, <1>4 DEF Simulate

\* When the trace has been taken, all samples account for the monitor block.
LEMMA PrometheusEnd ==
    ASSUME PrometheusInvariant, Quiescent
    PROVE  MonitorFollowsSamples
<1> DEFINE m == Len(input)
           high == {k \in DOMAIN input : HighPressure(input[k])}
<1>1. m \in Nat /\ DOMAIN input = 1 .. m
  BY DEF PrometheusInvariant
<1>2. trace = <<>> /\ pc = "idle" /\ Len(trace) = 0
  BY DEF Quiescent
<1>3. Monitored(m)
  <2>1. m - Len(trace) = m
    BY <1>1, <1>2
  <2> QED BY <2>1 DEF PrometheusInvariant
<1>4. high = High(m)
  BY <1>1 DEF High
<1>5. ASSUME high # {}
      PROVE  /\ intent[Monitor].priority =
                   IF HighPressure(Last(input)) THEN "DECODE_CRITICAL" ELSE "COLD"
             /\ intent[Monitor].size_bytes = input[Min(high)]
  <2>1. Last(input) = input[m]
    BY DEF Last
  <2>2. PICK k \in high : intent[Monitor].size_bytes = input[k] /\ \A j \in high : k <= j
    BY <1>2, <1>3, <1>4, <1>5 DEF Monitored
  <2>3. \A j \in high : j \in Int
    BY <1>1
  <2> HIDE DEF high
  <2>4. Min(high) \in high /\ \A j \in high : Min(high) <= j
    BY <2>2 DEF Min
  <2>5. Min(high) = k
    BY <2>2, <2>3, <2>4
  <2> QED BY <1>2, <1>3, <1>4, <1>5, <2>1, <2>2, <2>5 DEF Monitored
<1>6. live_blocks = IF high = {} THEN {} ELSE {Monitor}
  BY <1>3, <1>4 DEF Monitored
<1>7. hbm_blocks \cup dram_blocks = {}
  BY DEF PrometheusInvariant
<1> QED BY <1>5, <1>6, <1>7 DEF MonitorFollowsSamples

-----------------------------------------------------------------------------
(***************************************************************************)
(* The trace of the draft tree                                             *)
(***************************************************************************)
\* A block is allocated and used.
LEMMA CarriesPair ==
    ASSUME NEW d \in MemoryIntentEvent, NEW e \in MemoryIntentEvent, NEW L,
           d.event_type = "ALLOCATED", e.event_type = "ACCESSED",
           d.object_id = e.object_id, d.object_id \notin L
    PROVE  Carries(L, <<d, e>>, L \cup {d.object_id})
<1> DEFINE M == L \cup {d.object_id}
<1>1. <<d>> \in Seq(MemoryIntentEvent) /\ <<e>> \in Seq(MemoryIntentEvent)
  OBVIOUS
<1>2. After(Life, L, d) = M /\ After(Life, M, e) = M
  BY DEF After, Life
<1>3. Carries(L, <<d>>, M)
  BY <1>1, <1>2, LeftOfOne DEF Carries
<1>4. Carries(M, <<e>>, M)
  <2>1. e.object_id \in M
    OBVIOUS
  <2> HIDE DEF M
  <2> QED BY <1>1, <1>2, <2>1, LeftOfOne DEF Carries
<1>5. <<d>> \o <<e>> = <<d, e>>
  <2>1. <<d, e>> \in Seq(MemoryIntentEvent)
    OBVIOUS
  <2>2. /\ <<d>> \o <<e>> \in Seq(MemoryIntentEvent) /\ Len(<<d>> \o <<e>>) = 2
        /\ (<<d>> \o <<e>>)[1] = d /\ (<<d>> \o <<e>>)[2] = e
    BY <1>1, ConcatProperties
  <2> DEFINE s == <<d>> \o <<e>>
  <2> HIDE DEF s
  <2>3. Len(s) = Len(<<d, e>>) /\ \A k \in 1 .. Len(s) : s[k] = <<d, e>>[k]
    BY <2>2 DEF s
  <2> QED BY <2>1, <2>2, <2>3, SeqEqual DEF s
<1> HIDE DEF M
<1>6. Carries(L, <<d>> \o <<e>>, M)
  BY <1>3, <1>4, CarriesTwo
<1> QED BY <1>5, <1>6 DEF M

\* The blocks of drafts.
BlocksOfDrafts(S) == {kv_object_id(b) : b \in S}

\* A round of the frontier allocates and accesses each new draft.
LEMMA DraftEventsCarry ==
    ASSUME NEW ids, NEW m \in Nat, DOMAIN ids = 1 .. m, \A k \in 1 .. m : ids[k] \in Drafts,
           IsInjective(ids), NEW L, L \cap BlocksOfDrafts(Range(ids)) = {}
    PROVE  Carries(L, draft_events(ids), L \cup BlocksOfDrafts(Range(ids)))
<1> DEFINE A(b) == Ev("ALLOCATED", kv_object_id(b), draft_intent(b))
           U(b) == Ev("ACCESSED", kv_object_id(b), draft_intent(b))
           seqs == [k \in 1 .. m |-> <<A(ids[k]), U(ids[k])>>]
           g == [i \in 0 .. m |-> L \cup {kv_object_id(ids[j]) : j \in 1 .. i}]
<1>1. draft_events(ids) = FlattenSeq(seqs)
  BY DEF draft_events
<1>2. ASSUME NEW b \in Drafts
      PROVE  /\ A(b) \in MemoryIntentEvent /\ U(b) \in MemoryIntentEvent
             /\ A(b).event_type = "ALLOCATED" /\ U(b).event_type = "ACCESSED"
             /\ A(b).object_id = kv_object_id(b) /\ U(b).object_id = kv_object_id(b)
  <2>1. draft_intent(b) \in Intents
    BY DraftIntentsAssumption
  <2>2. kv_object_id(b) \in Blocks
    BY TreeAssumption DEF kv_object_id
  <2> QED BY <2>1, <2>2 DEF Ev, MemoryIntentEvent, EventType
<1>3. \A j, k \in 1 .. m : kv_object_id(ids[j]) = kv_object_id(ids[k]) => j = k
  BY DEF IsInjective, kv_object_id
<1>4. \A k \in 1 .. m : kv_object_id(ids[k]) \notin L
  BY DEF BlocksOfDrafts, Range
<1> HIDE DEF A, U
<1>5. ASSUME NEW i \in 1 .. m PROVE Carries(g[i - 1], seqs[i], g[i])
  <2>1. i - 1 \in 0 .. m /\ i \in 0 .. m /\ 1 .. i = (1 .. i - 1) \cup {i} /\ i \notin 1 .. i - 1
        /\ \A j \in 1 .. i - 1 : j \in 1 .. m
    OBVIOUS
  <2> DEFINE G == g[i - 1]
             b == ids[i]
  <2>2. G = L \cup {kv_object_id(ids[j]) : j \in 1 .. i - 1}
    BY <2>1
  <2>3. g[i] = G \cup {kv_object_id(b)}
    <3>1. g[i] = L \cup {kv_object_id(ids[j]) : j \in 1 .. i}
      BY <2>1
    <3> HIDE DEF G
    <3> QED BY <2>1, <2>2, <3>1
  <2>4. seqs[i] = <<A(b), U(b)>> /\ b \in Drafts
    OBVIOUS
  <2> HIDE DEF G, seqs, g
  <2>5. kv_object_id(b) \notin G
    BY <2>1, <2>2, <1>3, <1>4
  <2> HIDE DEF b
  <2>6. Carries(G, <<A(b), U(b)>>, G \cup {A(b).object_id})
    BY <1>2, <2>4, <2>5, CarriesPair
  <2>7. A(b).object_id = kv_object_id(b)
    BY <1>2, <2>4
  <2> QED BY <2>3, <2>4, <2>6, <2>7 DEF G
<1>6. g[0] = L /\ g[m] = L \cup BlocksOfDrafts(Range(ids))
  <2>1. 0 \in 0 .. m /\ m \in 0 .. m /\ 1 .. 0 = {}
    OBVIOUS
  <2>2. BlocksOfDrafts(Range(ids)) = {kv_object_id(ids[j]) : j \in 1 .. m}
    BY DEF BlocksOfDrafts, Range
  <2> QED BY <2>1, <2>2
<1>7. DOMAIN seqs = 1 .. m /\ seqs = [i \in 1 .. m |-> seqs[i]]
  OBVIOUS
<1> HIDE DEF seqs, g
<1>8. Carries(g[0], FlattenSeq(seqs), g[m])
  BY <1>5, <1>7, CarriesMany
<1> QED BY <1>1, <1>6, <1>8

\* The drafts of the table are live, or will be when the trace has been taken.
SpeculativeInvariant == Leads(BlocksOfDrafts(Table))

\* There is nothing in the table at first, and nothing to take.
LEMMA SpeculativeStart ==
    ASSUME SpeculativeInit
    PROVE  SpeculativeInvariant /\ trace \in Seq(MemoryIntentEvent)
<1>1. Init /\ trace = <<>> /\ current_blocks = [b \in Drafts |-> NoIntent]
  BY DEF SpeculativeInit, NoDrafts
<1>2. BlocksOfDrafts(Table) = {}
  BY <1>1 DEF BlocksOfDrafts, Table, InTable
<1>3. live_blocks = {}
  BY <1>1, NothingLive
<1> QED BY <1>1, <1>2, <1>3, LeftOfNone, EmptySeq DEF SpeculativeInvariant, Leads

\* An expanded node allocates and uses the blocks of its children.
LEMMA ExpandLeads ==
    ASSUME DraftInvariant, SpeculativeInvariant, Expand
    PROVE  /\ SpeculativeInvariant' /\ trace' \in Seq(MemoryIntentEvent)
           /\ ~ TakesUnknownBlock
<1> DEFINE count == IF Head(frontier)[2] >= tree_depth THEN 0 ELSE tree_width
           ids == ids_from(Size, count)
           new == Range(ids)
           D == BlocksOfDrafts(Table)
           M == D \cup BlocksOfDrafts(new)
<1>1. /\ Quiescent /\ new \subseteq Drafts /\ trace' = draft_events(ids)
      /\ current_blocks' = [b \in Drafts |-> IF b \in new THEN draft_intent(b)
                                                         ELSE current_blocks[b]]
      /\ live_blocks' = live_blocks
  BY DEF Expand, Size, vars
<1>2. Size \in Nat /\ DOMAIN nodes = 0 .. Size - 1 /\ Table \subseteq DOMAIN nodes
  BY DEF DraftInvariant, DraftTypes, IsTree
<1>3. count \in Nat
  BY TreeAssumption
<1> HIDE DEF count
<1>4. /\ Len(ids) = count /\ DOMAIN ids = 1 .. count /\ new = Size .. Size + count - 1
      /\ IsInjective(ids)
  <2>1. /\ ids \in Seq(Size .. Size + count - 1) /\ Len(ids) = count
        /\ new = Size .. Size + count - 1 /\ IsInjective(ids)
    BY <1>2, <1>3, NextIds
  <2> HIDE DEF ids
  <2> QED BY <2>1
<1> HIDE DEF ids
<1>5. \A k \in 1 .. count : ids[k] \in Drafts
  BY <1>1, <1>4 DEF Range
<1>6. D \cap BlocksOfDrafts(new) = {}
  <2>1. Table \cap new = {}
    BY <1>2, <1>3, <1>4
  <2> HIDE DEF new
  <2> QED BY <2>1 DEF BlocksOfDrafts, kv_object_id
<1>7. Carries(D, draft_events(ids), M)
  <2> HIDE DEF D
  <2> QED BY <1>3, <1>4, <1>5, <1>6, DraftEventsCarry
<1> HIDE DEF new
<1>8. Table' = Table \cup new
  <2>1. Table' = {b \in Drafts : current_blocks'[b] # NoIntent}
    BY DEF Table, InTable
  <2>2. Table = {b \in Drafts : current_blocks[b] # NoIntent}
    BY DEF Table, InTable
  <2>3. \A b \in Drafts : b \in Table' <=> b \in Table \cup new
    <3> TAKE b \in Drafts
    <3>1. CASE b \in new
      BY <1>1, <2>1, <3>1, DraftIntents
    <3>2. CASE b \notin new
      BY <1>1, <2>1, <2>2, <3>2
    <3> QED BY <3>1, <3>2
  <2> QED BY <1>1, <2>1, <2>2, <2>3
<1>9. BlocksOfDrafts(Table)' = M
  BY <1>8 DEF BlocksOfDrafts, kv_object_id
<1>10. Leads(D)
  BY DEF SpeculativeInvariant
<1> HIDE DEF D, M
<1>11. /\ Sound(Life, live_blocks', trace') /\ Left(Life, live_blocks', trace') = M
       /\ trace' \in Seq(MemoryIntentEvent) /\ ~ TakesUnknownBlock
  BY <1>1, <1>7, <1>10, CallLeads
<1> QED BY <1>9, <1>11 DEF SpeculativeInvariant, Leads

\* Accepting commits a draft of the table.
LEMMA AcceptLeads ==
    ASSUME DraftInvariant, SpeculativeInvariant, Quiescent, frontier = <<>>, pending # <<>>,
           InTable(Head(pending)), Accept(Head(pending)), live_blocks' = live_blocks
    PROVE  /\ SpeculativeInvariant' /\ trace' \in Seq(MemoryIntentEvent)
           /\ ~ TakesUnknownBlock
<1> DEFINE node == Head(pending)
           D == BlocksOfDrafts(Table)
           e == Ev("COMMITTED", kv_object_id(node), promoted(node))
<1>1. node \in DOMAIN nodes /\ node \in Drafts /\ node \in Table
  BY NextCall DEF DraftInvariant, DraftTypes, Table
<1>2. promote(node) /\ trace' = <<e>>
  BY DEF Accept
<1>3. Table' = Table
  BY <1>1, <1>2, AcceptedTable DEF DraftInvariant
<1>4. promoted(node) \in Intents
  <2>1. current_blocks[node] \in {draft_intent(node), verified(draft_intent(node))}
    BY <1>1 DEF DraftInvariant, DraftTypes, Table, InTable
  <2> QED BY <1>1, <2>1, DraftIntents DEF promoted
<1>5. e \in MemoryIntentEvent /\ e.event_type = "COMMITTED" /\ e.object_id = kv_object_id(node)
  <2>1. kv_object_id(node) \in Blocks
    BY <1>1, TreeAssumption DEF kv_object_id
  <2> QED BY <1>4, <2>1 DEF Ev, MemoryIntentEvent, EventType
<1>6. e.object_id \in D
  BY <1>1, <1>5 DEF BlocksOfDrafts
<1> HIDE DEF e
<1>7. Carries(D, <<e>>, D)
  <2> HIDE DEF D
  <2>1. After(Life, D, e) = D
    BY <1>5 DEF After, Life
  <2>2. <<e>> \in Seq(MemoryIntentEvent)
    BY <1>5
  <2> QED BY <1>5, <1>6, <2>1, <2>2, LeftOfOne DEF Carries
<1>8. BlocksOfDrafts(Table)' = D /\ Leads(D)
  BY <1>3 DEF BlocksOfDrafts, kv_object_id, SpeculativeInvariant
<1> HIDE DEF D
<1>9. /\ Sound(Life, live_blocks', trace') /\ Left(Life, live_blocks', trace') = D
      /\ trace' \in Seq(MemoryIntentEvent) /\ ~ TakesUnknownBlock
  BY <1>2, <1>7, <1>8, CallLeads
<1> QED BY <1>8, <1>9 DEF SpeculativeInvariant, Leads

\* Rejecting frees the subtree that leaves the table.
LEMMA RejectLeads ==
    ASSUME DraftInvariant, SpeculativeInvariant, Quiescent, frontier = <<>>, pending # <<>>,
           InTable(Head(pending)), Reject(Head(pending)), live_blocks' = live_blocks
    PROVE  /\ SpeculativeInvariant' /\ trace' \in Seq(MemoryIntentEvent)
           /\ ~ TakesUnknownBlock
<1> DEFINE node == Head(pending)
           doomed == subtree(node)
           D == BlocksOfDrafts(Table)
           M == D \ BlocksOfDrafts(Range(doomed))
           E(b) == Ev("FREED", kv_object_id(b), current_blocks[b])
           s == [k \in DOMAIN doomed |-> E(doomed[k])]
           count == Len(doomed)
<1>1. node \in DOMAIN nodes /\ DraftTypes /\ DOMAIN nodes \subseteq Drafts
  BY NextCall DEF DraftInvariant, DraftTypes
<1>2. doom(node) /\ trace' = s
  BY DEF Reject
<1>3. Table' = Table \ ({node} \cup Heirs(node))
  BY <1>1, <1>2, RejectedTable
<1>4. /\ doomed \in Seq(DOMAIN nodes) /\ IsInjective(doomed)
      /\ Range(doomed) = ({node} \cup Heirs(node)) \cap Table
  BY <1>1, SubtreeOf
<1> HIDE DEF doomed
<1>5. count \in Nat /\ DOMAIN doomed = 1 .. count
      /\ \A k \in 1 .. count : doomed[k] \in Table /\ doomed[k] \in Drafts
  <2>1. count \in Nat /\ DOMAIN doomed = 1 .. count
    BY <1>4
  <2> QED BY <1>4, <2>1 DEF Range, Table
<1> HIDE DEF count
<1>6. ASSUME NEW b \in Table
      PROVE  /\ E(b) \in MemoryIntentEvent /\ E(b).event_type = "FREED"
             /\ E(b).object_id = kv_object_id(b)
  <2>1. b \in Drafts /\ current_blocks[b] \in Intents
    BY <1>1 DEF DraftTypes, Table, InTable
  <2>2. kv_object_id(b) \in Blocks
    BY <2>1, TreeAssumption DEF kv_object_id
  <2> QED BY <2>1, <2>2 DEF Ev, MemoryIntentEvent, EventType
<1> HIDE DEF E
<1>7. DOMAIN s = 1 .. count /\ s \in Seq(MemoryIntentEvent)
      /\ \A k \in 1 .. count : s[k] = E(doomed[k])
  <2>1. s = [k \in 1 .. count |-> E(doomed[k])]
    BY <1>5
  <2>2. \A k \in 1 .. count : E(doomed[k]) \in MemoryIntentEvent
    BY <1>5, <1>6
  <2> HIDE DEF s
  <2> QED BY <1>5, <2>1, <2>2
<1> HIDE DEF s
<1>8. \A k \in DOMAIN s : s[k].event_type = "FREED" /\ s[k].object_id = kv_object_id(doomed[k])
  BY <1>5, <1>6, <1>7
<1>9. \A k \in DOMAIN s : s[k].event_type = "FREED" /\ s[k].object_id \in D
  BY <1>5, <1>7, <1>8 DEF BlocksOfDrafts
<1>10. ASSUME NEW j \in DOMAIN s, NEW k \in DOMAIN s, s[j].object_id = s[k].object_id PROVE j = k
  <2>1. doomed[j] = doomed[k]
    BY <1>8, <1>10 DEF kv_object_id
  <2> QED BY <1>4, <1>5, <1>7, <2>1 DEF IsInjective
<1>11. About(s) = BlocksOfDrafts(Range(doomed))
  <2>1. About(s) = {kv_object_id(doomed[k]) : k \in 1 .. count}
    BY <1>7, <1>8 DEF About
  <2> QED BY <1>5, <2>1 DEF BlocksOfDrafts, Range
<1>12. BlocksOfDrafts(Table)' = M
  <2>1. Table' = Table \ Range(doomed)
    BY <1>3, <1>4
  <2>2. BlocksOfDrafts(Table)' = {<<0, b>> : b \in Table'}
    BY DEF BlocksOfDrafts, kv_object_id
  <2> QED BY <2>1, <2>2 DEF BlocksOfDrafts, kv_object_id
<1>13. Carries(D, s, M)
  <2>1. Left(Life, D, s) = D \ About(s) /\ Sound(Life, D, s)
    <3> HIDE DEF D
    <3> QED BY <1>7, <1>9, <1>10, LeftOfFrees
  <2> QED BY <1>7, <1>11, <2>1 DEF Carries
<1>14. Leads(D)
  BY DEF SpeculativeInvariant
<1> HIDE DEF D, M
<1>15. /\ Sound(Life, live_blocks', trace') /\ Left(Life, live_blocks', trace') = M
       /\ trace' \in Seq(MemoryIntentEvent) /\ ~ TakesUnknownBlock
  BY <1>2, <1>13, <1>14, CallLeads
<1> QED BY <1>12, <1>15 DEF SpeculativeInvariant, Leads

\* Every step of the draft tree and of run() keeps the two tables alike.
LEMMA SpeculativeStep ==
    ASSUME trace \in Seq(MemoryIntentEvent), DraftInvariant, SpeculativeInvariant, SpeculativeNext
    PROVE  /\ SpeculativeInvariant' /\ trace' \in Seq(MemoryIntentEvent)
           /\ ~ TakesUnknownBlock
<1>1. CASE Expand
  BY <1>1, ExpandLeads
<1>2. CASE resolve
  <2>1. Quiescent /\ frontier = <<>> /\ pending # <<>> /\ live_blocks' = live_blocks
    BY <1>2 DEF resolve, vars
  <2>2. CASE InTable(Head(pending)) /\ Accept(Head(pending))
    BY <2>1, <2>2, AcceptLeads
  <2>3. CASE InTable(Head(pending)) /\ Reject(Head(pending))
    BY <2>1, <2>3, RejectLeads
  <2>4. CASE ~ InTable(Head(pending))
    <3>1. trace' = trace /\ current_blocks' = current_blocks /\ trace = <<>>
      BY <1>2, <2>1, <2>4 DEF resolve, Quiescent
    <3>2. BlocksOfDrafts(Table)' = BlocksOfDrafts(Table)
      BY <3>1 DEF BlocksOfDrafts, kv_object_id, Table, InTable
    <3> QED BY <2>1, <3>1, <3>2 DEF SpeculativeInvariant, Leads, TakesUnknownBlock
  <2> QED BY <1>2, <2>2, <2>3, <2>4 DEF resolve
<1>3. CASE Simulate /\ UNCHANGED draft
  <2> DEFINE D == BlocksOfDrafts(Table)
  <2>1. BlocksOfDrafts(Table)' = D /\ Leads(D)
    BY <1>3 DEF BlocksOfDrafts, kv_object_id, Table, InTable, draft, SpeculativeInvariant
  <2> HIDE DEF D
  <2>2. \A M : Leads(M) => Sound(Life, live_blocks', trace') /\ Left(Life, live_blocks', trace') = M
    BY <1>3, SimulateLeads DEF Leads
  <2>3. trace' \in Seq(MemoryIntentEvent) /\ ~ TakesUnknownBlock
    BY <1>3, <2>1, SimulateLeads
  <2> QED BY <2>1, <2>2, <2>3 DEF SpeculativeInvariant, Leads
<1> QED BY <1>1, <1>2, <1>3 DEF SpeculativeNext

\* When all events have been taken, the simulator follows the table.
LEMMA SpeculativeEnd ==
    ASSUME SpeculativeInvariant, Quiescent
    PROVE  SimulatorFollowsTable
BY LedTo DEF SpeculativeInvariant, SimulatorFollowsTable, BlocksOfDrafts, Table

-----------------------------------------------------------------------------
(***************************************************************************)
(* The synthetic workload                                                  *)
(***************************************************************************)
\* The blocks of the requests.
AllBlocks(reqs) == UNION {Span(r - 1, 0, reqs[r].block_count - 1) : r \in DOMAIN reqs}

\* The blocks of their hot tails.
HotTails(reqs) == UNION {Span(r - 1, ColdCount(reqs[r]), reqs[r].block_count - 1) : r \in DOMAIN reqs}

\* The events that allocate blocks.
NewEvents ==
    {e \in MemoryIntentEvent : e.event_type = "ALLOCATED" /\ e.intent.priority # "DECODE_CRITICAL"}

\* The events of decoding: decode-critical ones for the hot tails, and others for the
\* older blocks.
Uses(reqs) ==
    {e \in MemoryIntentEvent :
       /\ e.object_id \in AllBlocks(reqs)
       /\ \/ /\ e.event_type \in {"MARKED_DECODE_CRITICAL", "ACCESSED"}
             /\ e.object_id \in HotTails(reqs) /\ e.intent.priority = "DECODE_CRITICAL"
          \/ /\ e.event_type \in {"MARKED_COLD", "COMMITTED", "PREFETCHED"}
             /\ e.object_id \notin HotTails(reqs) /\ e.intent.priority # "DECODE_CRITICAL"}

\* A list of events of one kind.
LEMMA ListOf ==
    ASSUME NEW S, NEW T, NEW s \in Seq(S), \A k \in DOMAIN s : s[k] \in T
    PROVE  s \in Seq(T)
<1>1. Len(s) \in Nat /\ DOMAIN s = 1 .. Len(s) /\ s = [k \in 1 .. Len(s) |-> s[k]]
  OBVIOUS
<1> DEFINE m == Len(s)
<1> HIDE DEF m
<1>2. s = [k \in 1 .. m |-> s[k]] /\ m \in Nat /\ \A k \in 1 .. m : s[k] \in T
  BY <1>1 DEF m
<1> QED BY <1>2

\* The fields decide what a record is.
LEMMA FieldsDecide ==
    ASSUME NEW a, NEW b, NEW c, NEW d, NEW e, NEW f, NEW i
    PROVE  (i \in [phase : {a}, priority : {b}, pin_requested : {c}, allowed_tiers : {d},
                   current_tier : {e}, size_bytes : {f}])
              <=> i = [phase |-> a, priority |-> b, pin_requested |-> c, allowed_tiers |-> d,
                       current_tier |-> e, size_bytes |-> f]
  OBVIOUS

\* Changing the tier of an intent, its priority, or both.
LEMMA NewTier ==
    ASSUME NEW a, NEW b, NEW c, NEW d, NEW e, NEW f, NEW x, NEW old,
           old \in [phase : {a}, priority : {b}, pin_requested : {c}, allowed_tiers : {d},
                  current_tier : {e}, size_bytes : {f}]
    PROVE  [old EXCEPT !.current_tier = x]
              \in [phase : {a}, priority : {b}, pin_requested : {c}, allowed_tiers : {d},
                 current_tier : {x}, size_bytes : {f}]
  BY ZenonT(20)

\* The same for the priority.
LEMMA NewPriority ==
    ASSUME NEW a, NEW b, NEW c, NEW d, NEW e, NEW f, NEW x, NEW old,
           old \in [phase : {a}, priority : {b}, pin_requested : {c}, allowed_tiers : {d},
                  current_tier : {e}, size_bytes : {f}]
    PROVE  [old EXCEPT !.priority = x]
              \in [phase : {a}, priority : {x}, pin_requested : {c}, allowed_tiers : {d},
                 current_tier : {e}, size_bytes : {f}]
  BY ZenonT(20)

\* The sizes of a request's parts.
LEMMA RequestParts ==
    ASSUME NEW r \in SyntheticRequests
    PROVE  /\ r.block_count \in 1 .. MaxBlocks /\ r.is_high \in BOOLEAN
           /\ ColdCount(r) \in 0 .. r.block_count - 1
<1>1. r.block_count \in 1 .. MaxBlocks /\ r.hot_span \in {2, 3} /\ r.is_high \in BOOLEAN
  BY DEF SyntheticRequests
<1> DEFINE c == r.block_count - r.hot_span
<1>2. c \in Int /\ c <= r.block_count - 1 /\ 0 <= r.block_count - 1 /\ 0 \in Int
  BY <1>1
<1>3. Max({0, c}) = IF 0 >= c THEN 0 ELSE c
  BY <1>2, MaxMinOfTwo
<1>4. ColdCount(r) = Max({0, c})
  BY DEF ColdCount
<1> HIDE DEF c
<1>5. ColdCount(r) \in 0 .. r.block_count - 1
  BY <1>1, <1>2, <1>3, <1>4
<1> QED BY <1>1, <1>5

\* One step of decoding uses blocks of one request.
LEMMA DecodeStepUses ==
    ASSUME NEW reqs \in Seq(SyntheticRequests), Len(reqs) \in Nat \ {0},
           Requests = 0 .. Len(reqs) - 1, NEW step \in Nat, NEW is_draft
    PROVE  DecodeStepEvents(reqs, step, is_draft) \in Seq(Uses(reqs))
<1> DEFINE r == step % Len(reqs)
           q == reqs[r + 1]
           cold == make(IF step % 7 = 0 THEN "DONE" ELSE "VERIFY", "COLD", "HBM", block_size_bytes)
           again == [cold EXCEPT !.current_tier = "DRAM",
                                 !.priority = IF q.is_high THEN "HOT" ELSE "WARM"]
           U == Uses(reqs)
<1>1. r \in 0 .. Len(reqs) - 1 /\ r \in Requests /\ r + 1 \in DOMAIN reqs /\ r \in Nat
  <2> DEFINE c == Len(reqs)
  <2>1. r = Remainder(step, c) /\ DOMAIN reqs = 1 .. c
    BY DEF Remainder
  <2>2. c \in Nat \ {0} /\ Requests = 0 .. c - 1
    OBVIOUS
  <2> HIDE DEF c, r
  <2>3. r \in 0 .. c - 1
    BY <2>1, <2>2, RemainderFacts
  <2>4. r + 1 \in 1 .. c /\ r \in Nat
    BY <2>2, <2>3
  <2> QED BY <2>1, <2>2, <2>3, <2>4 DEF c
<1> HIDE DEF r
<1>2. q \in SyntheticRequests
  BY <1>1
<1>3. (r + 1) - 1 = r
  BY <1>1
<1> PICK first : first = ColdCount(q)
  OBVIOUS
<1> PICK count : count = q.block_count
  OBVIOUS
<1>4. count \in 1 .. MaxBlocks /\ first \in 0 .. count - 1 /\ q.is_high \in BOOLEAN
  BY <1>2, RequestParts
<1>5. Span(r, 0, count - 1) \subseteq AllBlocks(reqs) /\ Span(r, first, count - 1) \subseteq HotTails(reqs)
  <2>1. /\ Span(r + 1 - 1, 0, reqs[r + 1].block_count - 1) \subseteq AllBlocks(reqs)
        /\ Span(r + 1 - 1, ColdCount(reqs[r + 1]), reqs[r + 1].block_count - 1) \subseteq HotTails(reqs)
    BY <1>1 DEF AllBlocks, HotTails
  <2> PICK before : before = r + 1 - 1
    OBVIOUS
  <2> PICK q1 : q1 = reqs[r + 1]
    OBVIOUS
  <2>2. before = r /\ first = ColdCount(q1) /\ count = q1.block_count
    <3>1. before = r
      BY <1>1
    <3>2. q = q1
      OBVIOUS
    <3> HIDE DEF q
    <3> QED BY <3>1, <3>2
  <2>3. /\ Span(before, 0, q1.block_count - 1) \subseteq AllBlocks(reqs)
        /\ Span(before, ColdCount(q1), q1.block_count - 1) \subseteq HotTails(reqs)
    BY <2>1
  <2> QED BY <2>2, <2>3
<1>6. ASSUME NEW k \in 0 .. first - 1
      PROVE  <<r, k>> \in AllBlocks(reqs) /\ <<r, k>> \notin HotTails(reqs) /\ <<r, k>> \in Blocks
  <2>1. k \in 0 .. count - 1
    BY <1>4
  <2>2. <<r, k>> \in AllBlocks(reqs)
    BY <1>5, <2>1 DEF Span
  <2>3. ASSUME <<r, k>> \in HotTails(reqs) PROVE FALSE
    <3>1. PICK p \in DOMAIN reqs : <<r, k>> \in Span(p - 1, ColdCount(reqs[p]), reqs[p].block_count - 1)
      BY <2>3 DEF HotTails
    <3>2. PICK j \in ColdCount(reqs[p]) .. reqs[p].block_count - 1 : <<r, k>> = <<p - 1, j>>
      BY <3>1 DEF Span
    <3>3. r = p - 1 /\ k = j /\ p \in Int
      BY <3>2
    <3>4. p = r + 1
      BY <1>1, <3>3
    <3>5. k \in first .. count - 1
      BY <3>2, <3>3, <3>4
    <3> QED BY <1>4, <3>5
  <2>4. <<r, k>> \in Blocks
    <3>1. count - 1 \in Int /\ count - 1 < MaxBlocks /\ 0 \in Nat
      BY <1>4, BlockBoundAssumption
    <3> DEFINE last == count - 1
    <3> HIDE DEF last
    <3>2. \A i \in 0 .. last : <<r, i>> \in Blocks
      BY <1>1, <3>1, RequestSpan DEF last
    <3> QED BY <2>1, <3>2 DEF last
  <2> QED BY <2>2, <2>3, <2>4
<1>7. CriticalPairs(r, first, count - 1, block_size_bytes) \in Seq(U)
  <2> DEFINE last == count - 1
             size == block_size_bytes
  <2>1. last \in Int /\ last < MaxBlocks /\ first \in Nat /\ size \in WorkloadSizes
    BY <1>4, BlockBoundAssumption DEF WorkloadSizes
  <2> HIDE DEF last, size
  <2> PICK s : s = CriticalPairs(r, first, last, size)
    OBVIOUS
  <2>2. IsHotTail(s, r, first, last)
    BY <1>1, <2>1, CriticalPairsFacts
  <2>3. /\ s \in Seq(MemoryIntentEvent)
        /\ \A k \in DOMAIN s :
              /\ s[k].event_type \in {"MARKED_DECODE_CRITICAL", "ACCESSED"}
              /\ s[k].object_id \in Span(r, first, last)
              /\ s[k].intent.priority = "DECODE_CRITICAL" /\ s[k].intent.pin_requested
    BY <2>2 DEF IsHotTail
  <2>4. Span(r, first, last) \subseteq HotTails(reqs) /\ Span(r, first, last) \subseteq AllBlocks(reqs)
    <3>1. Span(r, first, last) \subseteq Span(r, 0, last)
      BY <2>1 DEF Span
    <3> QED BY <1>5, <3>1 DEF last
  <2>5. \A k \in DOMAIN s : s[k] \in U
    <3> TAKE k \in DOMAIN s
    <3>1. s[k] \in MemoryIntentEvent
      BY <2>3
    <3> QED BY <2>3, <2>4, <3>1 DEF Uses
  <2> HIDE DEF U
  <2>6. s \in Seq(U)
    BY <2>3, <2>5, ListOf
  <2> QED BY <2>6 DEF last, size
<1>8. ASSUME NEW k \in 0 .. first - 1
      PROVE  /\ Ev("MARKED_COLD", <<r, k>>, cold) \in U /\ Ev("COMMITTED", <<r, k>>, cold) \in U
             /\ Ev("PREFETCHED", <<r, k>>, again) \in U
  <2> DEFINE phase == IF step % 7 = 0 THEN "DONE" ELSE "VERIFY"
             priority == IF q.is_high THEN "HOT" ELSE "WARM"
             size == block_size_bytes
  <2>1. /\ phase \in Phase /\ priority \in Priority /\ size \in WorkloadSizes
        /\ priority # "DECODE_CRITICAL" /\ "COLD" \in Priority
        /\ {"MARKED_COLD", "COMMITTED", "PREFETCHED"} \subseteq EventType
    BY DEF Phase, Priority, EventType, WorkloadSizes
  <2>2. cold = make(phase, "COLD", "HBM", size)
    OBVIOUS
  <2>3. again = make(phase, priority, "DRAM", size)
    <3> HIDE DEF phase, size
    <3>1. again = [make(phase, "COLD", "HBM", size) EXCEPT !.current_tier = "DRAM", !.priority = priority]
      BY <2>2
    <3> HIDE DEF priority, cold, again
    <3> PICK old : old = make(phase, "COLD", "HBM", size)
      OBVIOUS
    <3>2. /\ make(phase, "COLD", "HBM", size)
                = [phase |-> phase, priority |-> "COLD", pin_requested |-> FALSE,
                   allowed_tiers |-> {"HBM", "DRAM"}, current_tier |-> "HBM", size_bytes |-> size]
          /\ make(phase, priority, "DRAM", size)
                = [phase |-> phase, priority |-> priority, pin_requested |-> FALSE,
                   allowed_tiers |-> {"HBM", "DRAM"}, current_tier |-> "DRAM", size_bytes |-> size]
      BY <2>1 DEF make
    <3>3. old = [phase |-> phase, priority |-> "COLD", pin_requested |-> FALSE,
                 allowed_tiers |-> {"HBM", "DRAM"}, current_tier |-> "HBM", size_bytes |-> size]
      BY <3>2
    <3>6. old \in [phase : {phase}, priority : {"COLD"}, pin_requested : {FALSE},
                   allowed_tiers : {{"HBM", "DRAM"}}, current_tier : {"HBM"}, size_bytes : {size}]
      BY <3>3, FieldsDecide
    <3> PICK mid : mid = [old EXCEPT !.current_tier = "DRAM"]
      OBVIOUS
    <3>4. again = [mid EXCEPT !.priority = priority]
      BY <3>1
    <3>5. again = [phase |-> phase, priority |-> priority, pin_requested |-> FALSE,
                   allowed_tiers |-> {"HBM", "DRAM"}, current_tier |-> "DRAM", size_bytes |-> size]
      <4>2. mid \in [phase : {phase}, priority : {"COLD"}, pin_requested : {FALSE},
                     allowed_tiers : {{"HBM", "DRAM"}}, current_tier : {"DRAM"}, size_bytes : {size}]
        BY <3>6, NewTier
      <4>3. again \in [phase : {phase}, priority : {priority}, pin_requested : {FALSE},
                       allowed_tiers : {{"HBM", "DRAM"}}, current_tier : {"DRAM"}, size_bytes : {size}]
        BY <3>4, <4>2, NewPriority
      <4> QED BY <4>3, FieldsDecide
    <3> QED BY <3>2, <3>5
  <2>4. make(phase, "COLD", "HBM", size).priority = "COLD" /\ make(phase, priority, "DRAM", size).priority = priority
    BY DEF make
  <2> HIDE DEF phase, priority, size, cold, again
  <2>5. <<r, k>> \in Blocks /\ <<r, k>> \in AllBlocks(reqs) /\ <<r, k>> \notin HotTails(reqs)
    BY <1>6
  <2>6. /\ Ev("MARKED_COLD", <<r, k>>, cold) \in MemoryIntentEvent
        /\ Ev("COMMITTED", <<r, k>>, cold) \in MemoryIntentEvent
        /\ Ev("PREFETCHED", <<r, k>>, again) \in MemoryIntentEvent
    BY <2>1, <2>2, <2>3, <2>5, WorkloadEvent
  <2>7. cold.priority # "DECODE_CRITICAL" /\ again.priority # "DECODE_CRITICAL"
    BY <2>1, <2>2, <2>3, <2>4
  <2> QED BY <2>5, <2>6, <2>7 DEF Uses, Ev

<1> PICK hot : hot = CriticalPairs(r, first, count - 1, block_size_bytes)
  OBVIOUS
<1> PICK stale : stale = <<r, StaleId(q, step)>>
  OBVIOUS
<1> DEFINE C == IF is_draft /\ step % PrefetchPeriod = 0 THEN <<Ev("COMMITTED", stale, cold)>> ELSE <<>>
           P == IF step % PrefetchPeriod = 0 THEN <<Ev("PREFETCHED", stale, again)>> ELSE <<>>
           M == <<Ev("MARKED_COLD", stale, cold)>>
<1>9. DecodeStepEvents(reqs, step, is_draft) = hot \o IF first = 0 THEN <<>> ELSE M \o C \o P
  BY DEF DecodeStepEvents, r
<1>10. <<>> \in Seq(U)
  BY EmptySeq
<1> HIDE DEF U
<1>11. ASSUME first = 0 PROVE DecodeStepEvents(reqs, step, is_draft) \in Seq(U)
  <2> HIDE DEF M, C, P, cold, again
  <2>1. DecodeStepEvents(reqs, step, is_draft) = hot \o <<>>
    BY <1>9, <1>11
  <2> QED BY <1>7, <1>10, <2>1, ConcatProperties
<1>12. ASSUME first # 0 PROVE DecodeStepEvents(reqs, step, is_draft) \in Seq(U)
  <2>1. StaleId(q, step) \in 0 .. first - 1
    <3>1. first \in Nat \ {0} /\ StaleId(q, step) = Remainder(step, first)
      BY <1>4, <1>12 DEF StaleId, Remainder
    <3> QED BY <3>1, RemainderFacts
  <2>2. /\ Ev("MARKED_COLD", stale, cold) \in U /\ Ev("COMMITTED", stale, cold) \in U
        /\ Ev("PREFETCHED", stale, again) \in U
    BY <1>8, <2>1
  <2> HIDE DEF cold, again
  <2>3. M \in Seq(U) /\ C \in Seq(U) /\ P \in Seq(U)
    BY <1>10, <2>2
  <2> HIDE DEF M, C, P
  <2>4. M \o C \o P \in Seq(U)
    BY <2>3, ConcatProperties
  <2> DEFINE rest == M \o C \o P
  <2> HIDE DEF rest
  <2>5. hot \o rest \in Seq(U)
    BY <1>7, <2>4, ConcatProperties DEF rest
  <2>6. DecodeStepEvents(reqs, step, is_draft) = hot \o rest
    BY <1>9, <1>12 DEF rest
  <2> QED BY <2>5, <2>6
<1> QED BY <1>11, <1>12 DEF U

\* The allocations of one request.
NewRequest(reqs, r) ==
    PerBlock(0, reqs[r].block_count - 1, LAMBDA k :
        Ev("ALLOCATED", <<r - 1, k>>,
           make("PREFILL", IF k >= ColdCount(reqs[r]) THEN "HOT" ELSE "WARM", "HBM", block_size_bytes)))

\* They are one per block, and none is decode-critical.
LEMMA NewRequestFacts ==
    ASSUME NEW reqs \in Seq(SyntheticRequests), NEW r \in DOMAIN reqs, r - 1 \in Requests
    PROVE  /\ OnePerBlock(NewRequest(reqs, r), "ALLOCATED", r - 1, 0, reqs[r].block_count - 1)
           /\ \A k \in DOMAIN NewRequest(reqs, r) :
                 NewRequest(reqs, r)[k].intent.priority # "DECODE_CRITICAL"
<1>1. reqs[r] \in SyntheticRequests
  OBVIOUS
<1> PICK count : count = reqs[r].block_count
  OBVIOUS
<1> PICK first : first = ColdCount(reqs[r])
  OBVIOUS
<1> PICK p : p = r - 1
  OBVIOUS
<1>2. count \in 1 .. MaxBlocks /\ p \in Requests /\ MaxBlocks \in Nat /\ count \in Nat
  BY <1>1, RequestParts, BlockBoundAssumption
<1> DEFINE priority(k) == IF k >= first THEN "HOT" ELSE "WARM"
           i(k) == make("PREFILL", priority(k), "HBM", block_size_bytes)
           s == [k \in 1 .. count |-> Ev("ALLOCATED", <<p, k - 1>>, i(k - 1))]
<1>3. NewRequest(reqs, r) = s
  <2>1. NewRequest(reqs, r) = [k \in 1 .. count - 1 - 0 + 1 |-> Ev("ALLOCATED", <<p, 0 + k - 1>>, i(0 + k - 1))]
    BY DEF NewRequest, PerBlock
  <2>2. 1 .. count - 1 - 0 + 1 = 1 .. count /\ \A k \in 1 .. count : 0 + k - 1 = k - 1
    BY <1>2
  <2> HIDE DEF i
  <2> QED BY <2>1, <2>2
<1>4. /\ "PREFILL" \in Phase /\ "ALLOCATED" \in EventType /\ block_size_bytes \in WorkloadSizes
      /\ \A k : priority(k) \in Priority /\ priority(k) # "DECODE_CRITICAL"
  BY DEF Phase, Priority, EventType, WorkloadSizes
<1>5. \A k \in 1 .. count : <<p, k - 1>> \in Blocks
  <2>1. /\ 0 \in Nat /\ count - 1 \in Int /\ count - 1 < MaxBlocks
        /\ \A k \in 1 .. count : k - 1 \in 0 .. count - 1
    BY <1>2
  <2> QED BY <1>2, <2>1, RequestSpan
<1>6. ASSUME NEW k \in 1 .. count
      PROVE  Ev("ALLOCATED", <<p, k - 1>>, i(k - 1)) \in MemoryIntentEvent
  <2> DEFINE q == priority(k - 1)
             b == <<p, k - 1>>
  <2>1. q \in Priority /\ b \in Blocks
    BY <1>4, <1>5
  <2> HIDE DEF q, b
  <2>2. Ev("ALLOCATED", b, make("PREFILL", q, "HBM", block_size_bytes)) \in MemoryIntentEvent
    BY <1>4, <2>1, WorkloadEvent
  <2> QED BY <2>2 DEF q, b
<1>7. \A k \in 1 .. count : i(k - 1).priority # "DECODE_CRITICAL"
  <2>1. \A k : i(k).priority = priority(k)
    BY DEF make
  <2> HIDE DEF i, priority
  <2> QED BY <1>4, <2>1
<1> HIDE DEF i
<1>8. s \in Seq(MemoryIntentEvent) /\ DOMAIN s = 1 .. count
  <2> DEFINE event(k) == Ev("ALLOCATED", <<p, k - 1>>, i(k - 1))
  <2>1. \A k \in 1 .. count : event(k) \in MemoryIntentEvent
    BY <1>6
  <2>2. s = [k \in 1 .. count |-> event(k)]
    OBVIOUS
  <2> HIDE DEF s, event
  <2> QED BY <1>2, <2>1, <2>2
<1>9. \A k \in 1 .. count : /\ s[k].event_type = "ALLOCATED" /\ s[k].object_id = <<p, k - 1>>
                           /\ s[k].intent = i(k - 1)
  BY DEF Ev
<1> HIDE DEF s
<1>10. (count - 1) - 0 + 1 = count /\ \A k \in 1 .. count : 0 + k - 1 = k - 1
  BY <1>2
<1>11. \A k \in 1 .. count : s[k].object_id = <<p, 0 + k - 1>> /\ s[k].intent.priority # "DECODE_CRITICAL"
  BY <1>7, <1>9, <1>10
<1>12. OnePerBlock(s, "ALLOCATED", p, 0, count - 1)
  BY <1>8, <1>9, <1>10, <1>11 DEF OnePerBlock
<1> QED BY <1>3, <1>8, <1>11, <1>12

\* Together they allocate the blocks of all requests.
LEMMA SyntheticAllocated ==
    ASSUME NEW reqs \in Seq(SyntheticRequests), Len(reqs) \in Nat \ {0},
           Requests = 0 .. Len(reqs) - 1
    PROVE  /\ Carries({}, SyntheticAllocations(reqs), AllBlocks(reqs))
           /\ SyntheticAllocations(reqs) \in Seq(NewEvents)
<1> DEFINE m == Len(reqs)
           seqs == [r \in 1 .. m |-> NewRequest(reqs, r)]
           of(r) == Span(r - 1, 0, reqs[r].block_count - 1)
           g == [i \in 0 .. m |-> UNION {of(r) : r \in 1 .. i}]
<1>1. m \in Nat \ {0} /\ DOMAIN reqs = 1 .. m /\ Requests = 0 .. m - 1
  OBVIOUS
<1>2. SyntheticAllocations(reqs) = FlattenSeq(seqs)
  BY <1>1 DEF SyntheticAllocations, NewRequest
<1> HIDE DEF m
<1>3. \A r \in 1 .. m : r \in DOMAIN reqs /\ r - 1 \in Requests
  BY <1>1
<1>4. ASSUME NEW i \in 1 .. m
      PROVE  g[i] = g[i - 1] \cup of(i) /\ g[i - 1] \cap of(i) = {}
  <2>1. /\ i - 1 \in 0 .. m /\ i \in 0 .. m /\ 1 .. i = (1 .. i - 1) \cup {i}
        /\ \A j \in 1 .. i - 1 : j - 1 # i - 1
    BY <1>1
  <2>2. \A j \in 1 .. i - 1 : of(j) \cap of(i) = {}
    BY <2>1 DEF Span
  <2>3. g[i - 1] = UNION {of(r) : r \in 1 .. i - 1} /\ g[i] = UNION {of(r) : r \in 1 .. i}
    BY <2>1
  <2> HIDE DEF of, g
  <2> QED BY <2>1, <2>2, <2>3
<1>5. g[0] = {} /\ g[m] = AllBlocks(reqs)
  <2>1. 0 \in 0 .. m /\ m \in 0 .. m /\ 1 .. 0 = {}
    BY <1>1
  <2> QED BY <1>1, <2>1 DEF AllBlocks
<1>6. ASSUME NEW i \in 1 .. m
      PROVE  Carries(g[i - 1], seqs[i], g[i]) /\ seqs[i] \in Seq(NewEvents)
  <2> PICK G : G = g[i - 1]
    OBVIOUS
  <2> PICK p : p = i - 1
    OBVIOUS
  <2> PICK last : last = reqs[i].block_count - 1
    OBVIOUS
  <2> PICK s : s = NewRequest(reqs, i)
    OBVIOUS
  <2>1. s = seqs[i] /\ i \in DOMAIN reqs /\ p \in Requests /\ of(i) = Span(p, 0, last)
    BY <1>3
  <2>2. last \in Int /\ 0 \in Nat
    <3>1. reqs[i] \in SyntheticRequests
      BY <2>1
    <3>2. reqs[i].block_count \in 1 .. MaxBlocks
      BY <3>1, RequestParts
    <3> QED BY <3>2
  <2>3. g[i] = G \cup of(i) /\ G \cap of(i) = {}
    BY <1>4
  <2>4. OnePerBlock(s, "ALLOCATED", p, 0, last)
        /\ \A k \in DOMAIN s : s[k].intent.priority # "DECODE_CRITICAL"
    BY <1>3, NewRequestFacts
  <2> HIDE DEF g, seqs, of
  <2> DEFINE type == "ALLOCATED"
  <2>5. OnePerBlock(s, type, p, 0, last) /\ G \cap Span(p, 0, last) = {} /\ type = "ALLOCATED"
    BY <2>1, <2>3, <2>4
  <2> HIDE DEF type
  <2>6. Carries(G, s, G \cup Span(p, 0, last))
    BY <2>2, <2>5, CarriesSpan
  <2>7. \A k \in DOMAIN s : s[k] \in NewEvents
    <3> TAKE k \in DOMAIN s
    <3>1. s[k] \in MemoryIntentEvent
      BY <2>6 DEF Carries
    <3> QED BY <2>4, <3>1 DEF NewEvents, OnePerBlock
  <2>8. s \in Seq(NewEvents)
    BY <2>6, <2>7, ListOf DEF Carries
  <2> QED BY <2>1, <2>3, <2>6, <2>8
<1>7. DOMAIN seqs = 1 .. m /\ seqs = [i \in 1 .. m |-> seqs[i]]
  OBVIOUS
<1> HIDE DEF seqs, g
<1>8. Carries(g[0], FlattenSeq(seqs), g[m])
  BY <1>1, <1>6, <1>7, CarriesMany
<1>9. seqs \in Seq(Seq(NewEvents))
  BY <1>1, <1>6, <1>7
<1>10. FlattenSeq(seqs) \in Seq(NewEvents)
  BY <1>9, FlattenRange
<1> QED BY <1>2, <1>5, <1>8, <1>10

\* The decode steps use the blocks of the requests, and leave them all live.
LEMMA SyntheticTrace ==
    ASSUME NEW reqs \in Seq(SyntheticRequests), Len(reqs) \in Nat \ {0},
           Requests = 0 .. Len(reqs) - 1, NEW speculative \in BOOLEAN, NEW es,
           es = generate_synthetic_kv_workload(reqs, speculative)
    PROVE  /\ Carries({}, es, AllBlocks(reqs))
           /\ \A k \in DOMAIN es : es[k] \in NewEvents \cup Uses(reqs)
<1> DEFINE decode == [s \in 1 .. decode_steps |->
                        DecodeStepEvents(reqs, s - 1, speculative /\ (s - 1) % 2 = 0)]
           A == AllBlocks(reqs)
           U == Uses(reqs)
           news == SyntheticAllocations(reqs)
           steps == FlattenSeq(decode)
<1>1. es = news \o steps
  BY DEF generate_synthetic_kv_workload
<1>2. Carries({}, news, A) /\ news \in Seq(NewEvents)
  BY SyntheticAllocated
<1>3. decode_steps \in Nat
  BY SyntheticAssumption
<1>4. \A s \in 1 .. decode_steps : decode[s] \in Seq(U)
  <2> TAKE s \in 1 .. decode_steps
  <2> PICK step : step = s - 1
    OBVIOUS
  <2> PICK is_draft : is_draft = (speculative /\ step % 2 = 0)
    OBVIOUS
  <2>1. step \in Nat
    BY <1>3
  <2>2. decode[s] = DecodeStepEvents(reqs, step, is_draft)
    OBVIOUS
  <2> HIDE DEF decode
  <2>3. DecodeStepEvents(reqs, step, is_draft) \in Seq(Uses(reqs))
    BY <2>1, DecodeStepUses
  <2> QED BY <2>2, <2>3
<1>5. DOMAIN decode = 1 .. decode_steps /\ decode = [s \in 1 .. decode_steps |-> decode[s]]
  OBVIOUS
<1> HIDE DEF decode, A, U, news
<1>6. decode \in Seq(Seq(U))
  BY <1>3, <1>4, <1>5
<1>7. steps \in Seq(U)
  BY <1>6, FlattenRange
<1> HIDE DEF steps
<1>8. steps \in Seq(MemoryIntentEvent)
      /\ \A k \in DOMAIN steps : steps[k].event_type \notin {"ALLOCATED", "FREED"} /\ steps[k].object_id \in A
  <2>1. \A k \in DOMAIN steps : steps[k] \in U
    BY <1>7, ElementOfSeq
  <2>2. \A k \in DOMAIN steps : steps[k] \in MemoryIntentEvent
    BY <2>1 DEF U, Uses
  <2>3. steps \in Seq(MemoryIntentEvent)
    BY <1>7, <2>2, ListOf
  <2>4. \A k \in DOMAIN steps : steps[k].event_type \notin {"ALLOCATED", "FREED"} /\ steps[k].object_id \in A
    BY <2>1 DEF U, Uses, A
  <2> QED BY <2>3, <2>4
<1>9. Carries(A, steps, A)
  <2>1. Left(Life, A, steps) = A /\ Sound(Life, A, steps)
    BY <1>8, LeftOfUses
  <2> QED BY <1>8, <2>1 DEF Carries
<1>10. Carries({}, news \o steps, A)
  BY <1>2, <1>9, CarriesTwo
<1>11. \A k \in DOMAIN es : es[k] \in NewEvents \cup U
  <2> DEFINE S == NewEvents \cup U
  <2>1. \A k \in DOMAIN news : news[k] \in S
    BY <1>2, ElementOfSeq
  <2>2. \A k \in DOMAIN steps : steps[k] \in S
    BY <1>7, ElementOfSeq
  <2> HIDE DEF S
  <2>3. news \in Seq(S) /\ steps \in Seq(S)
    BY <1>2, <1>7, <2>1, <2>2, ListOf
  <2>4. es \in Seq(S)
    BY <1>1, <2>3, ConcatProperties
  <2>5. \A k \in DOMAIN es : es[k] \in S
    BY <2>4, ElementOfSeq
  <2> QED BY <2>5 DEF S
<1> QED BY <1>1, <1>10, <1>11 DEF A, U

-----------------------------------------------------------------------------
(***************************************************************************)
(* The hot tails of the synthetic workload                                 *)
(***************************************************************************)
\* Critical events are about a tail T, and events that take the priority away are not.
RespectsTail(T, e) ==
    \/ e.event_type = "ALLOCATED" /\ e.intent.priority # "DECODE_CRITICAL"
    \/ /\ e.event_type \in {"MARKED_DECODE_CRITICAL", "ACCESSED"}
       /\ e.object_id \in T /\ e.intent.priority = "DECODE_CRITICAL"
    \/ /\ e.event_type \in {"MARKED_COLD", "COMMITTED", "PREFETCHED"}
       /\ e.object_id \notin T /\ e.intent.priority # "DECODE_CRITICAL"

\* Only blocks of T are decode-critical.
CriticalInTail(T) == \A b \in live_blocks : intent[b].priority = "DECODE_CRITICAL" => b \in T

\* No live block stops being decode-critical.
TailIsKept ==
    \A b \in live_blocks \cap live_blocks' :
       intent[b].priority = "DECODE_CRITICAL" => intent'[b].priority = "DECODE_CRITICAL"

\* A handler that raises has changed nothing.
LEMMA RaisedKeeps ==
    ASSUME NEW e, Handle(e), pc' = "raised"
    PROVE  intent' = intent /\ live_blocks' = live_blocks
<1> DEFINE b == e.object_id
           i == e.intent
<1>1. \/ Allocated(b, i) \/ Accessed(b, i) \/ MarkedDecodeCritical(b, i) \/ MarkedCold(b, i)
      \/ Committed(b) \/ Spilled(b) \/ (\E urgent \in BOOLEAN : Prefetched(b, i, urgent)) \/ Freed(b)
  BY DEF Handle
<1> HIDE DEF b, i
<1> QED BY <1>1 DEF Allocated, Accessed, MarkedDecodeCritical, MarkedCold, Committed, Spilled,
                    Prefetched, Freed, Raise, Ignore, move_to_hbm, placement

\* While every event respects the tail, a block that is decode-critical stays so.
LEMMA SimulateTail ==
    ASSUME TypeOK, trace \in Seq(MemoryIntentEvent), NEW M, Leads(M), NEW T,
           \A k \in DOMAIN trace : RespectsTail(T, trace[k]), CriticalInTail(T), Simulate
    PROVE  /\ \A k \in DOMAIN trace' : RespectsTail(T, trace'[k])
           /\ CriticalInTail(T)' /\ TailIsKept
<1>1. CASE Replay
  <2> DEFINE e == Head(trace)
  <2>1. /\ trace # <<>> /\ Handle(e) /\ e \in MemoryIntentEvent
        /\ e = trace[1] /\ 1 \in DOMAIN trace
        /\ \A k \in DOMAIN trace' : k + 1 \in DOMAIN trace /\ trace'[k] = trace[k + 1]
    BY <1>1, ReplayTakes
  <2>2. \A k \in DOMAIN trace' : RespectsTail(T, trace'[k])
    BY <2>1
  <2>3. RespectsTail(T, e)
    BY <2>1
  <2>4. e.event_type = "ALLOCATED" <=> e.object_id \notin live_blocks
    <3>1. Sound(Life, live_blocks, trace)
      BY DEF Leads
    <3>2. e.event_type = "ALLOCATED" => e.object_id \notin live_blocks
      BY <2>1, <3>1, LeftOfHead
    <3>3. ~ TakesUnknownBlock /\ trace' = Tail(trace)
      <4>1. Simulate
        OBVIOUS
      <4> QED BY <1>1, <4>1, SimulateLeads, ReplayTakes
    <3> QED BY <2>1, <3>2, <3>3 DEF TakesUnknownBlock
  <2>5. live_blocks' = After(Life, live_blocks, e)
    BY <2>1, HandleLive
  <2> HIDE DEF e
  <2>6. ASSUME NEW c \in live_blocks, c # e.object_id
        PROVE  intent'[c] = intent[c]
    <3>1. c \in Blocks
      BY DEF TypeOK
    <3> QED BY <2>1, <2>6, <3>1, OthersUnchanged
  <2>7. ASSUME NEW c, c = e.object_id, c \in live_blocks'
        PROVE  /\ c \in live_blocks /\ intent[c].priority = "DECODE_CRITICAL" =>
                     intent'[c].priority = "DECODE_CRITICAL"
               /\ intent'[c].priority = "DECODE_CRITICAL" => c \in T
    <3>1. CASE pc' = "raised"
      <4>1. intent' = intent /\ c \in live_blocks
        BY <2>1, <2>7, <3>1, RaisedKeeps
      <4> QED BY <4>1 DEF CriticalInTail
    <3>2. CASE pc' # "raised"
      <4>1. Marked(e)
        BY <2>1, <3>2, HandlerMarks
      <4>2. CASE e.event_type = "ALLOCATED" /\ e.intent.priority # "DECODE_CRITICAL"
        <5>1. c \notin live_blocks
          BY <2>4, <2>7, <4>2
        <5>2. intent'[c] = e.intent
          BY <2>7, <4>1, <4>2 DEF Marked
        <5> QED BY <4>2, <5>1, <5>2
      <4>3. CASE /\ e.event_type \in {"MARKED_DECODE_CRITICAL", "ACCESSED"}
                 /\ e.object_id \in T /\ e.intent.priority = "DECODE_CRITICAL"
        <5>1. intent'[c].priority = "DECODE_CRITICAL"
          BY <2>7, <4>1, <4>3 DEF Marked
        <5> QED BY <2>7, <4>3, <5>1
      <4>4. CASE /\ e.event_type \in {"MARKED_COLD", "COMMITTED", "PREFETCHED"}
                 /\ e.object_id \notin T /\ e.intent.priority # "DECODE_CRITICAL"
        <5>1. c \in live_blocks /\ intent[c].priority # "DECODE_CRITICAL"
          BY <2>4, <2>7, <4>4 DEF CriticalInTail
        <5>2. intent'[c].priority \in {"COLD", intent[c].priority, e.intent.priority}
          BY <2>7, <4>1, <4>4, <5>1 DEF Marked
        <5> QED BY <4>4, <5>1, <5>2
      <4> QED BY <2>3, <4>2, <4>3, <4>4 DEF RespectsTail
    <3> QED BY <3>1, <3>2
  <2>8. \A c \in live_blocks' : c = e.object_id \/ c \in live_blocks
    BY <2>5 DEF After
  <2>9. CriticalInTail(T)'
    <3> SUFFICES ASSUME NEW c \in live_blocks', intent'[c].priority = "DECODE_CRITICAL" PROVE c \in T
      BY DEF CriticalInTail
    <3> QED BY <2>6, <2>7, <2>8 DEF CriticalInTail
  <2>10. TailIsKept
    BY <2>6, <2>7 DEF TailIsKept
  <2> QED BY <2>2, <2>9, <2>10
<1>2. CASE (Loop \/ Finish) /\ UNCHANGED trace
  <2>1. live_blocks' = live_blocks /\ trace' = trace
    BY <1>2, LoopLive
  <2>2. \A b \in live_blocks : intent'[b].priority = intent[b].priority
    BY <1>2, LoopMarks
  <2>3. CriticalInTail(T)' /\ TailIsKept
    BY <2>1, <2>2 DEF CriticalInTail, TailIsKept
  <2> QED BY <2>1, <2>3
<1> QED BY <1>1, <1>2 DEF Simulate

\* The trace leaves all blocks of the requests live, and respects their tails.
SyntheticInvariant ==
    /\ input \in Seq(SyntheticRequests)
    /\ Leads(AllBlocks(input))
    /\ \A k \in DOMAIN trace : RespectsTail(HotTails(input), trace[k])
    /\ CriticalInTail(HotTails(input))

\* The events of the workload respect the tails.
LEMMA UsesRespect ==
    ASSUME NEW reqs, NEW e \in NewEvents \cup Uses(reqs)
    PROVE  RespectsTail(HotTails(reqs), e)
BY DEF NewEvents, Uses, RespectsTail

\* The workload is written when nothing is live.
LEMMA SyntheticStart ==
    ASSUME SyntheticInit
    PROVE  SyntheticInvariant /\ trace \in Seq(MemoryIntentEvent)
<1> DEFINE m == Cardinality(Requests)
<1>1. PICK speculative \in BOOLEAN :
        /\ input \in TupleOf(SyntheticRequests, m)
        /\ trace = generate_synthetic_kv_workload(input, speculative)
  BY DEF SyntheticInit
<1>2. m \in Nat \ {0} /\ Requests = 0 .. m - 1
  BY RequestNumbers
<1>3. Init /\ live_blocks = {}
  BY NothingLive DEF SyntheticInit
<1>4. input \in [1 .. m -> SyntheticRequests]
  BY <1>1 DEF TupleOf
<1> HIDE DEF m
<1>5. input \in Seq(SyntheticRequests) /\ Len(input) = m
  BY <1>2, <1>4
<1> PICK reqs : reqs = input
  OBVIOUS
<1>6. /\ reqs \in Seq(SyntheticRequests) /\ Len(reqs) \in Nat \ {0}
      /\ Requests = 0 .. Len(reqs) - 1
      /\ trace = generate_synthetic_kv_workload(reqs, speculative)
  BY <1>1, <1>2, <1>5
<1>7. /\ Carries({}, trace, AllBlocks(reqs))
      /\ \A k \in DOMAIN trace : trace[k] \in NewEvents \cup Uses(reqs)
  BY <1>6, SyntheticTrace
<1>8. \A k \in DOMAIN trace : RespectsTail(HotTails(reqs), trace[k])
  BY <1>7, UsesRespect
<1> QED BY <1>3, <1>5, <1>7, <1>8 DEF SyntheticInvariant, Carries, Leads, CriticalInTail

\* The simulator leads to the same blocks and keeps the tails critical.
LEMMA SyntheticStep ==
    ASSUME TypeOK, trace \in Seq(MemoryIntentEvent), SyntheticInvariant, WorkloadNext
    PROVE  /\ SyntheticInvariant' /\ trace' \in Seq(MemoryIntentEvent)
           /\ ~ TakesUnknownBlock /\ TailIsKept
<1>1. Simulate /\ input' = input
  BY DEF WorkloadNext
<1> PICK reqs : reqs = input
  OBVIOUS
<1> PICK M : M = AllBlocks(reqs)
  OBVIOUS
<1> PICK T : T = HotTails(reqs)
  OBVIOUS
<1>2. /\ input \in Seq(SyntheticRequests) /\ Leads(M)
      /\ \A k \in DOMAIN trace : RespectsTail(T, trace[k])
      /\ CriticalInTail(T)
  BY DEF SyntheticInvariant
<1>3. /\ Sound(Life, live_blocks', trace') /\ Left(Life, live_blocks', trace') = M
      /\ trace' \in Seq(MemoryIntentEvent) /\ ~ TakesUnknownBlock
  BY <1>1, <1>2, SimulateLeads DEF Leads
<1>4. /\ \A k \in DOMAIN trace' : RespectsTail(T, trace'[k])
      /\ \A b \in live_blocks' : intent'[b].priority = "DECODE_CRITICAL" => b \in T
      /\ TailIsKept
  BY <1>1, <1>2, SimulateTail DEF CriticalInTail
<1>5. AllBlocks(input)' = M /\ HotTails(input)' = T
  BY <1>1 DEF AllBlocks, HotTails
<1>6. Leads(AllBlocks(input))'
  BY <1>3, <1>5 DEF Leads
<1>7. (\A k \in DOMAIN trace : RespectsTail(HotTails(input), trace[k]))' /\ CriticalInTail(HotTails(input))'
  BY <1>4, <1>5 DEF CriticalInTail, RespectsTail
<1>8. input' \in Seq(SyntheticRequests)
  BY <1>1, <1>2
<1> QED BY <1>3, <1>4, <1>6, <1>7, <1>8 DEF SyntheticInvariant

\* Nothing is freed.
LEMMA SyntheticEnd ==
    ASSUME SyntheticInvariant, Quiescent
    PROVE  SyntheticKeepsAll
<1>1. live_blocks = AllBlocks(input)
  BY LedTo DEF SyntheticInvariant
<1>2. \A r, count : Span(r, 0, count - 1) = {r} \X (0 .. count - 1)
  BY DEF Span
<1> QED BY <1>1, <1>2 DEF SyntheticKeepsAll, AllBlocks

-----------------------------------------------------------------------------
(***************************************************************************)
(* All producers                                                           *)
(***************************************************************************)
ProducersInvariant ==
    /\ trace \in Seq(MemoryIntentEvent)
    /\ DraftInvariant
    /\ producer \in Workloads \cup {"speculative", "mock"}
    /\ producer = "importer" => ImporterInvariant
    /\ producer = "proxy" => ProxyInvariant
    /\ producer = "prometheus" => PrometheusInvariant
    /\ producer = "synthetic" => SyntheticInvariant
    /\ producer = "speculative" => SpeculativeInvariant
    /\ producer = "mock" => MockInvariant

\* Whichever producer the initial state chooses, it starts with its own invariant.
LEMMA ProducersStart ==
    ASSUME ProducersInit
    PROVE  ProducersInvariant /\ Init
<1>1. CASE /\ DraftsIdle /\ MockIdle
           /\ \/ producer = "importer" /\ ImporterInit
              \/ producer = "proxy" /\ ProxyInit
              \/ producer = "prometheus" /\ PrometheusInit
              \/ producer = "synthetic" /\ SyntheticInit
  <2>1. DraftInvariant
    BY <1>1, DraftStart DEF DraftsIdle
  <2>2. CASE producer = "importer" /\ ImporterInit
    <3>1. ImporterInvariant /\ trace \in Seq(MemoryIntentEvent) /\ Init
      BY <2>2, ImporterStart DEF ImporterInit
    <3> QED BY <2>1, <2>2, <3>1 DEF ProducersInvariant, Workloads
  <2>3. CASE producer = "proxy" /\ ProxyInit
    <3>1. ProxyInvariant /\ trace \in Seq(MemoryIntentEvent) /\ Init
      BY <2>3, ProxyStart DEF ProxyInit
    <3> QED BY <2>1, <2>3, <3>1 DEF ProducersInvariant, Workloads
  <2>4. CASE producer = "prometheus" /\ PrometheusInit
    <3>1. PrometheusInvariant /\ trace \in Seq(MemoryIntentEvent) /\ Init
      BY <2>4, PrometheusStart DEF PrometheusInit
    <3> QED BY <2>1, <2>4, <3>1 DEF ProducersInvariant, Workloads
  <2>5. CASE producer = "synthetic" /\ SyntheticInit
    <3>1. SyntheticInvariant /\ trace \in Seq(MemoryIntentEvent) /\ Init
      BY <2>5, SyntheticStart DEF SyntheticInit
    <3> QED BY <2>1, <2>5, <3>1 DEF ProducersInvariant, Workloads
  <2> QED BY <1>1, <2>2, <2>3, <2>4, <2>5
<1>2. CASE producer = "speculative" /\ SpeculativeInit
  <2>1. SpeculativeInvariant /\ trace \in Seq(MemoryIntentEvent) /\ Init
    BY <1>2, SpeculativeStart DEF SpeculativeInit
  <2>2. DraftInvariant
    BY <1>2, DraftStart DEF SpeculativeInit
  <2> QED BY <1>2, <2>1, <2>2 DEF ProducersInvariant
<1>3. CASE producer = "mock" /\ MockInit /\ DraftsIdle
  <2>1. MockInvariant /\ Init
    BY <1>3, MockStart DEF MockInit, AdapterInit
  <2>2. DraftInvariant
    BY <1>3, DraftStart DEF DraftsIdle
  <2>3. trace \in Seq(MemoryIntentEvent)
    BY <2>1 DEF MockInvariant, TraceOK
  <2> QED BY <1>3, <2>1, <2>2, <2>3 DEF ProducersInvariant
<1> QED BY <1>1, <1>2, <1>3 DEF ProducersInit

\* The steps of run() are steps of the simulator's specification.
LEMMA SimulateIsNext ==
    ASSUME trace \in Seq(MemoryIntentEvent), Simulate
    PROVE  Next
<1>1. CASE Replay
  <2> DEFINE b == Head(trace).object_id
             i == Head(trace).intent
  <2>1. Handle(Head(trace)) /\ b \in Blocks /\ i \in Intents
    BY <1>1, ReplayTakes DEF MemoryIntentEvent
  <2>2. \/ Allocated(b, i) \/ Accessed(b, i) \/ MarkedDecodeCritical(b, i)
        \/ MarkedCold(b, i) \/ Committed(b) \/ Spilled(b) \/ Freed(b)
        \/ \E urgent \in BOOLEAN : Prefetched(b, i, urgent)
    BY <2>1 DEF Handle
  <2> HIDE DEF b, i
  <2>3. Event
    BY <2>1, <2>2 DEF Event
  <2> QED BY <2>3 DEF Next
<1>2. CASE (Loop \/ Finish) /\ UNCHANGED trace
  BY <1>2 DEF Next
<1> QED BY <1>1, <1>2 DEF Simulate

\* The rounds of the draft tree, and the callbacks of the mock engine, leave the
\* simulator alone.
LEMMA RoundsLeaveSimulator ==
    ASSUME Expand \/ resolve
    PROVE  UNCHANGED vars
<1>1. CASE Expand
  BY <1>1 DEF Expand
<1>2. CASE resolve
  BY <1>2 DEF resolve
<1> QED BY <1>1, <1>2

\* The same for the mock engine.
LEMMA DriverLeavesSimulator ==
    ASSUME Drive
    PROVE  UNCHANGED vars
<1>1. CASE ScheduleRequest
  BY <1>1 DEF ScheduleRequest, on_request_scheduled, allVars
<1>2. CASE AllocateBlock
  <2>1. PICK is_draft \in BOOLEAN : on_block_allocated(<<req, n>>, "PREFILL", is_draft, DefaultSize)
    BY <1>2 DEF AllocateBlock
  <2> QED BY <2>1 DEF on_block_allocated, RecordOne, Record
<1>3. CASE Prefill
  BY <1>3 DEF Prefill, on_prefill_step, Record
<1>4. CASE Decode
  BY <1>4 DEF Decode, on_decode_step, Record
<1>5. CASE MarkCold
  BY <1>5 DEF MarkCold, on_block_marked_cold, RecordOne, Record
<1>6. CASE CommitBlock
  BY <1>6 DEF CommitBlock, on_block_committed, RecordOne, Record, allVars
<1>7. CASE AccessBlock
  BY <1>7 DEF AccessBlock, on_block_accessed, RecordOne, Record, allVars
<1>8. CASE FinishRequest
  BY <1>8 DEF FinishRequest, on_request_finished, Record
<1> QED BY <1>1, <1>2, <1>3, <1>4, <1>5, <1>6, <1>7, <1>8 DEF Drive

\* Stuttering keeps the invariant.
LEMMA DraftSame ==
    ASSUME DraftInvariant, UNCHANGED draft
    PROVE  DraftInvariant'
BY DEF draft, DraftInvariant, DraftTypes, Growing, Resolving, NoOrphans, IsReached,
       Table, InTable, Size, IsTree

\* The same for the producers that write a whole trace at once,
LEMMA WorkloadsSame ==
    ASSUME UNCHANGED <<vars, trace, input>>
    PROVE  /\ ImporterInvariant => ImporterInvariant'
           /\ ProxyInvariant => ProxyInvariant'
           /\ PrometheusInvariant => PrometheusInvariant'
           /\ SyntheticInvariant => SyntheticInvariant'
<1>1. /\ live_blocks' = live_blocks /\ intent' = intent /\ pc' = pc /\ input' = input
      /\ hbm_blocks' = hbm_blocks /\ dram_blocks' = dram_blocks /\ trace' = trace
  BY DEF vars
<1>2. ASSUME NEW M, Leads(M) PROVE Sound(Life, live_blocks', trace') /\ Left(Life, live_blocks', trace') = M
  BY <1>1, <1>2 DEF Leads
<1>3. ASSUME ImporterInvariant PROVE ImporterInvariant'
  <2>1. KeptBy(input, Len(input))' = KeptBy(input, Len(input))
        /\ PinnedBy(input, Len(input))' = PinnedBy(input, Len(input))
    BY <1>1 DEF KeptBy, PinnedBy
  <2>2. Leads(KeptBy(input, Len(input)))'
    BY <1>1, <1>3, <2>1 DEF Leads, ImporterInvariant
  <2>3. PinsAreAsked' /\ Pinned' = Pinned
    BY <1>1, <1>3 DEF PinsAreAsked, Pinned, ImporterInvariant
  <2>4. PinsLeft(PinnedBy(input, Len(input)))'
    BY <1>1, <1>3, <2>1, <2>3 DEF PinsLeft, ImporterInvariant
  <2> QED BY <1>1, <1>3, <2>2, <2>3, <2>4 DEF ImporterInvariant
<1>4. ASSUME ProxyInvariant PROVE ProxyInvariant'
  BY <1>1, <1>4 DEF ProxyInvariant, Leads
<1>5. ASSUME PrometheusInvariant PROVE PrometheusInvariant'
  BY <1>1, <1>5 DEF PrometheusInvariant, Monitored, High
<1>6. ASSUME SyntheticInvariant PROVE SyntheticInvariant'
  BY <1>1, <1>6 DEF SyntheticInvariant, AllBlocks, HotTails, Leads, CriticalInTail, RespectsTail
<1> QED BY <1>3, <1>4, <1>5, <1>6

\* for the draft tree,
LEMMA SpeculativeSame ==
    ASSUME SpeculativeInvariant, UNCHANGED <<vars, trace, draft>>
    PROVE  SpeculativeInvariant'
<1>1. live_blocks' = live_blocks /\ trace' = trace /\ Table' = Table
  BY DEF vars, draft, Table, InTable
<1> QED BY <1>1 DEF SpeculativeInvariant, Leads, BlocksOfDrafts

\* and for the mock engine.
LEMMA MockSame ==
    ASSUME MockInvariant, UNCHANGED <<vars, trace, mock>>
    PROVE  MockInvariant'
<1>1. /\ live_blocks' = live_blocks /\ trace' = trace /\ blocks' = blocks
      /\ request_metadata' = request_metadata /\ stage' = stage /\ req' = req /\ n' = n
  BY DEF vars, mock, adapter, driver
<1>2. KnownBlocks' = KnownBlocks
  BY <1>1 DEF KnownBlocks, Known
<1>3. TraceOK'
  BY <1>1 DEF MockInvariant, TraceOK, Events, Fits, MatchesTable
<1>4. Driven'
  BY <1>1 DEF MockInvariant, Driven
<1>5. TableFollows'
  BY <1>1, <1>2 DEF MockInvariant, TableFollows, Extent, InTail
<1>6. Leads(KnownBlocks)'
  BY <1>1, <1>2 DEF MockInvariant, Leads
<1> QED BY <1>3, <1>4, <1>5, <1>6 DEF MockInvariant

\* What a step of a producer may do to the blocks that it is about.
RespectsBlocks ==
    /\ producer # "prometheus" => ~ TakesUnknownBlock
    /\ producer = "synthetic" => TailIsKept
    /\ producer = "mock" => KeepsPins

\* Every step keeps the invariant, is a step of the simulator or leaves it alone, and
\* respects the blocks.
LEMMA ProducersStep ==
    ASSUME TypeOK, ProducersInvariant, [ProducersNext]_allProducerVars
    PROVE  ProducersInvariant' /\ [Next]_vars /\ [RespectsBlocks]_allProducerVars
<1> DEFINE S == Seq(MemoryIntentEvent)
<1>0. trace \in S /\ DraftInvariant /\ producer \in Workloads \cup {"speculative", "mock"}
  BY DEF ProducersInvariant
<1>1. CASE producer \in Workloads /\ WorkloadNext /\ UNCHANGED <<producer, draft, mock>>
  <2>1. Simulate /\ Next
    BY <1>0, <1>1, SimulateIsNext DEF WorkloadNext
  <2>2. DraftInvariant'
    BY <1>0, <1>1, DraftSame
  <2>3. CASE producer = "importer"
    <3>1. ImporterInvariant' /\ trace' \in S /\ ~ TakesUnknownBlock
      BY <1>0, <1>1, <2>3, ImporterStep DEF ProducersInvariant
    <3>2. ProducersInvariant'
      BY <1>1, <2>2, <2>3, <3>1 DEF ProducersInvariant, Workloads
    <3>3. RespectsBlocks
      BY <2>3, <3>1 DEF RespectsBlocks
    <3> QED BY <2>1, <3>2, <3>3
  <2>4. CASE producer = "proxy"
    <3>1. ProxyInvariant' /\ trace' \in S /\ ~ TakesUnknownBlock
      BY <1>0, <1>1, <2>4, ProxyStep DEF ProducersInvariant
    <3>2. ProducersInvariant'
      BY <1>1, <2>2, <2>4, <3>1 DEF ProducersInvariant, Workloads
    <3>3. RespectsBlocks
      BY <2>4, <3>1 DEF RespectsBlocks
    <3> QED BY <2>1, <3>2, <3>3
  <2>5. CASE producer = "prometheus"
    <3>1. PrometheusInvariant' /\ trace' \in S
      BY <1>0, <1>1, <2>5, PrometheusStep DEF ProducersInvariant
    <3>2. ProducersInvariant'
      BY <1>1, <2>2, <2>5, <3>1 DEF ProducersInvariant, Workloads
    <3>3. RespectsBlocks
      BY <2>5 DEF RespectsBlocks
    <3> QED BY <2>1, <3>2, <3>3
  <2>6. CASE producer = "synthetic"
    <3>1. SyntheticInvariant' /\ trace' \in S /\ ~ TakesUnknownBlock /\ TailIsKept
      BY <1>0, <1>1, <2>6, SyntheticStep DEF ProducersInvariant
    <3>2. ProducersInvariant'
      BY <1>1, <2>2, <2>6, <3>1 DEF ProducersInvariant, Workloads
    <3>3. RespectsBlocks
      BY <2>6, <3>1 DEF RespectsBlocks
    <3> QED BY <2>1, <3>2, <3>3
  <2> QED BY <1>1, <2>3, <2>4, <2>5, <2>6 DEF Workloads
<1>2. CASE producer = "speculative" /\ SpeculativeNext /\ UNCHANGED <<producer, input, mock>>
  <2>1. SpeculativeInvariant' /\ trace' \in S /\ ~ TakesUnknownBlock
    BY <1>0, <1>2, SpeculativeStep DEF ProducersInvariant
  <2>2. DraftInvariant'
    BY <1>0, <1>2, DraftStep
  <2>3. ProducersInvariant'
    BY <1>2, <2>1, <2>2 DEF ProducersInvariant, Workloads
  <2>4. RespectsBlocks
    BY <1>2, <2>1 DEF RespectsBlocks
  <2>5. [Next]_vars
    BY <1>0, <1>2, SimulateIsNext, RoundsLeaveSimulator DEF SpeculativeNext
  <2> QED BY <2>3, <2>4, <2>5
<1>3. CASE producer = "mock" /\ MockNext /\ UNCHANGED <<producer, input, draft>>
  <2>1. MockInvariant' /\ ~ TakesUnknownBlock /\ KeepsPins
    BY <1>3, MockStep DEF ProducersInvariant
  <2>2. DraftInvariant'
    BY <1>0, <1>3, DraftSame
  <2>3. trace' \in S
    BY <2>1 DEF MockInvariant, TraceOK
  <2>4. ProducersInvariant'
    BY <1>3, <2>1, <2>2, <2>3 DEF ProducersInvariant, Workloads
  <2>5. RespectsBlocks
    BY <1>3, <2>1 DEF RespectsBlocks
  <2>6. [Next]_vars
    BY <1>0, <1>3, SimulateIsNext, DriverLeavesSimulator DEF MockNext, SimulateTrace
  <2> QED BY <2>4, <2>5, <2>6
<1>4. CASE UNCHANGED allProducerVars
  <2>1. UNCHANGED <<vars, trace, producer, input, draft, mock>>
    BY <1>4 DEF allProducerVars
  <2>2. DraftInvariant' /\ trace' \in S /\ producer' = producer
    BY <1>0, <2>1, DraftSame
  <2>3. /\ producer = "importer" => ImporterInvariant'
        /\ producer = "proxy" => ProxyInvariant'
        /\ producer = "prometheus" => PrometheusInvariant'
        /\ producer = "synthetic" => SyntheticInvariant'
    <3>1. UNCHANGED <<vars, trace, input>>
      BY <2>1
    <3> QED BY <3>1, WorkloadsSame DEF ProducersInvariant
  <2>4. producer = "speculative" => SpeculativeInvariant'
    <3>1. UNCHANGED <<vars, trace, draft>>
      BY <2>1
    <3> QED BY <3>1, SpeculativeSame DEF ProducersInvariant
  <2>5. producer = "mock" => MockInvariant'
    <3>1. UNCHANGED <<vars, trace, mock>>
      BY <2>1
    <3> QED BY <3>1, MockSame DEF ProducersInvariant
  <2>6. ProducersInvariant'
    BY <1>0, <2>2, <2>3, <2>4, <2>5 DEF ProducersInvariant
  <2> QED BY <1>4, <2>1, <2>6
<1> QED BY <1>1, <1>2, <1>3, <1>4 DEF ProducersNext

\* The invariant holds throughout, together with what is proved of the simulator.
LEMMA ProducersHold == ProducersSpec => [](Counted /\ ProducersInvariant)
<1>1. ProducersInit => Counted /\ ProducersInvariant
  BY ProducersStart, CountedInit
<1>2. Counted /\ ProducersInvariant /\ [ProducersNext]_allProducerVars
        => Counted' /\ ProducersInvariant'
  <2> SUFFICES ASSUME Counted, ProducersInvariant, [ProducersNext]_allProducerVars
               PROVE  Counted' /\ ProducersInvariant'
    OBVIOUS
  <2>1. TypeOK
    BY DEF Counted, Residency
  <2>2. ProducersInvariant' /\ [Next]_vars
    BY <2>1, ProducersStep
  <2> QED BY <2>2, CountedStep
<1> QED BY <1>1, <1>2, PTL DEF ProducersSpec

\* Every producer drives the simulator as its specification allows: what is proved of
\* the simulator for any events holds of these traces.
THEOREM ProducersRefineSimulator == ProducersSpec => Spec
<1>1. ProducersInit => Init
  BY ProducersStart
<1>2. Counted /\ ProducersInvariant /\ [ProducersNext]_allProducerVars => [Next]_vars
  BY ProducersStep DEF Counted, Residency
<1> QED BY <1>1, <1>2, ProducersHold, PTL DEF ProducersSpec, Spec

\* In the table of the speculative decoder a draft is never without its parent: no
\* order of accepted and rejected nodes leaves the child of a rejected one.
THEOREM NoOrphansEver == ProducersSpec => []NoOrphans
<1>1. ProducersInvariant => NoOrphans
  BY DEF ProducersInvariant, DraftInvariant
<1> QED BY <1>1, ProducersHold, PTL

\* When a round of speculation is resolved, the drafts in the table are those that
\* were verified, and the counters of freed blocks count the others.
THEOREM SurvivorsWereAllVerified == ProducersSpec => []SurvivorsWereVerified
<1>1. ProducersInvariant => SurvivorsWereVerified
  BY VerifiedAtEnd DEF ProducersInvariant
<1> QED BY <1>1, ProducersHold, PTL

\* The blocks of an imported request hold its KV bytes, and waste less than a block,
\* or than a byte per block where max_blocks_per_request merged them.
THEOREM RequestsAreCovered == ProducersSpec => []BlocksCoverRequest
<1>1. ProducersInvariant => BlocksCoverRequest
  <2> SUFFICES ASSUME ProducersInvariant, producer = "importer", NEW rec \in Range(input)
               PROVE  RequestIsCovered(rec)
    BY DEF BlocksCoverRequest
  <2>1. input \in Seq(Records)
    BY DEF ProducersInvariant, ImporterInvariant
  <2>2. rec \in Records
    BY <2>1, ElementOfSeq DEF Range
  <2> QED BY <2>2, RequestBlocks
<1> QED BY <1>1, ProducersHold, PTL

\* What is live when run() has taken a whole trace: the requests that did not
\* complete, with their tails pinned; the monitor block; the drafts in the table;
\* nothing of a proxy log or of the mock engine; everything of the synthetic workload.
THEOREM TracesLeaveWhatIsInUse == ProducersSpec => []TraceLeavesWhatIsInUse
<1>1. ProducersInvariant => TraceLeavesWhatIsInUse
  <2> SUFFICES ASSUME ProducersInvariant PROVE TraceLeavesWhatIsInUse
    OBVIOUS
  <2>1. ASSUME producer = "speculative", Quiescent PROVE SimulatorFollowsTable
    BY <2>1, SpeculativeEnd DEF ProducersInvariant
  <2>2. ASSUME Ended
        PROVE  /\ producer = "importer" => OnlyUnfinishedStayLive
               /\ producer = "proxy" => ProxyLeavesNothing
               /\ producer = "prometheus" => MonitorFollowsSamples
               /\ producer = "synthetic" => SyntheticKeepsAll
               /\ producer = "mock" => MockReleasesAll
    <3>1. Quiescent /\ (producer = "mock" => stage = "done")
      BY <2>2 DEF Ended
    <3> QED BY <3>1, ImporterEnd, ProxyEnd, PrometheusEnd, SyntheticEnd, MockEnd DEF ProducersInvariant
  <2> QED BY <2>1, <2>2 DEF TraceLeavesWhatIsInUse
<1> QED BY <1>1, ProducersHold, PTL

\* No event of a producer other than the telemetry adapter is about a block that is
\* not live when run() takes it: none is dropped in silence, and no block is made up.
THEOREM EventsMeetLiveBlocks == ProducersSpec => EventsAreAboutLiveBlocks
<1>1. Counted /\ ProducersInvariant /\ [ProducersNext]_allProducerVars
        => [producer # "prometheus" => ~ TakesUnknownBlock]_allProducerVars
  BY ProducersStep DEF Counted, Residency, RespectsBlocks
<1> QED BY <1>1, ProducersHold, PTL DEF ProducersSpec, EventsAreAboutLiveBlocks

\* The tail that is being decoded is neither aged nor prefetched over: it stays
\* critical in the synthetic workload, and pinned in the mock engine's table.
THEOREM TailsStayCritical == ProducersSpec => TailStaysCritical
<1>1. Counted /\ ProducersInvariant /\ [ProducersNext]_allProducerVars
        => [/\ producer = "synthetic" =>
                  \A b \in live_blocks \cap live_blocks' :
                     intent[b].priority = "DECODE_CRITICAL" =>
                         intent'[b].priority = "DECODE_CRITICAL"
            /\ producer = "mock" => \A b \in Blocks : ~ Unpins(b)]_allProducerVars
  BY ProducersStep DEF Counted, Residency, RespectsBlocks, TailIsKept, KeepsPins
<1> QED BY <1>1, ProducersHold, PTL DEF ProducersSpec, TailStaysCritical

===============================================================================
