----------------------- MODULE KvIntentShrinkerProofs -----------------------
(***************************************************************************)
(* Proofs about KvIntentShrinker, for any number of structs, of ids and of *)
(* tasks of each kind.                                                     *)
(***************************************************************************)
EXTENDS KvIntentShrinker, DataLemmas, TLAPS

-----------------------------------------------------------------------------
(***************************************************************************)
(* The inductive invariant                                                 *)
(***************************************************************************)
\* The registry lists no struct twice, the pointers link it in its order, and a
\* struct that is not in use points nowhere.
Linked ==
    /\ \A i, j \in 1 .. Len(registry) : registry[i] = registry[j] => i = j
    /\ \A i \in 1 .. Len(registry) :
          next[registry[i]] = IF i = Len(registry) THEN None ELSE registry[i + 1]
    /\ \A s \in Structs : memory[s] \in {"free", "private"} => next[s] = None

\* c or k will hand s to call_rcu.
WriterHas(c, s) == call[c].op = "unregister" /\ call[c].struct = s
ReclaimerHas(k, s) == scan[k].op = "unlinked" /\ scan[k].struct = s

\* OneOwner, and the owners of what is not on the list yet.
Owned ==
    /\ \A s \in Structs : s \in Listed <=> memory[s] = "listed"
    /\ \A s \in Structs : memory[s] = "private" <=>
          \E c \in Callers : call[c].op = "register" /\ call[c].struct = s
    /\ \A s \in Structs : memory[s] = "unlinked" <=>
          (\E c \in Callers : WriterHas(c, s)) \/ (\E k \in Reclaimers : ReclaimerHas(k, s))
    /\ \A s \in Structs, c \in Callers, k \in Reclaimers :
          ~ (WriterHas(c, s) /\ ReclaimerHas(k, s))
    /\ \A c, d \in Callers : call[c] = call[d] /\ call[c] # Idle => c = d
    /\ \A s \in Structs, k, l \in Reclaimers :
          ReclaimerHas(k, s) /\ ReclaimerHas(l, s) => k = l

\* Nothing runs behind an interface that is not registered, and once the registry
\* has been freed none is.
Quiet ==
    /\ "shrinker" \notin interfaces => \A k \in Reclaimers : scan[k].op = "idle"
    /\ "status" \notin interfaces => \A r \in Readers : reader[r] = None
    /\ "register" \notin interfaces => \A c \in Callers : call[c].op # "register"
    /\ "unregister" \notin interfaces => \A c \in Callers : call[c].op # "unregister"
    /\ module = "loading" => "shrinker" \notin interfaces
    /\ module \in {"freed", "unloaded", "crashed"} => interfaces = {} /\ registry = <<>>

\* All that r can still reach is in `view`, and is on the list or waits for r.
InView(r, view) ==
    /\ reader[r] \in view
    /\ Listed \subseteq view
    /\ \A s \in view :
          /\ next[s] \in view \cup {None}
          /\ \/ memory[s] \in {"listed", "unlinked"}
             \/ memory[s] = "pending" /\ r \in waiting[s]

ReadersAreSafe == \A r \in ActiveReaders : \E view \in SUBSET Structs : InView(r, view)

ShrinkerInv == TypeOK /\ Linked /\ Owned /\ Quiet /\ ReadersAreSafe /\ UniqueIds

-----------------------------------------------------------------------------
(***************************************************************************)
(* The list                                                                *)
(***************************************************************************)
\* The listed structs are those at some position of the list.
LEMMA ListedIsRange == \A s : s \in Listed <=> \E i \in DOMAIN registry : registry[i] = s
BY DEF Listed, Range

\* list_del_rcu: the list without s, linked past it.
LEMMA Unlinking ==
    ASSUME TypeOK, Linked, Owned, NEW s \in Listed, list_del_rcu(s)
    PROVE  /\ registry' \in Seq(Structs)
           /\ next' \in [Structs -> Structs \cup {None}]
           /\ Listed' = Listed \ {s}
           /\ s \in Structs
           /\ Linked'
           /\ \A t \in Structs : next'[t] \in {next[t], next[s]}
<1> DEFINE p == Position(s)
           n == Len(registry)
<1>1. registry \in Seq(Structs) /\ n \in Nat /\ DOMAIN registry = 1 .. n
  BY DEF TypeOK
<1>2. p \in 1 .. n /\ registry[p] = s /\ s \in Structs
  <2>1. \E i \in DOMAIN registry : registry[i] = s
    BY ListedIsRange
  <2> QED
    BY <1>1, <2>1 DEF Position
<1>3. /\ registry' \in Seq(Structs) /\ Len(registry') = n - 1
      /\ \A i \in 1 .. n - 1 : registry'[i] = IF i < p THEN registry[i] ELSE registry[i + 1]
  BY <1>1, <1>2, RemoveAtFacts DEF list_del_rcu
<1>4. DOMAIN registry' = 1 .. n - 1
  BY <1>3
<1> HIDE DEF p, n
<1>5. Listed' = Listed \ {s}
  <2>1. ASSUME NEW t, t \in Listed'
        PROVE  t \in Listed \ {s}
    <3>1. PICK i \in 1 .. n - 1 : registry'[i] = t
      BY <2>1, <1>4 DEF Listed, Range
    <3>2. CASE i < p
      <4>1. i \in 1 .. n /\ registry[i] = t /\ i # p
        BY <3>1, <3>2, <1>1, <1>2, <1>3
      <4> QED
        BY <4>1, <1>1, <1>2, ListedIsRange DEF Linked, n
    <3>3. CASE ~ (i < p)
      <4>1. i + 1 \in 1 .. n /\ registry[i + 1] = t /\ i + 1 # p
        BY <3>1, <3>3, <1>1, <1>2, <1>3
      <4> QED
        BY <4>1, <1>1, <1>2, ListedIsRange DEF Linked, n
    <3> QED
      BY <3>2, <3>3
  <2>2. ASSUME NEW t, t \in Listed, t # s
        PROVE  t \in Listed'
    <3>1. PICK j \in 1 .. n : registry[j] = t
      BY <2>2, <1>1, ListedIsRange
    <3>2. j # p
      BY <3>1, <2>2, <1>2
    <3>3. CASE j < p
      <4>1. j \in 1 .. n - 1 /\ registry'[j] = t
        BY <3>1, <3>3, <1>1, <1>2, <1>3
      <4> QED
        BY <4>1, <1>4 DEF Listed, Range
    <3>4. CASE ~ (j < p)
      <4>1. j - 1 \in 1 .. n - 1 /\ ~ (j - 1 < p) /\ (j - 1) + 1 = j
        BY <3>1, <3>2, <3>4, <1>1, <1>2
      <4>2. registry'[j - 1] = t
        BY <3>1, <4>1, <1>3
      <4> QED
        BY <4>1, <4>2, <1>4 DEF Listed, Range
    <3> QED
      BY <3>3, <3>4
  <2> QED
    BY <2>1, <2>2
<1>6. \A t \in Structs : next'[t] = IF t \in Listed /\ next[t] = s THEN next[s] ELSE next[t]
  BY DEF list_del_rcu
<1>7. next' \in [Structs -> Structs \cup {None}]
  <2>1. next \in [Structs -> Structs \cup {None}]
    BY DEF TypeOK
  <2> QED
    BY <2>1, <1>2 DEF list_del_rcu
<1>8. Linked'
  <2>1. ASSUME NEW i \in 1 .. n - 1, NEW j \in 1 .. n - 1, registry'[i] = registry'[j]
        PROVE  i = j
    <3> DEFINE f(k) == IF k < p THEN k ELSE k + 1
    <3>1. f(i) \in 1 .. n /\ f(j) \in 1 .. n /\ registry[f(i)] = registry[f(j)]
      BY <2>1, <1>1, <1>2, <1>3
    <3>2. f(i) = f(j)
      BY <3>1 DEF Linked, n
    <3> QED
      BY <3>2, <1>1, <1>2
  <2>2. ASSUME NEW i \in 1 .. n - 1
        PROVE  next'[registry'[i]] = IF i = n - 1 THEN None ELSE registry'[i + 1]
    <3>1. \A j \in 1 .. n : registry[j] \in Structs /\ registry[j] \in Listed
      BY <1>1, ListedIsRange
    <3>2. \A j \in 1 .. n : registry[j] = s => j = p
      BY <1>2 DEF Linked, n
    <3>3. \A j \in 1 .. n : next[registry[j]] = IF j = n THEN None ELSE registry[j + 1]
      BY DEF Linked, n
    <3>4. s # None
      BY <1>2, ShrinkerAssumption
    <3>5. CASE i = p - 1
      <4>1. i \in 1 .. n /\ i # n /\ i + 1 = p /\ registry'[i] = registry[i]
        BY <3>5, <1>1, <1>2, <1>3
      <4>2. next[registry[i]] = s
        BY <4>1, <3>3, <1>2
      <4>3. next'[registry'[i]] = next[s]
        BY <4>1, <4>2, <3>1, <1>6
      <4>4. next[s] = IF p = n THEN None ELSE registry[p + 1]
        BY <3>3, <1>2
      <4>5. i # n - 1 => registry'[i + 1] = registry[p + 1]
        BY <4>1, <1>1, <1>2, <1>3
      <4>6. i = n - 1 <=> p = n
        BY <4>1, <1>1, <1>2
      <4> QED
        BY <4>3, <4>4, <4>5, <4>6
    <3>6. CASE i < p - 1
      <4>1. /\ i \in 1 .. n /\ i # n /\ i # n - 1 /\ i + 1 \in 1 .. n /\ i + 1 # p
            /\ registry'[i] = registry[i] /\ registry'[i + 1] = registry[i + 1]
        BY <3>6, <1>1, <1>2, <1>3
      <4>2. next[registry[i]] = registry[i + 1] /\ registry[i + 1] # s
        BY <4>1, <3>2, <3>3
      <4> QED
        BY <4>1, <4>2, <3>1, <1>6
    <3>7. CASE i >= p
      <4>1. /\ i + 1 \in 1 .. n /\ registry'[i] = registry[i + 1]
            /\ (i + 1 = n <=> i = n - 1)
        BY <3>7, <1>1, <1>2, <1>3
      <4>2. next[registry[i + 1]] = IF i + 1 = n THEN None ELSE registry[i + 1 + 1]
        BY <4>1, <3>3
      <4>3. i # n - 1 => /\ i + 1 + 1 \in 1 .. n /\ i + 1 + 1 # p
                         /\ registry'[i + 1] = registry[i + 1 + 1]
        BY <3>7, <1>1, <1>2, <1>3
      <4>4. next[registry[i + 1]] # s
        BY <4>1, <4>2, <4>3, <3>2, <3>4
      <4> QED
        BY <4>1, <4>2, <4>3, <4>4, <3>1, <1>6
    <3> QED
      BY <3>5, <3>6, <3>7, <1>1, <1>2
  <2>3. ASSUME NEW t \in Structs, memory'[t] \in {"free", "private"}
        PROVE  next'[t] = None
    <3>1. memory[t] \in {"free", "private"}
      BY <2>3, <1>2 DEF list_del_rcu, TypeOK
    <3>2. t \notin Listed /\ next[t] = None
      BY <3>1 DEF Owned, Linked
    <3> QED
      BY <3>2, <1>6
  <2> QED
    BY <2>1, <2>2, <2>3, <1>3 DEF Linked
<1> QED
  BY <1>2, <1>3, <1>5, <1>6, <1>7, <1>8

\* list_add_tail_rcu: the list with s at its end.
LEMMA Linking ==
    ASSUME TypeOK, Linked, Owned, NEW s \in Structs, memory[s] = "private",
           list_add_tail_rcu(s), memory' = [memory EXCEPT ![s] = "listed"]
    PROVE  /\ registry' \in Seq(Structs)
           /\ next' \in [Structs -> Structs \cup {None}]
           /\ Listed' = Listed \cup {s}
           /\ Linked'
           /\ \A t \in Structs : next'[t] \in {next[t], s}
           /\ next'[s] = None
<1> DEFINE n == Len(registry)
<1>1. registry \in Seq(Structs) /\ n \in Nat /\ DOMAIN registry = 1 .. n
  BY DEF TypeOK
<1>2. s \notin Listed /\ next[s] = None
  BY DEF Owned, Linked
<1>3. /\ registry' \in Seq(Structs) /\ Len(registry') = n + 1
      /\ \A i \in 1 .. n : registry'[i] = registry[i]
      /\ registry'[n + 1] = s
  BY <1>1 DEF list_add_tail_rcu
<1>4. DOMAIN registry' = 1 .. n + 1
  BY <1>3
<1>5. registry = <<>> <=> n = 0
  BY <1>1
<1>6. \A j \in 1 .. n : registry[j] \in Structs /\ registry[j] \in Listed /\ registry[j] # s
  BY <1>1, <1>2, ListedIsRange
<1>7. \A t \in Structs : next'[t] = IF n # 0 /\ t = registry[n] THEN s ELSE next[t]
  <2>1. next \in [Structs -> Structs \cup {None}]
    BY DEF TypeOK
  <2> QED
    BY <2>1, <1>5 DEF list_add_tail_rcu, Last
<1>8. next' \in [Structs -> Structs \cup {None}]
  <2>1. next \in [Structs -> Structs \cup {None}]
    BY DEF TypeOK
  <2> QED
    BY <2>1 DEF list_add_tail_rcu
<1> HIDE DEF n
<1>9. Listed' = Listed \cup {s}
  <2>1. ASSUME NEW t, t \in Listed'
        PROVE  t \in Listed \cup {s}
    <3>1. PICK i \in 1 .. n + 1 : registry'[i] = t
      BY <2>1, <1>4 DEF Listed, Range
    <3>2. i = n + 1 \/ i \in 1 .. n
      BY <1>1
    <3> QED
      BY <3>1, <3>2, <1>3, <1>6
  <2>2. ASSUME NEW t, t \in Listed
        PROVE  t \in Listed'
    <3>1. PICK j \in 1 .. n : registry[j] = t
      BY <2>2, <1>1, ListedIsRange
    <3>2. j \in 1 .. n + 1 /\ registry'[j] = t
      BY <3>1, <1>1, <1>3
    <3> QED
      BY <3>2, <1>4 DEF Listed, Range
  <2>3. s \in Listed'
    BY <1>1, <1>3, <1>4 DEF Listed, Range
  <2> QED
    BY <2>1, <2>2, <2>3
<1>10. next'[s] = None
  <2>1. n # 0 => n \in 1 .. n
    BY <1>1
  <2> QED
    BY <2>1, <1>2, <1>6, <1>7
<1>11. Linked'
  <2>1. ASSUME NEW i \in 1 .. n + 1, NEW j \in 1 .. n + 1, registry'[i] = registry'[j]
        PROVE  i = j
    <3>1. (i = n + 1 \/ i \in 1 .. n) /\ (j = n + 1 \/ j \in 1 .. n)
      BY <1>1
    <3> QED
      BY <2>1, <3>1, <1>3, <1>6 DEF Linked, n
  <2>2. ASSUME NEW i \in 1 .. n + 1
        PROVE  next'[registry'[i]] = IF i = n + 1 THEN None ELSE registry'[i + 1]
    <3>1. CASE i = n + 1
      BY <3>1, <1>3, <1>10
    <3>2. CASE i = n /\ n # 0
      <4>1. i \in 1 .. n /\ registry'[i] = registry[n] /\ registry'[i + 1] = s /\ i # n + 1
        BY <3>2, <1>1, <1>3
      <4> QED
        BY <3>2, <4>1, <1>6, <1>7
    <3>3. CASE i \in 1 .. n - 1
      <4>1. /\ i \in 1 .. n /\ i # n /\ i # n + 1 /\ i + 1 \in 1 .. n /\ n \in 1 .. n
            /\ registry'[i] = registry[i] /\ registry'[i + 1] = registry[i + 1]
        BY <3>3, <1>1, <1>3
      <4>2. registry[i] # registry[n] /\ next[registry[i]] = registry[i + 1]
        BY <4>1 DEF Linked, n
      <4> QED
        BY <4>1, <4>2, <1>6, <1>7
    <3> QED
      BY <3>1, <3>2, <3>3, <1>1
  <2>3. ASSUME NEW t \in Structs, memory'[t] \in {"free", "private"}
        PROVE  next'[t] = None
    <3>1. memory[t] \in {"free", "private"}
      BY <2>3 DEF TypeOK
    <3>2. t \notin Listed /\ next[t] = None
      BY <3>1 DEF Owned, Linked
    <3>3. n # 0 => registry[n] \in Listed
      BY <1>1, <1>6
    <3> QED
      BY <3>2, <3>3, <1>7
  <2> QED
    BY <2>1, <2>2, <2>3, <1>3 DEF Linked
<1> QED
  BY <1>3, <1>7, <1>8, <1>9, <1>10, <1>11

-----------------------------------------------------------------------------
(***************************************************************************)
(* Type correctness                                                        *)
(***************************************************************************)
\* An empty registry, with no call in progress and no file.
LEMMA ShrinkerInvInit == Init => ShrinkerInv
<1> SUFFICES ASSUME Init
             PROVE  ShrinkerInv
  OBVIOUS
<1> USE DEF Init
<1>1. Listed = {}
  BY DEF Listed, Range
<1>2. TypeOK
  <2>1. registry \in Seq(Structs) /\ next \in [Structs -> Structs \cup {None}]
    OBVIOUS
  <2>2. /\ memory \in [Structs -> {"free", "private", "listed", "unlinked", "pending"}]
        /\ intent \in [Structs -> [id : Ids, priority : Priority] \cup {NoContent}]
    OBVIOUS
  <2>3. waiting \in [Structs -> SUBSET Readers] /\ unseen \in [Readers -> SUBSET Structs]
    OBVIOUS
  <2>4. /\ call \in [Callers -> [op : {"register", "unregister"}, struct : Structs] \cup {Idle}]
        /\ scan \in [Reclaimers -> {ScanIdle} \cup
                    [op : {"pick", "unlinked"}, struct : Structs \cup {None},
                     freed : 0 .. MaxScan - 1, nr_to_scan : 1 .. MaxScan]]
    OBVIOUS
  <2>5. \A k \in Reclaimers : scan[k].op = "idle"
    BY DEF ScanIdle
  <2>6. interfaces \subseteq Range(Interfaces)
    OBVIOUS
  <2> QED
    BY <2>1, <2>2, <2>3, <2>4, <2>5, <2>6 DEF TypeOK
<1>3. Linked /\ Quiet /\ UniqueIds
  BY <1>1 DEF Linked, Quiet, UniqueIds, ScanIdle, Idle
<1>4. Owned
  BY <1>1 DEF Owned, WriterHas, ReclaimerHas, ScanIdle, Idle
<1>5. ReadersAreSafe
  BY DEF ReadersAreSafe, ActiveReaders
<1> QED
  BY <1>2, <1>3, <1>4, <1>5 DEF ShrinkerInv

\* The writers' calls.
LEMMA TypeWriters ==
    ASSUME ShrinkerInv, NEW c \in Callers,
           \/ \E id \in Ids, p \in Priorities : RegisterAlloc(c, id, p)
           \/ \E id \in Ids : UnregisterUnlink(c, id)
           \/ RegisterInsert(c) \/ UnregisterCallRcu(c)
    PROVE  TypeOK'
<1>1. TypeOK /\ Linked /\ Owned
  BY DEF ShrinkerInv
<1>2. ASSUME NEW id \in Ids, NEW p \in Priorities, RegisterAlloc(c, id, p)
      PROVE  TypeOK'
  BY <1>1, <1>2, ShrinkerAssumption DEF RegisterAlloc, TypeOK
<1>3. CASE RegisterInsert(c)
  <2> DEFINE s == call[c].struct
  <2>1. s \in Structs /\ memory[s] = "private"
    BY <1>1, <1>3 DEF RegisterInsert, TypeOK, Owned, Idle
  <2>2. CASE kv_find_intent_locked(intent[s].id) # {}
    BY <1>1, <1>3, <2>1, <2>2 DEF RegisterInsert, TypeOK
  <2>3. CASE /\ list_add_tail_rcu(s) /\ memory' = [memory EXCEPT ![s] = "listed"]
             /\ UNCHANGED intent
    BY <1>1, <1>3, <2>1, <2>3, Linking DEF RegisterInsert, TypeOK
  <2> QED
    BY <1>3, <2>2, <2>3 DEF RegisterInsert
<1>4. ASSUME NEW id \in Ids, UnregisterUnlink(c, id)
      PROVE  TypeOK'
  <2>1. PICK s \in Listed : /\ list_del_rcu(s)
                            /\ call' = [call EXCEPT ![c] = [op |-> "unregister", struct |-> s]]
    BY <1>4 DEF UnregisterUnlink, kv_find_intent_locked
  <2>2. /\ registry' \in Seq(Structs) /\ next' \in [Structs -> Structs \cup {None}]
        /\ s \in Structs
    BY <1>1, <2>1, Unlinking
  <2> QED
    BY <1>1, <1>4, <2>1, <2>2 DEF UnregisterUnlink, list_del_rcu, TypeOK
<1>5. CASE UnregisterCallRcu(c)
  <2>1. call[c].struct \in Structs
    BY <1>1, <1>5 DEF UnregisterCallRcu, TypeOK, Idle
  <2> QED
    BY <1>1, <1>5, <2>1 DEF UnregisterCallRcu, call_rcu, ActiveReaders, TypeOK
<1> QED
  BY <1>2, <1>3, <1>4, <1>5

\* The readers and the callbacks of RCU.
LEMMA TypeReaders ==
    ASSUME ShrinkerInv,
           \/ \E r \in Readers : StatusBegin(r) \/ StatusNext(r)
           \/ \E s \in Structs : kv_free_intent_rcu(s)
    PROVE  TypeOK'
<1>1. TypeOK
  BY DEF ShrinkerInv
<1>2. ASSUME NEW r \in Readers, StatusBegin(r)
      PROVE  TypeOK'
  <2>1. Head(registry) \in Structs /\ Listed \in SUBSET Structs
    BY <1>1, <1>2, ListedIsRange DEF StatusBegin, TypeOK
  <2> QED
    BY <1>1, <1>2, <2>1 DEF StatusBegin, TypeOK, lists
<1>3. ASSUME NEW r \in Readers, StatusNext(r)
      PROVE  TypeOK'
  <2>1. next[reader[r]] \in Structs \cup {None}
    BY <1>1, <1>3 DEF StatusNext, TypeOK
  <2> QED
    BY <1>1, <1>3, <2>1 DEF StatusNext, TypeOK, lists
<1>4. ASSUME NEW s \in Structs, kv_free_intent_rcu(s)
      PROVE  TypeOK'
  BY <1>1, <1>4 DEF kv_free_intent_rcu, TypeOK, tasks
<1> QED
  BY <1>2, <1>3, <1>4

\* A scan is idle again when it has freed what it was asked to.
LEMMA TypeReclaimers ==
    ASSUME ShrinkerInv, NEW k \in Reclaimers, NEW n \in 1 .. MaxScan,
           ScanBegin(k, n) \/ ScanPick(k) \/ ScanCallRcu(k)
    PROVE  TypeOK'
<1> DEFINE Scan == {ScanIdle} \cup [op : {"pick", "unlinked"}, struct : Structs \cup {None},
                                    freed : 0 .. MaxScan - 1, nr_to_scan : 1 .. MaxScan]
           Sound(x) == x.op # "idle" => /\ x.freed < x.nr_to_scan
                                        /\ x.op = "unlinked" => x.struct \in Structs
<1>1. TypeOK /\ Linked /\ Owned /\ MaxScan \in Nat \ {0}
  BY ShrinkerAssumption DEF ShrinkerInv
<1>2. scan \in [Reclaimers -> Scan] /\ \A l \in Reclaimers : Sound(scan[l])
  BY <1>1 DEF TypeOK
<1>3. ScanIdle \in Scan /\ Sound(ScanIdle)
  BY DEF ScanIdle
<1>4. ASSUME NEW x \in Scan, Sound(x), scan' = [scan EXCEPT ![k] = x]
      PROVE  scan' \in [Reclaimers -> Scan] /\ \A l \in Reclaimers : Sound(scan'[l])
  BY <1>2, <1>4
<1>5. CASE ScanBegin(k, n)
  <2> DEFINE x == [op |-> "pick", struct |-> None, freed |-> 0, nr_to_scan |-> n]
  <2>1. x \in Scan /\ Sound(x) /\ scan' = [scan EXCEPT ![k] = x]
    BY <1>1, <1>5 DEF ScanBegin
  <2> HIDE DEF x, Scan, Sound
  <2>2. scan' \in [Reclaimers -> Scan] /\ \A l \in Reclaimers : Sound(scan'[l])
    BY <2>1, <1>4
  <2> QED
    BY <1>1, <1>5, <2>2 DEF ScanBegin, TypeOK, lists, Scan, Sound
<1>6. ASSUME ScanPick(k), NEW s \in Listed, list_del_rcu(s),
             scan' = [scan EXCEPT ![k].op = "unlinked", ![k].struct = s]
      PROVE  TypeOK'
  <2> DEFINE x == [scan[k] EXCEPT !.op = "unlinked", !.struct = s]
  <2>1. /\ registry' \in Seq(Structs) /\ next' \in [Structs -> Structs \cup {None}]
        /\ s \in Structs
    BY <1>1, <1>6, Unlinking
  <2>2. x \in Scan /\ Sound(x)
    <3>1. scan[k] \in [op : {"pick", "unlinked"}, struct : Structs \cup {None},
                       freed : 0 .. MaxScan - 1, nr_to_scan : 1 .. MaxScan]
          /\ scan[k].freed < scan[k].nr_to_scan
      <4>1. scan[k].op = "pick"
        BY <1>6 DEF ScanPick
      <4>2. scan[k] # ScanIdle
        BY <4>1 DEF ScanIdle
      <4> QED
        BY <1>2, <4>1, <4>2
    <3> QED
      BY <2>1, <3>1
  <2>3. scan' = [scan EXCEPT ![k] = x]
    BY <1>2, <1>6
  <2> HIDE DEF x, Scan, Sound
  <2>4. scan' \in [Reclaimers -> Scan] /\ \A l \in Reclaimers : Sound(scan'[l])
    BY <2>2, <2>3, <1>4
  <2> QED
    BY <1>1, <1>6, <2>1, <2>4 DEF ScanPick, list_del_rcu, TypeOK, Scan, Sound
<1>7. ASSUME ScanPick(k), scan' = [scan EXCEPT ![k] = ScanIdle],
             UNCHANGED <<registry, next, memory, unseen>>
      PROVE  TypeOK'
  <2> HIDE DEF Scan, Sound
  <2>1. scan' \in [Reclaimers -> Scan] /\ \A l \in Reclaimers : Sound(scan'[l])
    BY <1>3, <1>4, <1>7
  <2> QED
    BY <1>1, <1>7, <2>1 DEF ScanPick, TypeOK, Scan, Sound
<1>8. CASE ScanCallRcu(k)
  <2> DEFINE x == IF scan[k].freed + 1 = scan[k].nr_to_scan THEN ScanIdle
                  ELSE [scan[k] EXCEPT !.op = "pick", !.struct = None, !.freed = scan[k].freed + 1]
  <2>1. /\ scan[k] \in [op : {"pick", "unlinked"}, struct : Structs \cup {None},
                        freed : 0 .. MaxScan - 1, nr_to_scan : 1 .. MaxScan]
        /\ scan[k].freed < scan[k].nr_to_scan /\ scan[k].struct \in Structs
    BY <1>2, <1>8 DEF ScanCallRcu, ScanIdle
  <2>2. x \in Scan /\ Sound(x)
    <3>1. CASE scan[k].freed + 1 = scan[k].nr_to_scan
      BY <3>1, <1>3
    <3>2. CASE scan[k].freed + 1 # scan[k].nr_to_scan
      <4>1. /\ scan[k].freed + 1 < scan[k].nr_to_scan
            /\ scan[k].freed + 1 \in 0 .. MaxScan - 1
        BY <2>1, <3>2, <1>1
      <4> QED
        BY <2>1, <3>2, <4>1
    <3> QED
      BY <3>1, <3>2
  <2>3. scan' = [scan EXCEPT ![k] = x]
    BY <1>8 DEF ScanCallRcu
  <2> HIDE DEF x, Scan, Sound
  <2>4. scan' \in [Reclaimers -> Scan] /\ \A l \in Reclaimers : Sound(scan'[l])
    BY <2>2, <2>3, <1>4
  <2> QED
    BY <1>1, <1>8, <2>1, <2>4
       DEF ScanCallRcu, call_rcu, ActiveReaders, TypeOK, Scan, Sound
<1> QED
  BY <1>5, <1>6, <1>7, <1>8 DEF ScanPick

\* insmod and rmmod.
LEMMA TypeModule ==
    ASSUME ShrinkerInv, CallbackAfterUnload \/ Load \/ Exit
    PROVE  TypeOK'
<1>1. TypeOK /\ Quiet
  BY DEF ShrinkerInv
<1>2. CASE CallbackAfterUnload
  BY <1>1, <1>2 DEF CallbackAfterUnload, TypeOK, lists, tasks
<1>3. CASE LoadNext
  <2> DEFINE missing == {i \in 1 .. 4 : Interfaces[i] \notin interfaces}
             last == CHOOSE i \in missing : \A j \in missing : j <= i
  <2>1. 1 \in missing
    BY <1>1, <1>3 DEF LoadNext, Quiet, Interfaces
  <2>2. \E i \in missing : \A j \in missing : j <= i
    BY <2>1
  <2>3. last \in 1 .. 4
    BY <2>2
  <2>4. Interfaces[last] \in Range(Interfaces)
    <3>1. DOMAIN Interfaces = 1 .. 4
      BY DEF Interfaces
    <3> QED
      BY <2>3, <3>1 DEF Range
  <2>5. /\ interfaces' = interfaces \cup {Interfaces[last]}
        /\ module' \in {"loaded", "loading"}
        /\ UNCHANGED <<lists, waiting, tasks>>
    BY <1>3 DEF LoadNext
  <2> HIDE DEF last
  <2> QED
    BY <1>1, <2>4, <2>5 DEF TypeOK, lists, tasks
<1>4. CASE LoadFails \/ LoadFailed \/ ExitBegin \/ ExitSynchronize
  BY <1>1, <1>4 DEF LoadFails, LoadFailed, ExitBegin, ExitSynchronize, TypeOK, lists, tasks
<1>5. CASE RemoveInterface
  BY <1>1, <1>5 DEF RemoveInterface, TypeOK, lists, tasks
<1>6. CASE kv_free_all_intents
  BY <1>1, <1>6 DEF kv_free_all_intents, TypeOK, tasks
<1> QED
  BY <1>2, <1>3, <1>4, <1>5, <1>6 DEF Load, Exit

-----------------------------------------------------------------------------
(***************************************************************************)
(* What most steps leave as it was                                         *)
(***************************************************************************)
\* Ids stay unique where the list does not grow.
LEMMA UniqueKept ==
    ASSUME UniqueIds, Listed' \subseteq Listed, \A t \in Listed' : intent'[t] = intent[t]
    PROVE  UniqueIds'
BY DEF UniqueIds

\* A view that each reader keeps is all that its safety needs.
LEMMA SafeKept ==
    ASSUME ReadersAreSafe, UNCHANGED reader,
           \A r \in ActiveReaders, view \in SUBSET Structs :
               InView(r, view) => InView(r, view)'
    PROVE  ReadersAreSafe'
BY DEF ReadersAreSafe, ActiveReaders

\* The links stay in order where neither list nor pointers change.
LEMMA LinkedKept ==
    ASSUME Linked, UNCHANGED <<registry, next>>,
           \A s \in Structs : memory'[s] \in {"free", "private"} =>
               memory[s] \in {"free", "private"}
    PROVE  Linked'
BY DEF Linked

-----------------------------------------------------------------------------
(***************************************************************************)
(* The writers                                                             *)
(***************************************************************************)
\* A register call takes a free struct that nobody else has.
LEMMA RegisterAllocStep ==
    ASSUME ShrinkerInv, NEW c \in Callers, NEW id \in Ids, NEW p \in Priorities,
           RegisterAlloc(c, id, p)
    PROVE  Linked' /\ Owned' /\ Quiet' /\ ReadersAreSafe' /\ UniqueIds'
<1> DEFINE new(s) == [op |-> "register", struct |-> s]
<1>1. PICK s \in Structs :
          /\ memory[s] = "free" /\ memory' = [memory EXCEPT ![s] = "private"]
          /\ intent' = [intent EXCEPT ![s] = [id |-> id, priority |-> p]]
          /\ call' = [call EXCEPT ![c] = new(s)]
  BY DEF RegisterAlloc
<1>2. /\ call[c] = Idle /\ "register" \in interfaces
      /\ UNCHANGED <<registry, next, waiting, scan, reader, unseen, interfaces, module>>
  BY DEF RegisterAlloc
<1>3. TypeOK /\ Linked /\ Owned /\ Quiet /\ ReadersAreSafe /\ UniqueIds
  BY DEF ShrinkerInv
<1>4. Listed' = Listed /\ s \notin Listed
  BY <1>1, <1>2, <1>3 DEF Listed, Owned
<1>5. /\ memory \in [Structs -> {"free", "private", "listed", "unlinked", "pending"}]
      /\ DOMAIN call = Callers /\ DOMAIN intent = Structs
  BY <1>3 DEF TypeOK
<1>6. Linked'
  BY <1>1, <1>2, <1>3, <1>5, LinkedKept
<1>7. UniqueIds'
  BY <1>1, <1>3, <1>4, <1>5, ListedIsRange, UniqueKept DEF TypeOK
<1>8. Quiet'
  BY <1>1, <1>2, <1>3, <1>5 DEF Quiet
<1>9. ReadersAreSafe'
  <2>1. ASSUME NEW r \in ActiveReaders, NEW view \in SUBSET Structs, InView(r, view)
        PROVE  InView(r, view)'
    BY <1>1, <1>2, <1>4, <1>5, <2>1 DEF InView
  <2> QED
    BY <1>2, <1>3, <2>1, SafeKept
<1>10. Owned'
  <2>1. \A d \in Callers : call'[d] = IF d = c THEN new(s) ELSE call[d]
    BY <1>1, <1>5
  <2>2. \A t \in Structs : memory'[t] = IF t = s THEN "private" ELSE memory[t]
    BY <1>1, <1>5
  <2>3. \A d \in Callers, t \in Structs : WriterHas(d, t)' <=> WriterHas(d, t)
    BY <1>2, <2>1 DEF WriterHas, Idle
  <2>4. \A l \in Reclaimers, t \in Structs : ReclaimerHas(l, t)' <=> ReclaimerHas(l, t)
    BY <1>2 DEF ReclaimerHas
  <2>5. \A t \in Structs : t \in Listed' <=> memory'[t] = "listed"
    BY <1>1, <1>3, <1>4, <2>2 DEF Owned
  <2>6. \A t \in Structs : memory'[t] = "private" <=>
            \E d \in Callers : call'[d].op = "register" /\ call'[d].struct = t
    BY <1>2, <1>3, <2>1, <2>2 DEF Owned, Idle
  <2>7. \A t \in Structs : memory'[t] = "unlinked" <=>
            (\E d \in Callers : WriterHas(d, t)') \/ (\E l \in Reclaimers : ReclaimerHas(l, t)')
    BY <1>1, <1>3, <2>2, <2>3, <2>4 DEF Owned
  <2>8. \A d, e \in Callers : call'[d] = call'[e] /\ call'[d] # Idle => d = e
    <3>1. \A d \in Callers : call[d] # new(s)
      BY <1>1, <1>3 DEF Owned
    <3> QED
      BY <1>3, <2>1, <3>1 DEF Owned
  <2>9. /\ \A t \in Structs, d \in Callers, l \in Reclaimers :
               ~ (WriterHas(d, t)' /\ ReclaimerHas(l, t)')
        /\ \A t \in Structs, k, l \in Reclaimers :
               ReclaimerHas(k, t)' /\ ReclaimerHas(l, t)' => k = l
    BY <1>3, <2>3, <2>4 DEF Owned
  <2> QED
    BY <2>5, <2>6, <2>7, <2>8, <2>9 DEF Owned
<1> QED
  BY <1>6, <1>7, <1>8, <1>9, <1>10

\* It links the struct at the tail after having looked for its id under the lock: a
\* reader's view grows by it.
LEMMA RegisterInsertStep ==
    ASSUME ShrinkerInv, NEW c \in Callers, RegisterInsert(c),
           NEW s \in Structs, s = call[c].struct
    PROVE  Linked' /\ Owned' /\ Quiet' /\ ReadersAreSafe' /\ UniqueIds'
<1>1. /\ call[c].op = "register" /\ call' = [call EXCEPT ![c] = Idle]
      /\ UNCHANGED <<waiting, scan, reader, unseen, interfaces, module>>
  BY DEF RegisterInsert
<1>2. TypeOK /\ Linked /\ Owned /\ Quiet /\ ReadersAreSafe /\ UniqueIds
  BY DEF ShrinkerInv
<1>3. s \in Structs /\ memory[s] = "private"
  BY <1>1, <1>2 DEF TypeOK, Owned, Idle
<1>4. /\ memory \in [Structs -> {"free", "private", "listed", "unlinked", "pending"}]
      /\ DOMAIN call = Callers /\ DOMAIN intent = Structs
  BY <1>2 DEF TypeOK
<1>5. Quiet'
  <2>1. module \in {"freed", "unloaded", "crashed"} => FALSE
    BY <1>1, <1>2 DEF Quiet
  <2> QED
    BY <1>1, <1>2, <1>4, <2>1 DEF Quiet, Idle
<1>6. s \notin Listed
  BY <1>2, <1>3 DEF Owned
\* Whatever becomes of the struct, the caller has nothing any more.
<1>7. ASSUME NEW m \in {"free", "listed"}, memory' = [memory EXCEPT ![s] = m],
             Listed' = IF m = "listed" THEN Listed \cup {s} ELSE Listed
      PROVE  Owned'
  <2>1. \A d \in Callers : call'[d] = IF d = c THEN Idle ELSE call[d]
    BY <1>1, <1>4
  <2>2. \A t \in Structs : memory'[t] = IF t = s THEN m ELSE memory[t]
    BY <1>7, <1>4
  <2>3. \A d \in Callers, t \in Structs : WriterHas(d, t)' <=> WriterHas(d, t)
    BY <1>1, <2>1 DEF WriterHas, Idle
  <2>4. \A l \in Reclaimers, t \in Structs : ReclaimerHas(l, t)' <=> ReclaimerHas(l, t)
    BY <1>1 DEF ReclaimerHas
  <2>5. \A t \in Structs : t \in Listed' <=> memory'[t] = "listed"
    BY <1>2, <1>3, <1>6, <1>7, <2>2 DEF Owned
  <2>6. \A t \in Structs : memory'[t] = "private" <=>
            \E d \in Callers : call'[d].op = "register" /\ call'[d].struct = t
    <3>1. \A d \in Callers : call[d].op = "register" /\ call[d].struct = s => d = c
      <4> SUFFICES ASSUME NEW d \in Callers, call[d].op = "register", call[d].struct = s
                   PROVE  call[d] = call[c] /\ call[d] # Idle
        BY <1>2 DEF Owned
      <4>1. call[d] # Idle /\ call[c] # Idle
        BY <1>1 DEF Idle
      <4>2. /\ call[d] \in [op : {"register", "unregister"}, struct : Structs]
            /\ call[c] \in [op : {"register", "unregister"}, struct : Structs]
        BY <1>2, <4>1 DEF TypeOK
      <4> QED
        BY <1>1, <4>1, <4>2
    <3>2. \A t \in Structs : memory[t] = "private" <=>
              \E d \in Callers : call[d].op = "register" /\ call[d].struct = t
      BY <1>2 DEF Owned
    <3>3. ASSUME NEW t \in Structs, memory'[t] = "private"
          PROVE  \E d \in Callers : call'[d].op = "register" /\ call'[d].struct = t
      <4>1. t # s /\ memory[t] = "private"
        BY <3>3, <2>2, <1>7
      <4>2. PICK d \in Callers : call[d].op = "register" /\ call[d].struct = t
        BY <4>1, <3>2
      <4>3. d # c
        BY <4>1, <4>2
      <4> QED
        BY <4>2, <4>3, <2>1
    <3>4. ASSUME NEW t \in Structs, NEW d \in Callers,
                 call'[d].op = "register", call'[d].struct = t
          PROVE  memory'[t] = "private"
      <4>1. d # c
        BY <3>4, <2>1 DEF Idle
      <4>2. call[d].op = "register" /\ call[d].struct = t
        BY <3>4, <4>1, <2>1
      <4> QED
        BY <4>1, <4>2, <3>1, <3>2, <2>2
    <3> QED
      BY <3>3, <3>4
  <2>7. \A t \in Structs : memory'[t] = "unlinked" <=>
            (\E d \in Callers : WriterHas(d, t)') \/ (\E l \in Reclaimers : ReclaimerHas(l, t)')
    BY <1>2, <1>3, <1>7, <2>2, <2>3, <2>4 DEF Owned
  <2>8. \A d, e \in Callers : call'[d] = call'[e] /\ call'[d] # Idle => d = e
    BY <1>2, <2>1 DEF Owned
  <2>9. /\ \A t \in Structs, d \in Callers, l \in Reclaimers :
               ~ (WriterHas(d, t)' /\ ReclaimerHas(l, t)')
        /\ \A t \in Structs, k, l \in Reclaimers :
               ReclaimerHas(k, t)' /\ ReclaimerHas(l, t)' => k = l
    BY <1>2, <2>3, <2>4 DEF Owned
  <2> QED
    BY <2>5, <2>6, <2>7, <2>8, <2>9 DEF Owned
<1>8. CASE /\ memory' = [memory EXCEPT ![s] = "free"]
           /\ intent' = [intent EXCEPT ![s] = NoContent]
           /\ UNCHANGED <<registry, next>>
  <2>1. Listed' = Listed
    BY <1>8 DEF Listed
  <2>2. Linked'
    BY <1>2, <1>3, <1>4, <1>8, LinkedKept
  <2>3. UniqueIds'
    BY <1>2, <1>4, <1>6, <1>8, <2>1, UniqueKept
  <2>4. ReadersAreSafe'
    <3>1. ASSUME NEW r \in ActiveReaders, NEW view \in SUBSET Structs, InView(r, view)
          PROVE  InView(r, view)'
      BY <1>1, <1>3, <1>4, <1>8, <2>1, <3>1 DEF InView
    <3> QED
      BY <1>1, <1>2, <3>1, SafeKept
  <2>5. Owned'
    BY <1>7, <1>8, <2>1
  <2> QED
    BY <1>5, <2>2, <2>3, <2>4, <2>5
<1>9. CASE /\ kv_find_intent_locked(intent[s].id) = {}
           /\ list_add_tail_rcu(s) /\ memory' = [memory EXCEPT ![s] = "listed"]
           /\ UNCHANGED intent
  <2>1. /\ Listed' = Listed \cup {s} /\ Linked' /\ next'[s] = None
        /\ \A t \in Structs : next'[t] \in {next[t], s}
    BY <1>2, <1>3, <1>9, Linking
  <2>2. UniqueIds'
    <3>1. \A t \in Listed : intent[t].id # intent[s].id
      BY <1>9 DEF kv_find_intent_locked
    <3> QED
      BY <1>2, <1>9, <2>1, <3>1 DEF UniqueIds
  <2>3. ReadersAreSafe'
    <3>1. ASSUME NEW r \in ActiveReaders, NEW view \in SUBSET Structs, InView(r, view)
          PROVE  InView(r, view \cup {s})'
      <4> DEFINE wider == view \cup {s}
      <4>1. \A t \in Structs : memory'[t] = IF t = s THEN "listed" ELSE memory[t]
        BY <1>4, <1>9
      <4>2. reader'[r] \in wider /\ Listed' \subseteq wider
        BY <1>1, <2>1, <3>1 DEF InView
      <4>3. ASSUME NEW t \in wider
            PROVE  /\ next'[t] \in wider \cup {None}
                   /\ \/ memory'[t] \in {"listed", "unlinked"}
                      \/ memory'[t] = "pending" /\ r \in waiting'[t]
        <5>1. CASE t = s
          BY <5>1, <4>1, <1>3, <2>1
        <5>2. CASE t # s
          <6>1. t \in view /\ t \in Structs /\ memory'[t] = memory[t]
            BY <5>2, <4>1
          <6>2. next'[t] \in {next[t], s} /\ next[t] \in view \cup {None}
            BY <6>1, <2>1, <3>1 DEF InView
          <6>3. \/ memory[t] \in {"listed", "unlinked"}
                \/ memory[t] = "pending" /\ r \in waiting[t]
            BY <6>1, <3>1 DEF InView
          <6> QED
            BY <6>1, <6>2, <6>3, <1>1
        <5> QED
          BY <5>1, <5>2
      <4> QED
        BY <4>2, <4>3 DEF InView
    <3>2. ASSUME NEW r \in ActiveReaders'
          PROVE  \E view \in SUBSET Structs : InView(r, view)'
      <4>1. r \in ActiveReaders
        BY <3>2, <1>1 DEF ActiveReaders
      <4>2. PICK view \in SUBSET Structs : InView(r, view)
        BY <4>1, <1>2 DEF ReadersAreSafe
      <4>3. view \cup {s} \in SUBSET Structs /\ InView(r, view \cup {s})'
        BY <4>1, <4>2, <3>1, <1>3
      <4> QED
        BY <4>3
    <3> QED
      BY <3>2 DEF ReadersAreSafe
  <2>4. Owned'
    BY <1>7, <1>9, <2>1
  <2> QED
    BY <1>5, <2>1, <2>2, <2>3, <2>4
<1> QED
  BY <1>8, <1>9 DEF RegisterInsert

-----------------------------------------------------------------------------
(***************************************************************************)
(* Unlinking, by unregister or by reclaim, and call_rcu                    *)
(***************************************************************************)
\* A reader at s, or on its way to it, still finds the rest of the list.
LEMMA UnlinkKeeps ==
    ASSUME ShrinkerInv, NEW s \in Listed, list_del_rcu(s), UNCHANGED <<intent, waiting, reader>>
    PROVE  /\ Linked' /\ ReadersAreSafe' /\ UniqueIds'
           /\ s \in Structs /\ Listed' = Listed \ {s} /\ memory[s] = "listed"
           /\ \A t \in Structs : memory'[t] = IF t = s THEN "unlinked" ELSE memory[t]
<1>1. TypeOK /\ Linked /\ Owned /\ ReadersAreSafe /\ UniqueIds
  BY DEF ShrinkerInv
<1>2. /\ Linked' /\ s \in Structs /\ Listed' = Listed \ {s}
      /\ \A t \in Structs : next'[t] \in {next[t], next[s]}
  BY <1>1, Unlinking
<1>3. memory[s] = "listed"
  BY <1>1, <1>2 DEF Owned
<1>4. \A t \in Structs : memory'[t] = IF t = s THEN "unlinked" ELSE memory[t]
  BY <1>1 DEF list_del_rcu, TypeOK
<1>5. UniqueIds'
  BY <1>1, <1>2, UniqueKept
<1>6. ReadersAreSafe'
  <2>1. ASSUME NEW r \in ActiveReaders, NEW view \in SUBSET Structs, InView(r, view)
        PROVE  InView(r, view)'
    <3>1. reader'[r] \in view /\ Listed' \subseteq view /\ s \in view
      BY <1>2, <2>1 DEF InView
    <3>2. ASSUME NEW t \in view
          PROVE  /\ next'[t] \in view \cup {None}
                 /\ \/ memory'[t] \in {"listed", "unlinked"}
                    \/ memory'[t] = "pending" /\ r \in waiting'[t]
      <4>1. next[t] \in view \cup {None} /\ next[s] \in view \cup {None}
        BY <3>1, <2>1 DEF InView
      <4>2. next'[t] \in {next[t], next[s]}
        BY <1>2
      <4>3. \/ memory[t] \in {"listed", "unlinked"}
            \/ memory[t] = "pending" /\ r \in waiting[t]
        BY <2>1 DEF InView
      <4>4. memory'[t] = IF t = s THEN "unlinked" ELSE memory[t]
        BY <1>4
      <4> QED
        BY <4>1, <4>2, <4>3, <4>4
    <3> QED
      BY <3>1, <3>2 DEF InView
  <2> QED
    BY <1>1, <2>1, SafeKept
<1> QED
  BY <1>2, <1>3, <1>4, <1>5, <1>6

\* An unregister call becomes the owner of what it unlinks.
LEMMA UnregisterUnlinkStep ==
    ASSUME ShrinkerInv, NEW c \in Callers, NEW id \in Ids, UnregisterUnlink(c, id)
    PROVE  Linked' /\ Owned' /\ Quiet' /\ ReadersAreSafe' /\ UniqueIds'
<1> DEFINE new(s) == [op |-> "unregister", struct |-> s]
<1>1. PICK s \in Listed : list_del_rcu(s) /\ call' = [call EXCEPT ![c] = new(s)]
  BY DEF UnregisterUnlink, kv_find_intent_locked
<1>2. /\ call[c] = Idle /\ "unregister" \in interfaces
      /\ UNCHANGED <<intent, waiting, scan, reader, interfaces, module>>
  BY DEF UnregisterUnlink
<1>3. TypeOK /\ Owned /\ Quiet
  BY DEF ShrinkerInv
<1>4. /\ Linked' /\ ReadersAreSafe' /\ UniqueIds'
      /\ s \in Structs /\ Listed' = Listed \ {s} /\ memory[s] = "listed"
      /\ \A t \in Structs : memory'[t] = IF t = s THEN "unlinked" ELSE memory[t]
  BY <1>1, <1>2, UnlinkKeeps
<1>5. \A d \in Callers : call'[d] = IF d = c THEN new(s) ELSE call[d]
  BY <1>1, <1>3 DEF TypeOK
<1>6. Quiet'
  BY <1>2, <1>3, <1>5 DEF Quiet
<1>7. Owned'
  <2>1. \A d \in Callers, t \in Structs :
            WriterHas(d, t)' <=> WriterHas(d, t) \/ (d = c /\ t = s)
    BY <1>2, <1>5 DEF WriterHas, Idle
  <2>2. \A l \in Reclaimers, t \in Structs : ReclaimerHas(l, t)' <=> ReclaimerHas(l, t)
    BY <1>2 DEF ReclaimerHas
  <2>3. /\ \A d \in Callers : ~ WriterHas(d, s) /\ call[d] # new(s)
        /\ \A l \in Reclaimers : ~ ReclaimerHas(l, s)
    <3>1. memory[s] # "unlinked"
      BY <1>4
    <3>2. /\ \A d \in Callers : ~ WriterHas(d, s)
          /\ \A l \in Reclaimers : ~ ReclaimerHas(l, s)
      BY <3>1, <1>3, <1>4 DEF Owned
    <3> QED
      BY <3>2 DEF WriterHas
  <2>4. \A t \in Structs : t \in Listed' <=> memory'[t] = "listed"
    BY <1>3, <1>4 DEF Owned
  <2>5. \A t \in Structs : memory'[t] = "private" <=>
            \E d \in Callers : call'[d].op = "register" /\ call'[d].struct = t
    BY <1>2, <1>3, <1>4, <1>5 DEF Owned, Idle
  <2>6. \A t \in Structs : memory'[t] = "unlinked" <=>
            (\E d \in Callers : WriterHas(d, t)') \/ (\E l \in Reclaimers : ReclaimerHas(l, t)')
    BY <1>3, <1>4, <2>1, <2>2 DEF Owned
  <2>7. \A d, e \in Callers : call'[d] = call'[e] /\ call'[d] # Idle => d = e
    BY <1>3, <1>5, <2>3 DEF Owned
  <2>8. /\ \A t \in Structs, d \in Callers, l \in Reclaimers :
               ~ (WriterHas(d, t)' /\ ReclaimerHas(l, t)')
        /\ \A t \in Structs, k, l \in Reclaimers :
               ReclaimerHas(k, t)' /\ ReclaimerHas(l, t)' => k = l
    BY <1>3, <2>1, <2>2, <2>3 DEF Owned
  <2> QED
    BY <2>4, <2>5, <2>6, <2>7, <2>8 DEF Owned
<1> QED
  BY <1>4, <1>6, <1>7

\* So does a scan: under the lock the struct was listed, hence nobody's.
LEMMA ScanUnlinkStep ==
    ASSUME ShrinkerInv, NEW k \in Reclaimers, ScanPick(k), NEW s \in Listed, list_del_rcu(s),
           scan' = [scan EXCEPT ![k].op = "unlinked", ![k].struct = s]
    PROVE  Linked' /\ Owned' /\ Quiet' /\ ReadersAreSafe' /\ UniqueIds'
<1>1. /\ scan[k].op = "pick"
      /\ UNCHANGED <<intent, waiting, call, reader, interfaces, module>>
  BY DEF ScanPick
<1>2. TypeOK /\ Owned /\ Quiet
  BY DEF ShrinkerInv
<1>3. /\ Linked' /\ ReadersAreSafe' /\ UniqueIds'
      /\ s \in Structs /\ Listed' = Listed \ {s} /\ memory[s] = "listed"
      /\ \A t \in Structs : memory'[t] = IF t = s THEN "unlinked" ELSE memory[t]
  BY <1>1, UnlinkKeeps
<1>4. /\ \A l \in Reclaimers \ {k} : scan'[l] = scan[l]
      /\ scan'[k].op = "unlinked" /\ scan'[k].struct = s
  <2>1. scan[k] \in [op : {"pick", "unlinked"}, struct : Structs \cup {None},
                     freed : 0 .. MaxScan - 1, nr_to_scan : 1 .. MaxScan]
    <3>1. scan[k] # ScanIdle
      BY <1>1 DEF ScanIdle
    <3> QED
      BY <1>2, <3>1 DEF TypeOK
  <2>2. DOMAIN scan = Reclaimers
    BY <1>2 DEF TypeOK
  <2> QED
    BY <2>1, <2>2
<1>5. Quiet'
  <2>1. "shrinker" \in interfaces
    BY <1>1, <1>2 DEF Quiet
  <2> QED
    BY <1>1, <1>2, <2>1 DEF Quiet
<1>6. Owned'
  <2>1. \A d \in Callers, t \in Structs : WriterHas(d, t)' <=> WriterHas(d, t)
    BY <1>1 DEF WriterHas
  <2>2. \A l \in Reclaimers, t \in Structs :
            ReclaimerHas(l, t)' <=> ReclaimerHas(l, t) \/ (l = k /\ t = s)
    BY <1>1, <1>4 DEF ReclaimerHas
  <2>3. /\ \A d \in Callers : ~ WriterHas(d, s)
        /\ \A l \in Reclaimers : ~ ReclaimerHas(l, s)
    <3>1. memory[s] # "unlinked"
      BY <1>3
    <3> QED
      BY <3>1, <1>2, <1>3 DEF Owned
  <2>4. \A t \in Structs : t \in Listed' <=> memory'[t] = "listed"
    BY <1>2, <1>3 DEF Owned
  <2>5. \A t \in Structs : memory'[t] = "private" <=>
            \E d \in Callers : call'[d].op = "register" /\ call'[d].struct = t
    BY <1>1, <1>2, <1>3 DEF Owned
  <2>6. \A t \in Structs : memory'[t] = "unlinked" <=>
            (\E d \in Callers : WriterHas(d, t)') \/ (\E l \in Reclaimers : ReclaimerHas(l, t)')
    BY <1>2, <1>3, <2>1, <2>2 DEF Owned
  <2>7. \A d, e \in Callers : call'[d] = call'[e] /\ call'[d] # Idle => d = e
    BY <1>1, <1>2 DEF Owned
  <2>8. \A t \in Structs, d \in Callers, l \in Reclaimers :
               ~ (WriterHas(d, t)' /\ ReclaimerHas(l, t)')
    BY <1>2, <2>1, <2>2, <2>3 DEF Owned
  <2>9. \A t \in Structs, j, l \in Reclaimers :
               ReclaimerHas(j, t)' /\ ReclaimerHas(l, t)' => j = l
    BY <1>2, <2>2, <2>3 DEF Owned
  <2> QED
    BY <2>4, <2>5, <2>6, <2>7, <2>8, <2>9 DEF Owned
<1> QED
  BY <1>3, <1>5, <1>6

\* The grace period waits for every reader that may still get to s.
LEMMA CallRcuKeeps ==
    ASSUME ShrinkerInv, NEW s \in Structs, memory[s] = "unlinked", call_rcu(s),
           UNCHANGED <<registry, reader>>
    PROVE  /\ Linked' /\ ReadersAreSafe' /\ UniqueIds'
           /\ Listed' = Listed
           /\ \A t \in Structs : memory'[t] = IF t = s THEN "pending" ELSE memory[t]
<1>1. TypeOK /\ Linked /\ Owned /\ ReadersAreSafe /\ UniqueIds
  BY DEF ShrinkerInv
<1>2. /\ \A t \in Structs : memory'[t] = IF t = s THEN "pending" ELSE memory[t]
      /\ \A t \in Structs : waiting'[t] = IF t = s THEN ActiveReaders ELSE waiting[t]
      /\ UNCHANGED <<next, intent>>
  BY <1>1 DEF call_rcu, TypeOK
<1>3. Listed' = Listed
  BY DEF Listed
<1>4. Linked'
  BY <1>1, <1>2, LinkedKept
<1>5. UniqueIds'
  BY <1>1, <1>2, <1>3, UniqueKept
<1>6. ReadersAreSafe'
  <2>1. ASSUME NEW r \in ActiveReaders, NEW view \in SUBSET Structs, InView(r, view)
        PROVE  InView(r, view)'
    BY <1>2, <1>3, <2>1 DEF InView
  <2> QED
    BY <1>1, <2>1, SafeKept
<1> QED
  BY <1>2, <1>3, <1>4, <1>5, <1>6

\* Only the writer that unlinked the struct hands it to call_rcu.
LEMMA UnregisterCallRcuStep ==
    ASSUME ShrinkerInv, NEW c \in Callers, UnregisterCallRcu(c),
           NEW s \in Structs, s = call[c].struct
    PROVE  Linked' /\ Owned' /\ Quiet' /\ ReadersAreSafe' /\ UniqueIds'
<1>1. /\ call[c].op = "unregister" /\ call_rcu(s) /\ call' = [call EXCEPT ![c] = Idle]
      /\ UNCHANGED <<registry, scan, reader, unseen, interfaces, module>>
  BY DEF UnregisterCallRcu
<1>2. TypeOK /\ Owned /\ Quiet
  BY DEF ShrinkerInv
<1>3. WriterHas(c, s) /\ memory[s] = "unlinked"
  BY <1>1, <1>2 DEF Owned, WriterHas
<1>4. /\ Linked' /\ ReadersAreSafe' /\ UniqueIds' /\ Listed' = Listed
      /\ \A t \in Structs : memory'[t] = IF t = s THEN "pending" ELSE memory[t]
  BY <1>1, <1>3, CallRcuKeeps
<1>5. \A d \in Callers : call'[d] = IF d = c THEN Idle ELSE call[d]
  BY <1>1, <1>2 DEF TypeOK
<1>6. Quiet'
  BY <1>1, <1>2, <1>5 DEF Quiet, Idle
<1>7. Owned'
  <2>1. ASSUME NEW d \in Callers, WriterHas(d, s)
        PROVE  d = c
    <3>1. call[d] # Idle /\ call[c] # Idle
      BY <1>1, <2>1 DEF Idle, WriterHas
    <3>2. /\ call[d] \in [op : {"register", "unregister"}, struct : Structs]
          /\ call[c] \in [op : {"register", "unregister"}, struct : Structs]
      BY <1>2, <3>1 DEF TypeOK
    <3>3. call[d] = call[c]
      BY <1>3, <2>1, <3>2 DEF WriterHas
    <3> QED
      BY <1>2, <3>1, <3>3 DEF Owned
  <2>2. \A d \in Callers, t \in Structs : WriterHas(d, t)' <=> WriterHas(d, t) /\ t # s
    BY <1>3, <1>5, <2>1 DEF WriterHas, Idle
  <2>3. \A l \in Reclaimers, t \in Structs : ReclaimerHas(l, t)' <=> ReclaimerHas(l, t)
    BY <1>1 DEF ReclaimerHas
  <2>4. \A l \in Reclaimers : ~ ReclaimerHas(l, s)
    BY <1>2, <1>3 DEF Owned
  <2>5. \A t \in Structs : t \in Listed' <=> memory'[t] = "listed"
    BY <1>2, <1>3, <1>4 DEF Owned
  <2>6. \A t \in Structs : memory'[t] = "private" <=>
            \E d \in Callers : call'[d].op = "register" /\ call'[d].struct = t
    BY <1>1, <1>2, <1>3, <1>4, <1>5 DEF Owned, Idle
  <2>7. \A t \in Structs : memory'[t] = "unlinked" <=>
            (\E d \in Callers : WriterHas(d, t)') \/ (\E l \in Reclaimers : ReclaimerHas(l, t)')
    BY <1>2, <1>4, <2>2, <2>3, <2>4 DEF Owned
  <2>8. \A d, e \in Callers : call'[d] = call'[e] /\ call'[d] # Idle => d = e
    BY <1>2, <1>5 DEF Owned
  <2>9. /\ \A t \in Structs, d \in Callers, l \in Reclaimers :
               ~ (WriterHas(d, t)' /\ ReclaimerHas(l, t)')
        /\ \A t \in Structs, k, l \in Reclaimers :
               ReclaimerHas(k, t)' /\ ReclaimerHas(l, t)' => k = l
    BY <1>2, <2>2, <2>3 DEF Owned
  <2> QED
    BY <2>5, <2>6, <2>7, <2>8, <2>9 DEF Owned
<1> QED
  BY <1>4, <1>6, <1>7

\* Only the scan that unlinked the struct hands it to call_rcu.
LEMMA ScanCallRcuStep ==
    ASSUME ShrinkerInv, NEW k \in Reclaimers, ScanCallRcu(k),
           NEW s \in Structs, s = scan[k].struct
    PROVE  Linked' /\ Owned' /\ Quiet' /\ ReadersAreSafe' /\ UniqueIds'
<1>1. /\ scan[k].op = "unlinked" /\ call_rcu(s)
      /\ UNCHANGED <<registry, call, reader, unseen, interfaces, module>>
  BY DEF ScanCallRcu
<1>2. TypeOK /\ Owned /\ Quiet
  BY DEF ShrinkerInv
<1>3. ReclaimerHas(k, s) /\ memory[s] = "unlinked"
  BY <1>1, <1>2 DEF Owned, ReclaimerHas
<1>4. /\ Linked' /\ ReadersAreSafe' /\ UniqueIds' /\ Listed' = Listed
      /\ \A t \in Structs : memory'[t] = IF t = s THEN "pending" ELSE memory[t]
  BY <1>1, <1>3, CallRcuKeeps
<1>5. /\ \A l \in Reclaimers \ {k} : scan'[l] = scan[l]
      /\ scan'[k].op \in {"idle", "pick"}
  <2>1. scan[k] \in [op : {"pick", "unlinked"}, struct : Structs \cup {None},
                     freed : 0 .. MaxScan - 1, nr_to_scan : 1 .. MaxScan]
    <3>1. scan[k] # ScanIdle
      BY <1>1 DEF ScanIdle
    <3> QED
      BY <1>2, <3>1 DEF TypeOK
  <2>2. DOMAIN scan = Reclaimers
    BY <1>2 DEF TypeOK
  <2>3. ScanIdle.op = "idle"
    BY DEF ScanIdle
  <2>4. scan' = [scan EXCEPT ![k] =
                    IF scan[k].freed + 1 = scan[k].nr_to_scan THEN ScanIdle
                    ELSE [scan[k] EXCEPT !.op = "pick", !.struct = None,
                                         !.freed = scan[k].freed + 1]]
    BY DEF ScanCallRcu
  <2> QED
    BY <2>1, <2>2, <2>3, <2>4
<1>6. Quiet'
  <2>1. "shrinker" \in interfaces
    BY <1>1, <1>2 DEF Quiet
  <2> QED
    BY <1>1, <1>2, <2>1 DEF Quiet
<1>7. Owned'
  <2>1. \A d \in Callers, t \in Structs : WriterHas(d, t)' <=> WriterHas(d, t)
    BY <1>1 DEF WriterHas
  <2>2. \A l \in Reclaimers, t \in Structs :
            ReclaimerHas(l, t)' <=> ReclaimerHas(l, t) /\ t # s
    <3>1. \A l \in Reclaimers : ReclaimerHas(l, s) => l = k
      BY <1>2, <1>3 DEF Owned
    <3>2. \A t \in Structs : ReclaimerHas(k, t) => t = s
      BY <1>3 DEF ReclaimerHas
    <3>3. \A t \in Structs : ~ ReclaimerHas(k, t)'
      BY <1>5 DEF ReclaimerHas
    <3>4. \A l \in Reclaimers \ {k}, t \in Structs : ReclaimerHas(l, t)' <=> ReclaimerHas(l, t)
      BY <1>5 DEF ReclaimerHas
    <3> QED
      BY <3>1, <3>2, <3>3, <3>4
  <2>3. \A d \in Callers : ~ WriterHas(d, s)
    BY <1>2, <1>3 DEF Owned
  <2>4. \A t \in Structs : t \in Listed' <=> memory'[t] = "listed"
    BY <1>2, <1>3, <1>4 DEF Owned
  <2>5. \A t \in Structs : memory'[t] = "private" <=>
            \E d \in Callers : call'[d].op = "register" /\ call'[d].struct = t
    BY <1>1, <1>2, <1>3, <1>4 DEF Owned
  <2>6. \A t \in Structs : memory'[t] = "unlinked" <=>
            (\E d \in Callers : WriterHas(d, t)') \/ (\E l \in Reclaimers : ReclaimerHas(l, t)')
    BY <1>2, <1>4, <2>1, <2>2, <2>3 DEF Owned
  <2>7. \A d, e \in Callers : call'[d] = call'[e] /\ call'[d] # Idle => d = e
    BY <1>1, <1>2 DEF Owned
  <2>8. /\ \A t \in Structs, d \in Callers, l \in Reclaimers :
               ~ (WriterHas(d, t)' /\ ReclaimerHas(l, t)')
        /\ \A t \in Structs, j, l \in Reclaimers :
               ReclaimerHas(j, t)' /\ ReclaimerHas(l, t)' => j = l
    BY <1>2, <2>1, <2>2 DEF Owned
  <2> QED
    BY <2>4, <2>5, <2>6, <2>7, <2>8 DEF Owned
<1> QED
  BY <1>4, <1>6, <1>7

-----------------------------------------------------------------------------
(***************************************************************************)
(* The readers, the end of a grace period and the scans                    *)
(***************************************************************************)
\* Ownership stays where no scan takes or gives up a struct.
LEMMA OwnedKept ==
    ASSUME Owned, UNCHANGED <<registry, memory, call>>,
           \A l \in Reclaimers, t \in Structs : ReclaimerHas(l, t)' <=> ReclaimerHas(l, t)
    PROVE  Owned'
<1>1. \A d \in Callers, t \in Structs : WriterHas(d, t)' <=> WriterHas(d, t)
  BY DEF WriterHas
<1>2. Listed' = Listed
  BY DEF Listed
<1>3. \A t \in Structs : t \in Listed' <=> memory'[t] = "listed"
  BY <1>2 DEF Owned
<1>4. \A t \in Structs : memory'[t] = "private" <=>
          \E d \in Callers : call'[d].op = "register" /\ call'[d].struct = t
  BY DEF Owned
<1>5. \A t \in Structs : memory'[t] = "unlinked" <=>
          (\E d \in Callers : WriterHas(d, t)') \/ (\E l \in Reclaimers : ReclaimerHas(l, t)')
  BY <1>1 DEF Owned
<1>6. \A d, e \in Callers : call'[d] = call'[e] /\ call'[d] # Idle => d = e
  BY DEF Owned
<1>7. /\ \A t \in Structs, d \in Callers, l \in Reclaimers :
             ~ (WriterHas(d, t)' /\ ReclaimerHas(l, t)')
      /\ \A t \in Structs, j, l \in Reclaimers :
             ReclaimerHas(j, t)' /\ ReclaimerHas(l, t)' => j = l
  BY <1>1 DEF Owned
<1> QED
  BY <1>3, <1>4, <1>5, <1>6, <1>7 DEF Owned

\* A reader that starts may reach all that is listed, and nothing that is pending.
LEMMA StatusBeginStep ==
    ASSUME ShrinkerInv, NEW r \in Readers, StatusBegin(r)
    PROVE  Linked' /\ Owned' /\ Quiet' /\ ReadersAreSafe' /\ UniqueIds'
<1>1. /\ reader[r] = None /\ "status" \in interfaces /\ registry # <<>>
      /\ reader' = [reader EXCEPT ![r] = Head(registry)]
      /\ UNCHANGED <<registry, next, memory, intent, waiting, call, scan, interfaces, module>>
  BY DEF StatusBegin, lists
<1>2. TypeOK /\ Linked /\ Owned /\ Quiet /\ ReadersAreSafe /\ UniqueIds
  BY DEF ShrinkerInv
<1>3. Listed' = Listed
  BY <1>1 DEF Listed
<1>4. Linked' /\ UniqueIds'
  BY <1>1, <1>2, <1>3, LinkedKept, UniqueKept
<1>5. Owned'
  BY <1>1, <1>2, OwnedKept DEF ReclaimerHas
<1>6. \A q \in Readers : reader'[q] = IF q = r THEN Head(registry) ELSE reader[q]
  BY <1>1, <1>2 DEF TypeOK
<1>7. Quiet'
  BY <1>1, <1>2 DEF Quiet
<1>8. Listed \in SUBSET Structs /\ InView(r, Listed)'
  <2>1. /\ registry \in Seq(Structs) /\ Len(registry) \in Nat
        /\ DOMAIN registry = 1 .. Len(registry)
    BY <1>2 DEF TypeOK
  <2>2. Listed \in SUBSET Structs
    BY <2>1, ListedIsRange
  <2>3. Head(registry) \in Listed
    <3>1. Head(registry) = registry[1] /\ 1 \in DOMAIN registry
      BY <1>1, <2>1
    <3> QED
      BY <3>1, ListedIsRange
  <2>4. ASSUME NEW t \in Listed
        PROVE  next[t] \in Listed \cup {None} /\ memory[t] = "listed"
    <3>1. PICK i \in 1 .. Len(registry) : registry[i] = t
      BY <2>1, ListedIsRange
    <3>2. next[t] = IF i = Len(registry) THEN None ELSE registry[i + 1]
      BY <3>1, <1>2 DEF Linked
    <3>3. i # Len(registry) => i + 1 \in DOMAIN registry
      <4> DEFINE n == Len(registry)
      <4>1. n \in Nat /\ i \in 1 .. n /\ DOMAIN registry = 1 .. n
        BY <2>1, <3>1
      <4> HIDE DEF n
      <4>2. i # n => i + 1 \in 1 .. n
        BY <4>1
      <4> QED
        BY <4>1, <4>2 DEF n
    <3> QED
      <4>1. t \in Structs /\ memory[t] = "listed"
        BY <2>2, <1>2 DEF Owned
      <4>2. i # Len(registry) => registry[i + 1] \in Listed
        BY <3>3, ListedIsRange
      <4> QED
        BY <3>2, <4>1, <4>2
  <2>5. reader'[r] \in Listed
    BY <1>6, <2>3
  <2> QED
    BY <1>1, <1>3, <2>2, <2>4, <2>5 DEF InView
<1>9. ReadersAreSafe'
  <2>1. ASSUME NEW q \in ActiveReaders', q # r
        PROVE  \E view \in SUBSET Structs : InView(q, view)'
    <3>1. q \in ActiveReaders /\ reader'[q] = reader[q]
      BY <1>6, <2>1 DEF ActiveReaders
    <3>2. PICK view \in SUBSET Structs : InView(q, view)
      BY <3>1, <1>2 DEF ReadersAreSafe
    <3>3. InView(q, view)'
      BY <1>1, <1>3, <3>1, <3>2 DEF InView
    <3> QED
      BY <3>3
  <2>2. \E view \in SUBSET Structs : InView(r, view)'
    <3>1. Listed' \in SUBSET Structs
      BY <1>3, <1>8
    <3>2. PICK view \in SUBSET Structs : view = Listed
      BY <1>8
    <3>3. InView(r, view)'
      BY <1>3, <1>8, <3>2 DEF InView
    <3> QED
      BY <3>3
  <2> QED
    BY <2>1, <2>2 DEF ReadersAreSafe
<1> QED
  BY <1>4, <1>5, <1>7, <1>9

\* A reader that moves on stays in its view, which is closed under next.
LEMMA StatusNextStep ==
    ASSUME ShrinkerInv, NEW r \in Readers, StatusNext(r)
    PROVE  Linked' /\ Owned' /\ Quiet' /\ ReadersAreSafe' /\ UniqueIds'
<1>1. /\ reader[r] # None
      /\ reader' = [reader EXCEPT ![r] = next[reader[r]]]
      /\ UNCHANGED <<registry, next, memory, intent, call, scan, interfaces, module>>
      /\ waiting' = IF next[reader[r]] # None THEN waiting
                    ELSE [s \in Structs |-> waiting[s] \ {r}]
  BY DEF StatusNext, lists
<1>2. TypeOK /\ Linked /\ Owned /\ Quiet /\ ReadersAreSafe /\ UniqueIds
  BY DEF ShrinkerInv
<1>3. Listed' = Listed
  BY <1>1 DEF Listed
<1>4. Linked' /\ UniqueIds'
  BY <1>1, <1>2, <1>3, LinkedKept, UniqueKept
<1>5. Owned'
  BY <1>1, <1>2, OwnedKept DEF ReclaimerHas
<1>6. \A q \in Readers : reader'[q] = IF q = r THEN next[reader[r]] ELSE reader[q]
  BY <1>1, <1>2 DEF TypeOK
<1>7. Quiet'
  <2>1. "status" \in interfaces
    BY <1>1, <1>2 DEF Quiet
  <2> QED
    BY <1>1, <1>2, <2>1 DEF Quiet
<1>8. ASSUME NEW q \in ActiveReaders'
      PROVE  \E view \in SUBSET Structs : InView(q, view)'
  <2>1. q \in ActiveReaders
    BY <1>1, <1>6 DEF ActiveReaders
  <2>2. PICK view \in SUBSET Structs : InView(q, view)
    BY <2>1, <1>2 DEF ReadersAreSafe
  <2>3. reader'[q] # None
    BY DEF ActiveReaders
  <2>4. reader'[q] \in view
    BY <1>6, <2>1, <2>2, <2>3 DEF InView, ActiveReaders
  <2>5. \A s \in Structs : q \in waiting[s] => q \in waiting'[s]
    BY <1>1, <1>6, <2>1, <2>3 DEF ActiveReaders
  <2>6. InView(q, view)'
    BY <1>1, <1>3, <2>2, <2>4, <2>5 DEF InView
  <2> QED
    BY <2>6
<1> QED
  BY <1>4, <1>5, <1>7, <1>8 DEF ReadersAreSafe

\* No reader that is left can get to a struct whose grace period has ended.
LEMMA FreeStep ==
    ASSUME ShrinkerInv, NEW s \in Structs, kv_free_intent_rcu(s)
    PROVE  Linked' /\ Owned' /\ Quiet' /\ ReadersAreSafe' /\ UniqueIds'
<1>1. /\ memory[s] = "pending" /\ waiting[s] = {}
      /\ UNCHANGED <<registry, waiting, call, scan, reader, unseen, interfaces, module>>
  BY DEF kv_free_intent_rcu, tasks
<1>2. TypeOK /\ Linked /\ Owned /\ Quiet /\ ReadersAreSafe /\ UniqueIds
  BY DEF ShrinkerInv
<1>3. /\ \A t \in Structs : memory'[t] = IF t = s THEN "free" ELSE memory[t]
      /\ \A t \in Structs : next'[t] = IF t = s THEN None ELSE next[t]
      /\ \A t \in Structs : t # s => intent'[t] = intent[t]
  BY <1>2 DEF kv_free_intent_rcu, TypeOK
<1>4. Listed' = Listed /\ s \notin Listed /\ Listed \in SUBSET Structs
  BY <1>1, <1>2, ListedIsRange DEF Listed, Owned, TypeOK
<1>5. UniqueIds'
  BY <1>2, <1>3, <1>4, UniqueKept
<1>6. Linked'
  <2>1. \A i \in 1 .. Len(registry) : registry[i] \in Structs /\ registry[i] # s
    BY <1>2, <1>4, ListedIsRange DEF TypeOK
  <2> QED
    BY <1>1, <1>2, <1>3, <2>1 DEF Linked
<1>7. Quiet'
  BY <1>1, <1>2 DEF Quiet
<1>8. ReadersAreSafe'
  <2>1. ASSUME NEW r \in ActiveReaders, NEW view \in SUBSET Structs, InView(r, view)
        PROVE  InView(r, view)'
    <3>1. s \notin view
      BY <1>1, <2>1 DEF InView
    <3> QED
      BY <1>1, <1>3, <1>4, <2>1, <3>1 DEF InView
  <2> QED
    BY <1>1, <1>2, <2>1, SafeKept
<1>9. Owned'
  <2>1. \A d \in Callers, t \in Structs : WriterHas(d, t)' <=> WriterHas(d, t)
    BY <1>1 DEF WriterHas
  <2>2. \A l \in Reclaimers, t \in Structs : ReclaimerHas(l, t)' <=> ReclaimerHas(l, t)
    BY <1>1 DEF ReclaimerHas
  <2>3. \A t \in Structs : t \in Listed' <=> memory'[t] = "listed"
    BY <1>1, <1>2, <1>3, <1>4 DEF Owned
  <2>4. \A t \in Structs : memory'[t] = "private" <=>
            \E d \in Callers : call'[d].op = "register" /\ call'[d].struct = t
    BY <1>1, <1>2, <1>3 DEF Owned
  <2>5. \A t \in Structs : memory'[t] = "unlinked" <=>
            (\E d \in Callers : WriterHas(d, t)') \/ (\E l \in Reclaimers : ReclaimerHas(l, t)')
    BY <1>1, <1>2, <1>3, <2>1, <2>2 DEF Owned
  <2>6. \A d, e \in Callers : call'[d] = call'[e] /\ call'[d] # Idle => d = e
    BY <1>1, <1>2 DEF Owned
  <2>7. /\ \A t \in Structs, d \in Callers, l \in Reclaimers :
               ~ (WriterHas(d, t)' /\ ReclaimerHas(l, t)')
        /\ \A t \in Structs, j, l \in Reclaimers :
               ReclaimerHas(j, t)' /\ ReclaimerHas(l, t)' => j = l
    BY <1>2, <2>1, <2>2 DEF Owned
  <2> QED
    BY <2>3, <2>4, <2>5, <2>6, <2>7 DEF Owned
<1> QED
  BY <1>5, <1>6, <1>7, <1>8, <1>9

\* A scan that begins has no struct, and one that ends had none.
LEMMA ScanFrameStep ==
    ASSUME ShrinkerInv, NEW k \in Reclaimers, NEW x,
           scan' = [scan EXCEPT ![k] = x], x.op # "unlinked",
           scan[k].op # "unlinked", "shrinker" \in interfaces,
           UNCHANGED <<registry, next, memory, intent, waiting, call, reader, interfaces, module>>
    PROVE  Linked' /\ Owned' /\ Quiet' /\ ReadersAreSafe' /\ UniqueIds'
<1>1. TypeOK /\ Linked /\ Owned /\ Quiet /\ ReadersAreSafe /\ UniqueIds
  BY DEF ShrinkerInv
<1>2. Listed' = Listed
  BY DEF Listed
<1>3. \A l \in Reclaimers : scan'[l] = IF l = k THEN x ELSE scan[l]
  BY <1>1 DEF TypeOK
<1>4. Owned'
  BY <1>1, <1>3, OwnedKept DEF ReclaimerHas
<1>5. Linked' /\ UniqueIds'
  BY <1>1, <1>2, LinkedKept, UniqueKept
<1>6. Quiet'
  BY <1>1 DEF Quiet
<1>7. ReadersAreSafe'
  BY <1>1, <1>2, SafeKept DEF InView
<1> QED
  BY <1>4, <1>5, <1>6, <1>7

\* The steps of a scan.
LEMMA ReclaimerStep ==
    ASSUME ShrinkerInv, NEW k \in Reclaimers, NEW n \in 1 .. MaxScan,
           ScanBegin(k, n) \/ ScanPick(k) \/ ScanCallRcu(k)
    PROVE  Linked' /\ Owned' /\ Quiet' /\ ReadersAreSafe' /\ UniqueIds'
<1>1. CASE ScanBegin(k, n)
  <2> DEFINE x == [op |-> "pick", struct |-> None, freed |-> 0, nr_to_scan |-> n]
  <2>1. /\ scan' = [scan EXCEPT ![k] = x]
        /\ scan[k].op # "unlinked" /\ "shrinker" \in interfaces
        /\ UNCHANGED <<registry, next, memory, intent, waiting, call, reader, interfaces, module>>
    BY <1>1 DEF ScanBegin, lists
  <2>2. x.op # "unlinked"
    OBVIOUS
  <2> HIDE DEF x
  <2> QED
    BY <2>1, <2>2, ScanFrameStep
<1>2. ASSUME ScanPick(k), NEW s \in Listed, list_del_rcu(s),
             scan' = [scan EXCEPT ![k].op = "unlinked", ![k].struct = s]
      PROVE  Linked' /\ Owned' /\ Quiet' /\ ReadersAreSafe' /\ UniqueIds'
  BY <1>2, ScanUnlinkStep
<1>3. ASSUME ScanPick(k), scan' = [scan EXCEPT ![k] = ScanIdle],
             UNCHANGED <<registry, next, memory, unseen>>
      PROVE  Linked' /\ Owned' /\ Quiet' /\ ReadersAreSafe' /\ UniqueIds'
  <2>1. /\ scan[k].op = "pick"
        /\ UNCHANGED <<intent, waiting, call, reader, interfaces, module>>
    BY <1>3 DEF ScanPick
  <2>2. "shrinker" \in interfaces
    BY <2>1 DEF ShrinkerInv, Quiet
  <2>3. ScanIdle.op # "unlinked"
    BY DEF ScanIdle
  <2> QED
    BY <1>3, <2>1, <2>2, <2>3, ScanFrameStep
<1>4. CASE ScanCallRcu(k)
  <2>1. \E s \in Structs : s = scan[k].struct
    BY <1>4 DEF ShrinkerInv, TypeOK, ScanCallRcu
  <2> QED
    BY <1>4, <2>1, ScanCallRcuStep
<1> QED
  BY <1>1, <1>2, <1>3, <1>4 DEF ScanPick

-----------------------------------------------------------------------------
(***************************************************************************)
(* insmod and rmmod                                                        *)
(***************************************************************************)
\* A step of the module's own code that leaves the intents and the tasks alone.
LEMMA ModuleFrame ==
    ASSUME ShrinkerInv, UNCHANGED <<lists, waiting, tasks>>
    PROVE  Linked' /\ Owned' /\ ReadersAreSafe' /\ UniqueIds'
<1>1. UNCHANGED <<registry, next, memory, intent, waiting, call, scan, reader>>
  BY DEF lists, tasks
<1>2. Linked /\ Owned /\ ReadersAreSafe /\ UniqueIds
  BY DEF ShrinkerInv
<1>3. Listed' = Listed
  BY <1>1 DEF Listed
<1>4. Linked' /\ UniqueIds'
  BY <1>1, <1>2, <1>3, LinkedKept, UniqueKept
<1>5. Owned'
  BY <1>1, <1>2, OwnedKept DEF ReclaimerHas
<1>6. ReadersAreSafe'
  BY <1>1, <1>2, <1>3, SafeKept DEF InView
<1> QED
  BY <1>4, <1>5, <1>6

\* An interface goes only when no call behind it is under way.
LEMMA QuietModule ==
    ASSUME ShrinkerInv, CallbackAfterUnload \/ Load \/ ExitBegin \/ RemoveInterface \/ ExitSynchronize
    PROVE  Quiet' /\ UNCHANGED <<lists, waiting, tasks>>
<1>1. Quiet
  BY DEF ShrinkerInv
<1>2. UNCHANGED <<lists, waiting, tasks>>
  BY DEF CallbackAfterUnload, Load, LoadNext, LoadFails, LoadFailed, ExitBegin,
         RemoveInterface, ExitSynchronize
<1>3. UNCHANGED <<registry, call, scan, reader>>
  BY <1>2 DEF lists, tasks
<1>4. CASE RemoveInterface
  <2>1. /\ interfaces' = interfaces \ {Removable} /\ ~ InFlight(Removable)
        /\ UNCHANGED module /\ module \in {"failing", "exiting"}
    BY <1>4 DEF RemoveInterface
  <2>2. Removable = "shrinker" => \A k \in Reclaimers : scan[k].op = "idle"
    BY <2>1 DEF InFlight
  <2>3. Removable = "status" => \A r \in Readers : reader[r] = None
    BY <2>1 DEF InFlight, ActiveReaders
  <2>4. Removable = "register" => \A c \in Callers : call[c].op # "register"
    BY <2>1 DEF InFlight
  <2>5. Removable = "unregister" => \A c \in Callers : call[c].op # "unregister"
    BY <2>1 DEF InFlight
  <2> HIDE DEF Removable
  <2> QED
    BY <1>1, <1>2, <1>3, <2>1, <2>2, <2>3, <2>4, <2>5 DEF Quiet
<1>5. CASE LoadNext
  <2> DEFINE missing == {i \in 1 .. 4 : Interfaces[i] \notin interfaces}
             added == Interfaces[CHOOSE i \in missing : \A j \in missing : j <= i]
  <2>1. /\ module = "loading" /\ interfaces' = interfaces \cup {added}
        /\ module' = IF added = "shrinker" THEN "loaded" ELSE "loading"
    BY <1>5 DEF LoadNext
  <2> HIDE DEF added
  <2> QED
    BY <1>1, <1>2, <1>3, <2>1 DEF Quiet
<1>6. CASE CallbackAfterUnload \/ LoadFails \/ LoadFailed \/ ExitBegin
  BY <1>1, <1>3, <1>6 DEF Quiet, CallbackAfterUnload, LoadFails, LoadFailed, ExitBegin
<1>7. CASE ExitSynchronize
  BY <1>1, <1>3, <1>7 DEF Quiet, ExitSynchronize
<1> QED
  BY <1>2, <1>4, <1>5, <1>6, <1>7 DEF Load

\* Behind the last interface nobody is left who could see the list.
LEMMA FreeAllStep ==
    ASSUME ShrinkerInv, kv_free_all_intents
    PROVE  Linked' /\ Owned' /\ Quiet' /\ ReadersAreSafe' /\ UniqueIds'
<1>1. /\ interfaces = {} /\ registry' = <<>> /\ module' = "freed"
      /\ memory' = [s \in Structs |-> IF s \in Listed THEN "free" ELSE memory[s]]
      /\ next' = [s \in Structs |-> IF s \in Listed THEN None ELSE next[s]]
      /\ UNCHANGED <<waiting, call, scan, reader, unseen, interfaces>>
  BY DEF kv_free_all_intents, tasks
<1>2. TypeOK /\ Linked /\ Owned /\ Quiet
  BY DEF ShrinkerInv
<1>3. /\ \A k \in Reclaimers : scan[k].op = "idle"
      /\ \A r \in Readers : reader[r] = None
      /\ \A c \in Callers : call[c].op # "register" /\ call[c].op # "unregister"
  BY <1>1, <1>2 DEF Quiet
<1>4. Listed' = {}
  BY <1>1 DEF Listed, Range
<1>5. Linked' /\ UniqueIds'
  BY <1>1, <1>2, <1>4 DEF Linked, UniqueIds
<1>6. Quiet' /\ ReadersAreSafe'
  BY <1>1, <1>3 DEF Quiet, ReadersAreSafe, ActiveReaders
<1>7. Owned'
  <2>1. /\ \A d \in Callers, t \in Structs : ~ WriterHas(d, t) /\ ~ WriterHas(d, t)'
        /\ \A l \in Reclaimers, t \in Structs : ~ ReclaimerHas(l, t) /\ ~ ReclaimerHas(l, t)'
    BY <1>1, <1>3 DEF WriterHas, ReclaimerHas
  <2>2. \A t \in Structs : memory'[t] \notin {"listed", "private", "unlinked"}
    <3>1. \A t \in Structs : /\ t \in Listed <=> memory[t] = "listed"
                             /\ memory[t] # "private" /\ memory[t] # "unlinked"
      BY <1>2, <1>3, <2>1 DEF Owned
    <3> QED
      BY <1>1, <3>1
  <2>3. \A d, e \in Callers : call'[d] = call'[e] /\ call'[d] # Idle => d = e
    BY <1>1, <1>2 DEF Owned
  <2> QED
    BY <1>1, <1>3, <1>4, <2>1, <2>2, <2>3 DEF Owned
<1> QED
  BY <1>5, <1>6, <1>7

-----------------------------------------------------------------------------
(***************************************************************************)
(* The theorems                                                            *)
(***************************************************************************)
\* Every step of the module, its callers and RCU keeps the invariant.
LEMMA ShrinkerInvStep ==
    ASSUME ShrinkerInv, [Next]_vars
    PROVE  ShrinkerInv'
<1>1. ASSUME NEW c \in Callers,
             \/ \E id \in Ids, p \in Priorities : RegisterAlloc(c, id, p)
             \/ \E id \in Ids : UnregisterUnlink(c, id)
             \/ RegisterInsert(c) \/ UnregisterCallRcu(c)
      PROVE  ShrinkerInv'
  <2>1. TypeOK'
    BY <1>1, TypeWriters
  <2>2. CASE \E id \in Ids, p \in Priorities : RegisterAlloc(c, id, p)
    BY <2>1, <2>2, RegisterAllocStep DEF ShrinkerInv
  <2>3. CASE \E id \in Ids : UnregisterUnlink(c, id)
    BY <2>1, <2>3, UnregisterUnlinkStep DEF ShrinkerInv
  <2>4. CASE RegisterInsert(c)
    <3>1. \E s \in Structs : s = call[c].struct
      BY <2>4 DEF ShrinkerInv, TypeOK, RegisterInsert, Idle
    <3> QED
      BY <2>1, <2>4, <3>1, RegisterInsertStep DEF ShrinkerInv
  <2>5. CASE UnregisterCallRcu(c)
    <3>1. \E s \in Structs : s = call[c].struct
      BY <2>5 DEF ShrinkerInv, TypeOK, UnregisterCallRcu, Idle
    <3> QED
      BY <2>1, <2>5, <3>1, UnregisterCallRcuStep DEF ShrinkerInv
  <2> QED
    BY <1>1, <2>2, <2>3, <2>4, <2>5
<1>2. ASSUME NEW r \in Readers, StatusBegin(r) \/ StatusNext(r)
      PROVE  ShrinkerInv'
  <2>1. TypeOK'
    BY <1>2, TypeReaders
  <2> QED
    BY <1>2, <2>1, StatusBeginStep, StatusNextStep DEF ShrinkerInv
<1>3. ASSUME NEW k \in Reclaimers, NEW n \in 1 .. MaxScan,
             ScanBegin(k, n) \/ ScanPick(k) \/ ScanCallRcu(k)
      PROVE  ShrinkerInv'
  BY <1>3, TypeReclaimers, ReclaimerStep DEF ShrinkerInv
<1>4. ASSUME NEW s \in Structs, kv_free_intent_rcu(s)
      PROVE  ShrinkerInv'
  <2>1. TypeOK'
    BY <1>4, TypeReaders
  <2> QED
    BY <1>4, <2>1, FreeStep DEF ShrinkerInv
<1>5. CASE CallbackAfterUnload \/ Load \/ ExitBegin \/ RemoveInterface \/ ExitSynchronize
  <2>1. TypeOK'
    BY <1>5, TypeModule DEF Exit
  <2>2. Quiet' /\ UNCHANGED <<lists, waiting, tasks>>
    BY <1>5, QuietModule
  <2> QED
    BY <2>1, <2>2, ModuleFrame DEF ShrinkerInv
<1>6. CASE kv_free_all_intents
  <2>1. TypeOK'
    BY <1>6, TypeModule DEF Exit
  <2> QED
    BY <1>6, <2>1, FreeAllStep DEF ShrinkerInv
<1>7. CASE UNCHANGED vars
  <2>1. /\ UNCHANGED <<registry, next, memory, intent, waiting, call, scan, reader, unseen,
                       interfaces, module>>
        /\ UNCHANGED <<lists, waiting, tasks>>
    BY <1>7 DEF vars, lists, tasks
  <2>2. TypeOK' /\ Quiet'
    BY <2>1 DEF ShrinkerInv, TypeOK, Quiet
  <2> QED
    BY <2>1, <2>2, ModuleFrame DEF ShrinkerInv
<1>8. ASSUME NEW c \in Callers,
             \/ \E id \in Ids : \/ \E p \in Priorities : RegisterAlloc(c, id, p)
                                \/ UnregisterUnlink(c, id)
             \/ RegisterInsert(c)
             \/ UnregisterCallRcu(c)
      PROVE  ShrinkerInv'
  BY <1>1, <1>8
<1>9. ASSUME NEW k \in Reclaimers,
             \/ \E n \in 1 .. MaxScan : ScanBegin(k, n)
             \/ ScanPick(k)
             \/ ScanCallRcu(k)
      PROVE  ShrinkerInv'
  <2>1. 1 \in 1 .. MaxScan
    BY ShrinkerAssumption
  <2> QED
    BY <1>3, <1>9, <2>1
<1> QED
  BY <1>2, <1>4, <1>5, <1>6, <1>7, <1>8, <1>9 DEF Next, Exit

\* The inductive invariant of the registry: the list is linked in its order, each
\* struct has one owner, closed interfaces are quiet and readers are safe.
THEOREM ShrinkerInvariant == Spec => []ShrinkerInv
<1>1. Init => ShrinkerInv
  BY ShrinkerInvInit
<1>2. ShrinkerInv /\ [Next]_vars => ShrinkerInv'
  BY ShrinkerInvStep
<1> QED
  BY <1>1, <1>2, PTL DEF Spec

\* List, structs and calls in progress keep their types.
THEOREM ShrinkerTypeCorrect == Spec => []TypeOK
<1>1. ShrinkerInv => TypeOK
  BY DEF ShrinkerInv
<1> QED
  BY <1>1, ShrinkerInvariant, PTL

\* kv_register_write looks an id up under the lock that also inserts it: however
\* many writers allocate for the same id, one intent of it is registered.
THEOREM IdsAreUnique == Spec => []UniqueIds
<1>1. ShrinkerInv => UniqueIds
  BY DEF ShrinkerInv
<1> QED
  BY <1>1, ShrinkerInvariant, PTL

\* Unregister and reclaim race for an intent, and one of them gets it: it is handed
\* to call_rcu once.
THEOREM IntentsHaveOneOwner == Spec => []OneOwner
<1>1. ShrinkerInv => OneOwner
  <2> SUFFICES ASSUME ShrinkerInv
               PROVE  OneOwner
    OBVIOUS
  <2>1. TypeOK /\ Owned
    BY DEF ShrinkerInv
  <2>2. \A c \in Callers, s \in Structs :
            WriterHas(c, s) <=> call[c] = [op |-> "unregister", struct |-> s]
    <3> SUFFICES ASSUME NEW c \in Callers, NEW s \in Structs
                 PROVE  WriterHas(c, s) <=> call[c] = [op |-> "unregister", struct |-> s]
      OBVIOUS
    <3>1. call[c] \in [op : {"register", "unregister"}, struct : Structs] \/ call[c] = Idle
      BY <2>1 DEF TypeOK
    <3> QED
      BY <3>1 DEF WriterHas, Idle
  <2>3. \A c \in Callers, k \in Reclaimers :
            call[c].op = "unregister" /\ scan[k].op = "unlinked" =>
                call[c].struct # scan[k].struct
    <3> SUFFICES ASSUME NEW c \in Callers, NEW k \in Reclaimers, call[c].op = "unregister",
                        scan[k].op = "unlinked", call[c].struct = scan[k].struct
                 PROVE  FALSE
      OBVIOUS
    <3>1. scan[k].struct \in Structs
      BY <2>1 DEF TypeOK
    <3> QED
      BY <2>1, <3>1 DEF Owned, WriterHas, ReclaimerHas
  <2> QED
    BY <2>1, <2>2, <2>3 DEF Owned, OneOwner, ReclaimerHas
<1> QED
  BY <1>1, ShrinkerInvariant, PTL

\* A status reader walks the list without the lock, and whatever is unlinked and
\* freed meanwhile, it is never at freed memory.
THEOREM ReadersNeverUseFreed == Spec => []NoUseAfterFree
<1>1. ShrinkerInv => NoUseAfterFree
  BY DEF ShrinkerInv, ReadersAreSafe, InView, NoUseAfterFree
<1> QED
  BY <1>1, ShrinkerInvariant, PTL

\* rmmod leaves no intent behind but what call_rcu has been given.
THEOREM ExitLeavesNoIntent == Spec => []ExitReleasesAll
<1>1. ShrinkerInv => ExitReleasesAll
  <2> SUFFICES ASSUME ShrinkerInv, module = "unloaded", NEW s \in Structs
               PROVE  memory[s] \in {"free", "pending"}
    BY DEF ExitReleasesAll
  <2>1. TypeOK /\ Owned /\ Quiet
    BY DEF ShrinkerInv
  <2>2. interfaces = {} /\ Listed = {}
    BY <2>1 DEF Quiet, Listed, Range
  <2>3. memory[s] # "listed"
    BY <2>1, <2>2 DEF Owned
  <2>4. memory[s] # "private"
    BY <2>1, <2>2 DEF Owned, Quiet
  <2>5. memory[s] # "unlinked"
    BY <2>1, <2>2 DEF Owned, Quiet, WriterHas, ReclaimerHas
  <2> QED
    BY <2>1, <2>3, <2>4, <2>5 DEF TypeOK
<1> QED
  BY <1>1, ShrinkerInvariant, PTL

-----------------------------------------------------------------------------
(***************************************************************************)
(* What a status read shows                                                *)
(***************************************************************************)
\* A walk along the pointers from x comes by u: u is in every set of structs that
\* holds x and, with a struct, the one it points to.
Reaches(pointers, x, u) ==
    \A p \in SUBSET Structs :
        x \in p /\ (\A s \in p : pointers[s] \in p \cup {None}) => u \in p

\* What a reader has not shown, and what was listed all along, is ahead of it.
AllAhead == \A r \in ActiveReaders : \A u \in unseen[r] : Reaches(next, reader[r], u)

\* The whole list is ahead of its first struct.
LEMMA ListIsReached ==
    ASSUME TypeOK, Linked, registry # <<>>, NEW u \in Listed
    PROVE  Reaches(next, Head(registry), u)
<1>1. /\ registry \in Seq(Structs) /\ DOMAIN registry = 1 .. Len(registry)
      /\ Len(registry) \in Nat /\ Len(registry) # 0 /\ Head(registry) = registry[1]
      /\ \A i \in 1 .. Len(registry) : registry[i] \in Structs
  BY DEF TypeOK
<1>2. SUFFICES ASSUME NEW p \in SUBSET Structs, registry[1] \in p,
                      \A s \in p : next[s] \in p \cup {None}
               PROVE  u \in p
  BY <1>1 DEF Reaches
<1>3. PICK k \in 1 .. Len(registry) : registry[k] = u
  BY <1>1, ListedIsRange
\* The first counterexample, if there is one, is behind a struct of the set.
<1> DEFINE Missed == {i \in 1 .. Len(registry) : registry[i] \notin p}
<1>4. SUFFICES ASSUME k \in Missed PROVE FALSE
  BY <1>3
<1>5. PICK i \in Missed : \A j \in Missed : i <= j
  <2>1. Missed \in SUBSET (1 .. Len(registry)) /\ Missed # {}
    BY <1>4
  <2> HIDE DEF Missed
  <2> QED
    BY <1>1, <2>1, FirstIndex
<1>6. i # 1 /\ i - 1 \in 1 .. Len(registry) /\ registry[i - 1] \in p
  <2>1. i \in 1 .. Len(registry) /\ registry[i] \notin p
    BY <1>5
  <2>2. i # 1
    BY <1>2, <2>1
  <2>3. i - 1 \in 1 .. Len(registry) /\ ~ (i <= i - 1)
    BY <1>1, <2>1, <2>2
  <2>4. i - 1 \notin Missed
    BY <1>5, <2>3
  <2> QED
    BY <2>2, <2>3, <2>4
<1>7. next[registry[i - 1]] = registry[i]
  <2>1. i - 1 # Len(registry) /\ (i - 1) + 1 = i
    BY <1>1, <1>5
  <2> QED
    BY <1>6, <2>1 DEF Linked
<1>8. registry[i] # None
  BY <1>1, <1>5, ShrinkerAssumption
<1> QED
  BY <1>2, <1>5, <1>6, <1>7, <1>8

\* Unlinking a struct takes nothing else out of any reader's way: a walk that came
\* by the struct goes on behind it.
LEMMA AheadUnlink ==
    ASSUME TypeOK, Linked, Owned, AllAhead, NEW s \in Listed, list_del_rcu(s),
           reader' = reader
    PROVE  AllAhead'
<1>1. SUFFICES ASSUME NEW r \in Readers, reader[r] # None, NEW u \in unseen'[r],
                      NEW p \in SUBSET Structs, reader[r] \in p,
                      \A t \in p : next'[t] \in p \cup {None}
               PROVE  u \in p
  BY DEF AllAhead, ActiveReaders, Reaches
<1>2. u # s /\ u \in unseen[r]
  BY DEF list_del_rcu
<1>3. Reaches(next, reader[r], u)
  BY <1>1, <1>2 DEF AllAhead, ActiveReaders
<1>4. s \in Structs
  BY Unlinking
<1>5. \A t \in Structs : next'[t] = IF t \in Listed /\ next[t] = s THEN next[s] ELSE next[t]
  BY DEF list_del_rcu
<1>6. CASE \E t \in p : next[t] = s
  <2>1. PICK t \in p : next[t] = s
    BY <1>6
  <2>2. next[s] \in p \cup {s, None}
    <3>1. CASE t \in Listed
      BY <1>1, <1>5, <2>1, <3>1
    <3>2. CASE t \notin Listed
      <4>1. s \in p
        BY <1>1, <1>4, <1>5, <2>1, <3>2, ShrinkerAssumption
      <4>2. next'[s] \in p \cup {None}
        BY <1>1, <4>1
      <4> QED
        BY <1>4, <1>5, <4>2
    <3> QED
      BY <3>1, <3>2
  <2>3. \A q \in p \cup {s} : next[q] \in p \cup {s} \cup {None}
    <3> SUFFICES ASSUME NEW q \in p, next[q] # s PROVE next[q] \in p \cup {None}
      BY <2>2
    <3> QED
      BY <1>1, <1>5
  <2>4. u \in p \cup {s}
    BY <1>1, <1>3, <1>4, <2>3 DEF Reaches
  <2> QED
    BY <1>2, <2>4
<1>7. CASE \A t \in p : next[t] # s
  <2>1. \A t \in p : next[t] \in p \cup {None}
    BY <1>1, <1>5, <1>7
  <2> QED
    BY <1>1, <1>3, <2>1 DEF Reaches
<1> QED
  BY <1>6, <1>7

\* A struct that is added is behind the end of every walk.
LEMMA AheadLink ==
    ASSUME TypeOK, Linked, AllAhead, NEW s \in Structs, list_add_tail_rcu(s),
           reader' = reader, unseen' = unseen
    PROVE  AllAhead'
<1>1. SUFFICES ASSUME NEW r \in Readers, reader[r] # None, NEW u \in unseen[r],
                      NEW p \in SUBSET Structs, reader[r] \in p,
                      \A t \in p : next'[t] \in p \cup {None}
               PROVE  u \in p
  BY DEF AllAhead, ActiveReaders, Reaches
<1>2. Reaches(next, reader[r], u)
  BY <1>1 DEF AllAhead, ActiveReaders
<1>3. registry # <<>> => next[Last(registry)] = None
  <2>1. registry \in Seq(Structs)
    BY DEF TypeOK
  <2>2. registry # <<>> => Len(registry) \in 1 .. Len(registry)
    BY <2>1
  <2> QED
    BY <2>2 DEF Linked, Last
<1>4. next \in [Structs -> Structs \cup {None}]
  BY DEF TypeOK
<1>5. \A t \in Structs : next'[t] = next[t] \/ next[t] = None
  BY <1>3, <1>4 DEF list_add_tail_rcu
<1>6. \A t \in p : next[t] \in p \cup {None}
  BY <1>1, <1>5
<1> QED
  BY <1>1, <1>2, <1>6 DEF Reaches

\* The struct that is shown is passed, and what was ahead of it is ahead of the next.
LEMMA AheadShow ==
    ASSUME TypeOK, AllAhead, NEW r \in Readers, StatusNext(r)
    PROVE  AllAhead' /\ (reader'[r] = None => unseen'[r] = {})
<1>1. /\ reader[r] # None /\ next' = next
      /\ reader' = [reader EXCEPT ![r] = next[reader[r]]]
      /\ unseen' = [unseen EXCEPT ![r] = @ \ {reader[r]}]
  BY DEF StatusNext, lists
<1>2. /\ reader[r] \in Structs /\ reader'[r] = next[reader[r]]
      /\ unseen'[r] = unseen[r] \ {reader[r]}
      /\ \A q \in Readers : q # r => reader'[q] = reader[q] /\ unseen'[q] = unseen[q]
  BY <1>1 DEF TypeOK
<1>3. \A u \in unseen[r] : Reaches(next, reader[r], u)
  BY <1>1 DEF AllAhead, ActiveReaders
<1>4. ASSUME NEW p \in SUBSET Structs, next[reader[r]] \in p \cup {None},
             \A s \in p : next[s] \in p \cup {None}, NEW u \in unseen'[r]
      PROVE  u \in p
  <2>1. u \in p \cup {reader[r]}
    <3> DEFINE q == p \cup {reader[r]}
    <3>1. reader[r] \in q /\ q \in SUBSET Structs /\ \A s \in q : next[s] \in q \cup {None}
      BY <1>2, <1>4
    <3> HIDE DEF q
    <3>2. u \in q
      BY <1>2, <1>3, <1>4, <3>1 DEF Reaches
    <3> QED
      BY <3>2 DEF q
  <2> QED
    BY <1>2, <2>1
<1>5. \A u \in unseen'[r] : Reaches(next, reader'[r], u)
  BY <1>2, <1>4 DEF Reaches
<1>6. reader'[r] = None => unseen'[r] = {}
  <2>1. ASSUME next[reader[r]] = None, NEW u \in unseen'[r] PROVE u \in {}
    BY <1>4, <2>1
  <2> QED
    BY <1>2, <2>1
<1>7. AllAhead'
  <2> SUFFICES ASSUME NEW q \in Readers, reader'[q] # None, NEW u \in unseen'[q]
               PROVE  Reaches(next, reader'[q], u)
    BY <1>1 DEF AllAhead, ActiveReaders, Reaches
  <2> QED
    BY <1>2, <1>5 DEF AllAhead, ActiveReaders
<1> QED
  BY <1>6, <1>7

\* A walk does not come by a struct that is freed: none of its structs waits for
\* no reader.
LEMMA AheadFree ==
    ASSUME ShrinkerInv, AllAhead, NEW s \in Structs, kv_free_intent_rcu(s)
    PROVE  AllAhead'
<1>1. /\ memory[s] = "pending" /\ waiting[s] = {}
      /\ next' = [next EXCEPT ![s] = None] /\ UNCHANGED <<reader, unseen>>
  BY DEF kv_free_intent_rcu, tasks
<1>2. SUFFICES ASSUME NEW r \in Readers, reader[r] # None, NEW u \in unseen[r],
                      NEW p \in SUBSET Structs, reader[r] \in p,
                      \A t \in p : next'[t] \in p \cup {None}
               PROVE  u \in p
  BY <1>1 DEF AllAhead, ActiveReaders, Reaches
<1>3. Reaches(next, reader[r], u)
  BY <1>2 DEF AllAhead, ActiveReaders
<1>4. PICK view \in SUBSET Structs : InView(r, view)
  BY <1>2 DEF ShrinkerInv, ReadersAreSafe, ActiveReaders
<1>5. s \notin view
  BY <1>1, <1>4 DEF InView
<1>6. \A t \in Structs : t # s => next'[t] = next[t]
  BY <1>1 DEF ShrinkerInv, TypeOK
<1>7. \A t \in p \cap view : next[t] \in (p \cap view) \cup {None}
  BY <1>2, <1>4, <1>5, <1>6 DEF InView
<1>8. u \in p \cap view
  <2>1. reader[r] \in p \cap view
    BY <1>2, <1>4 DEF InView
  <2> QED
    BY <1>3, <1>7, <2>1 DEF Reaches
<1> QED
  BY <1>8

\* Most steps move neither a reader nor a pointer.
LEMMA AheadKept ==
    ASSUME AllAhead, UNCHANGED <<next, reader, unseen>>
    PROVE  AllAhead'
BY DEF AllAhead, ActiveReaders, Reaches

\* Every step keeps what is unseen ahead of the reader, and a reader that leaves the
\* list has seen it all.
LEMMA AheadStep ==
    ASSUME ShrinkerInv, AllAhead, [Next]_vars
    PROVE  /\ AllAhead'
           /\ \A r \in Readers : reader[r] # None /\ reader'[r] = None => unseen'[r] = {}
<1> DEFINE Shown == \A r \in Readers :
                       reader[r] # None /\ reader'[r] = None => unseen'[r] = {}
<1>0. TypeOK /\ Linked /\ Owned /\ Quiet
  BY DEF ShrinkerInv
<1>a. reader' = reader => Shown
  OBVIOUS
<1> SUFFICES AllAhead' /\ Shown
  OBVIOUS
<1> HIDE DEF Shown
<1>1. ASSUME NEW c \in Callers, NEW id \in Ids, NEW p \in Priorities, RegisterAlloc(c, id, p)
      PROVE  AllAhead' /\ Shown
  BY <1>1, <1>a, AheadKept DEF RegisterAlloc
<1>2. ASSUME NEW c \in Callers, NEW id \in Ids, UnregisterUnlink(c, id)
      PROVE  AllAhead' /\ Shown
  <2>1. PICK s \in Listed : list_del_rcu(s)
    BY <1>2 DEF UnregisterUnlink, kv_find_intent_locked
  <2>2. reader' = reader
    BY <1>2 DEF UnregisterUnlink
  <2> QED
    BY <1>0, <1>a, <2>1, <2>2, AheadUnlink
<1>3. ASSUME NEW c \in Callers, RegisterInsert(c)
      PROVE  AllAhead' /\ Shown
  <2>1. reader' = reader /\ unseen' = unseen
    BY <1>3 DEF RegisterInsert
  <2>2. CASE next' = next
    BY <1>a, <2>1, <2>2, AheadKept
  <2>3. CASE list_add_tail_rcu(call[c].struct)
    <3>1. call[c].struct \in Structs
      BY <1>0, <1>3 DEF TypeOK, RegisterInsert, Idle
    <3> QED
      BY <1>0, <1>a, <2>1, <2>3, <3>1, AheadLink
  <2> QED
    BY <1>3, <2>2, <2>3 DEF RegisterInsert
<1>4. ASSUME NEW c \in Callers, UnregisterCallRcu(c)
      PROVE  AllAhead' /\ Shown
  BY <1>4, <1>a, AheadKept DEF UnregisterCallRcu, call_rcu
<1>5. ASSUME NEW r \in Readers, StatusBegin(r)
      PROVE  AllAhead' /\ Shown
  <2>1. /\ registry # <<>> /\ next' = next
        /\ reader' = [reader EXCEPT ![r] = Head(registry)]
        /\ unseen' = [unseen EXCEPT ![r] = Listed]
    BY <1>5 DEF StatusBegin, lists
  <2>2. /\ reader'[r] = Head(registry) /\ unseen'[r] = Listed
        /\ \A q \in Readers : q # r => reader'[q] = reader[q] /\ unseen'[q] = unseen[q]
    BY <1>0, <2>1 DEF TypeOK
  <2>3. Head(registry) # None
    BY <1>0, <2>1, ShrinkerAssumption DEF TypeOK
  <2>4. Shown
    BY <2>2, <2>3 DEF Shown
  <2>5. ASSUME NEW q \in Readers, reader'[q] # None, NEW u \in unseen'[q]
        PROVE  Reaches(next, reader'[q], u)
    BY <1>0, <2>1, <2>2, <2>5, ListIsReached DEF AllAhead, ActiveReaders
  <2>6. AllAhead'
    BY <2>1, <2>5 DEF AllAhead, ActiveReaders, Reaches
  <2> QED
    BY <2>4, <2>6
<1>6. ASSUME NEW r \in Readers, StatusNext(r)
      PROVE  AllAhead' /\ Shown
  <2>1. AllAhead' /\ (reader'[r] = None => unseen'[r] = {})
    BY <1>0, <1>6, AheadShow
  <2>2. \A q \in Readers : q # r => reader'[q] = reader[q]
    BY <1>0, <1>6 DEF StatusNext, TypeOK
  <2> QED
    BY <2>1, <2>2 DEF Shown
<1>7. ASSUME NEW k \in Reclaimers, NEW n \in 1 .. MaxScan, ScanBegin(k, n)
      PROVE  AllAhead' /\ Shown
  BY <1>7, <1>a, AheadKept DEF ScanBegin, lists
<1>8. ASSUME NEW k \in Reclaimers, ScanPick(k)
      PROVE  AllAhead' /\ Shown
  <2>1. reader' = reader
    BY <1>8 DEF ScanPick
  <2>2. CASE \E s \in Listed : list_del_rcu(s)
    BY <1>0, <1>a, <2>1, <2>2, AheadUnlink
  <2>3. CASE UNCHANGED <<next, unseen>>
    BY <1>a, <2>1, <2>3, AheadKept
  <2> QED
    BY <1>8, <2>2, <2>3 DEF ScanPick
<1>9. ASSUME NEW k \in Reclaimers, ScanCallRcu(k)
      PROVE  AllAhead' /\ Shown
  BY <1>9, <1>a, AheadKept DEF ScanCallRcu, call_rcu
<1>10. ASSUME NEW s \in Structs, kv_free_intent_rcu(s)
       PROVE  AllAhead' /\ Shown
  BY <1>10, <1>a, AheadFree DEF kv_free_intent_rcu, tasks
<1>11. CASE CallbackAfterUnload \/ Load \/ ExitBegin \/ RemoveInterface \/ ExitSynchronize
  <2>1. UNCHANGED <<next, reader, unseen>>
    BY <1>11, QuietModule, <1>0 DEF lists, tasks
  <2> QED
    BY <1>a, <2>1, AheadKept
<1>12. CASE kv_free_all_intents
  <2>1. reader' = reader /\ ActiveReaders' = {}
    BY <1>0, <1>12 DEF kv_free_all_intents, tasks, Quiet, ActiveReaders
  <2> QED
    BY <1>a, <2>1 DEF AllAhead
<1>13. CASE UNCHANGED vars
  BY <1>13, <1>a, AheadKept DEF vars
<1>14. ASSUME NEW c \in Callers,
              \/ \E id \in Ids : \/ \E p \in Priorities : RegisterAlloc(c, id, p)
                                 \/ UnregisterUnlink(c, id)
              \/ RegisterInsert(c)
              \/ UnregisterCallRcu(c)
       PROVE  AllAhead' /\ Shown
  BY <1>1, <1>2, <1>3, <1>4, <1>14
<1>15. ASSUME NEW k \in Reclaimers,
              \/ \E n \in 1 .. MaxScan : ScanBegin(k, n)
              \/ ScanPick(k)
              \/ ScanCallRcu(k)
       PROVE  AllAhead' /\ Shown
  BY <1>7, <1>8, <1>9, <1>15
<1> QED
  BY <1>5, <1>6, <1>10, <1>11, <1>12, <1>13, <1>14, <1>15 DEF Next, Exit

\* A status read shows each intent that stays registered while it runs, although it
\* takes no lock and whatever is linked, unlinked and freed around it.
THEOREM StatusShowsAll == Spec => StatusReportsAll
<1>1. Init => AllAhead
  BY DEF Init, AllAhead, ActiveReaders
<1>2. ShrinkerInv /\ AllAhead /\ [Next]_vars => AllAhead'
  BY AheadStep
<1>3. ShrinkerInv /\ AllAhead /\ [Next]_vars =>
        [\A r \in Readers : reader[r] # None /\ reader'[r] = None => unseen'[r] = {}]_vars
  BY AheadStep
<1> QED
  BY <1>1, <1>2, <1>3, ShrinkerInvariant, PTL DEF Spec, StatusReportsAll

=============================================================================
