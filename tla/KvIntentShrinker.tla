-------------------------- MODULE KvIntentShrinker --------------------------
(***************************************************************************)
(* The kernel module src/kernel_patches/kv_intent_shrinker: a registry of  *)
(* KV intents that /proc writers fill and empty, that memory reclaim       *)
(* shrinks, and that /proc/kv_intent/status walks under RCU, from insmod   *)
(* to rmmod.                                                               *)
(*                                                                         *)
(* A critical section of kv_intent_lock is one action: the writers exclude *)
(* each other, and a reader sees of it only the one store that links or    *)
(* unlinks a struct.  What lies outside the lock (the allocation, call_rcu)*)
(* is an action of its own.  A call that fails without a change of state   *)
(* (bad input, ENOMEM, ENOENT) and kv_shrinker_count, which only counts,   *)
(* are stuttering steps.                                                   *)
(*                                                                         *)
(* Abstracted data: deadlines, times and sizes, so that reclaim may find   *)
(* any evictable intent to score best (KvEvictionScore has the score).     *)
(***************************************************************************)
EXTENDS Integers, FiniteSets, Sequences, SequencesExt

CONSTANTS
    Structs,    \* the memory for struct kv_block_intent
    Ids,        \* object_id_hash values
    Priorities, \* the priorities that are registered
    Callers,    \* tasks that write to register and unregister
    Readers,    \* tasks that read status
    Reclaimers, \* tasks in memory reclaim
    MaxScan,    \* bound: the largest sc->nr_to_scan
    None

Priority == {"COLD", "WARM", "HOT", "DECODE_CRITICAL"}
\* What remove_proc_entry and unregister_shrinker take away, in exit's order.
Interfaces == <<"shrinker", "status", "unregister", "register">>

ASSUME ShrinkerAssumption ==
    /\ Priorities \subseteq Priority
    /\ MaxScan \in Nat \ {0}
    /\ None \notin Structs \cup Ids

VARIABLES
    registry,   \* kv_intent_registry, as the lock's holder walks it
    next,       \* list.next of each struct; None is the list head
    memory,     \* what each struct's memory is used for
    intent,     \* id and priority in each struct
    waiting,    \* the readers that a struct's grace period still waits for
    call,       \* per caller: the operation in progress and its struct
    scan,       \* per reclaimer: the kv_shrinker_scan in progress
    reader,     \* per reader: the struct it is at, or None
    unseen,     \* history: listed since the reader began and not yet shown
    interfaces, \* the interfaces that are registered
    module      \* "loading", "failing", "loaded", "exiting", "freed", ...

lists == <<registry, next, memory, intent>>
tasks == <<call, scan, reader, unseen>>
vars == <<registry, next, memory, intent, waiting, call, scan, reader, unseen,
          interfaces, module>>

Idle == [op |-> "idle", struct |-> None]
ScanIdle == [op |-> "idle", struct |-> None, freed |-> 0, nr_to_scan |-> 0]
NoContent == [id |-> None, priority |-> None]

Listed == Range(registry)
ActiveReaders == {r \in Readers : reader[r] # None}

Init ==
    /\ registry = <<>>
    /\ next = [s \in Structs |-> None]
    /\ memory = [s \in Structs |-> "free"]
    /\ intent = [s \in Structs |-> NoContent]
    /\ waiting = [s \in Structs |-> {}]
    /\ call = [c \in Callers |-> Idle]
    /\ scan = [k \in Reclaimers |-> ScanIdle]
    /\ reader = [r \in Readers |-> None]
    /\ unseen = [r \in Readers |-> {}]
    /\ interfaces = {}
    /\ module = "loading"

-----------------------------------------------------------------------------
(***************************************************************************)
(* The list and its memory                                                 *)
(***************************************************************************)
\* pin_requested holds for DECODE_CRITICAL only, so it adds nothing.
kv_is_evictable(s) == intent[s].priority \in {"COLD", "WARM"}

kv_find_intent_locked(id) == {s \in Listed : intent[s].id = id}

list_add_tail_rcu(s) ==
    /\ registry' = Append(registry, s)
    /\ next' = IF registry = <<>> THEN next ELSE [next EXCEPT ![Last(registry)] = s]

Position(s) == CHOOSE i \in DOMAIN registry : registry[i] = s

\* Mutant: list_del_init instead of list_del_rcu, which resets the pointer.
UnlinkAndReset(s) ==
    LET before == {t \in Listed : next[t] = s}
    IN  /\ registry' = RemoveAt(registry, Position(s))
        /\ next' = [t \in Structs |-> IF t \in before THEN next[s]
                                      ELSE IF t = s THEN None ELSE next[t]]
        /\ memory' = [memory EXCEPT ![s] = "unlinked"]
        /\ unseen' = [r \in Readers |-> unseen[r] \ {s}]

\* list_del_rcu: the struct's own next pointer stays for the readers at it.
list_del_rcu(s) ==
    LET before == {t \in Listed : next[t] = s}
    IN  /\ registry' = RemoveAt(registry, Position(s))
        /\ next' = [t \in Structs |-> IF t \in before THEN next[s] ELSE next[t]]
        /\ memory' = [memory EXCEPT ![s] = "unlinked"]
        /\ unseen' = [r \in Readers |-> unseen[r] \ {s}]

\* Mutant: kvfree instead of call_rcu.
FreeAtOnce(s) ==
    /\ memory' = [memory EXCEPT ![s] = "free"]
    /\ intent' = [intent EXCEPT ![s] = NoContent]
    /\ next' = [next EXCEPT ![s] = None]
    /\ UNCHANGED waiting

\* RCU: the callback runs when all readers of this moment have left.
call_rcu(s) ==
    /\ memory' = [memory EXCEPT ![s] = "pending"]
    /\ waiting' = [waiting EXCEPT ![s] = ActiveReaders]
    /\ UNCHANGED <<next, intent>>

\* The end of the grace period, whenever that is.
kv_free_intent_rcu(s) ==
    /\ memory[s] = "pending"
    /\ waiting[s] = {}
    /\ module # "unloaded"
    /\ memory' = [memory EXCEPT ![s] = "free"]
    /\ intent' = [intent EXCEPT ![s] = NoContent]
    /\ next' = [next EXCEPT ![s] = None]
    /\ UNCHANGED <<registry, waiting, tasks, interfaces, module>>

\* The grace period ends after rmmod has taken the callback's code away.
CallbackAfterUnload ==
    /\ module = "unloaded"
    /\ \E s \in Structs : memory[s] = "pending" /\ waiting[s] = {}
    /\ module' = "crashed"
    /\ UNCHANGED <<lists, waiting, tasks, interfaces>>

-----------------------------------------------------------------------------
(***************************************************************************)
(* /proc/kv_intent/register and unregister                                 *)
(***************************************************************************)
\* kvzalloc and the assignment of the fields, before the lock is taken.
RegisterAlloc(c, id, priority) ==
    /\ call[c] = Idle
    /\ "register" \in interfaces
    /\ \E s \in Structs :
          /\ memory[s] = "free"
          /\ memory' = [memory EXCEPT ![s] = "private"]
          /\ intent' = [intent EXCEPT ![s] = [id |-> id, priority |-> priority]]
          /\ call' = [call EXCEPT ![c] = [op |-> "register", struct |-> s]]
    /\ UNCHANGED <<registry, next, waiting, scan, reader, unseen, interfaces, module>>

\* Mutant: the id is not looked up again under the lock.
RegisterInsertUnchecked(c) ==
    /\ call[c].op = "register"
    /\ list_add_tail_rcu(call[c].struct)
    /\ memory' = [memory EXCEPT ![call[c].struct] = "listed"]
    /\ call' = [call EXCEPT ![c] = Idle]
    /\ UNCHANGED <<intent, waiting, scan, reader, unseen, interfaces, module>>

\* The critical section of kv_register_write, and its way out.
RegisterInsert(c) ==
    LET s == call[c].struct
    IN  /\ call[c].op = "register"
        /\ call' = [call EXCEPT ![c] = Idle]
        /\ \/ /\ kv_find_intent_locked(intent[s].id) # {}    \* EEXIST
              /\ memory' = [memory EXCEPT ![s] = "free"]
              /\ intent' = [intent EXCEPT ![s] = NoContent]
              /\ UNCHANGED <<registry, next>>
           \/ /\ kv_find_intent_locked(intent[s].id) = {}
              /\ list_add_tail_rcu(s)
              /\ memory' = [memory EXCEPT ![s] = "listed"]
              /\ UNCHANGED intent
        /\ UNCHANGED <<waiting, scan, reader, unseen, interfaces, module>>

\* Mutant: the intent is found under the lock and left on the list.
UnregisterFindOnly(c, id) ==
    /\ call[c] = Idle
    /\ "unregister" \in interfaces
    /\ \E s \in kv_find_intent_locked(id) :
          call' = [call EXCEPT ![c] = [op |-> "unregister", struct |-> s]]
    /\ UNCHANGED <<lists, waiting, scan, reader, unseen, interfaces, module>>

UnregisterUnlink(c, id) ==
    /\ call[c] = Idle
    /\ "unregister" \in interfaces
    /\ \E s \in kv_find_intent_locked(id) :
          /\ list_del_rcu(s)
          /\ call' = [call EXCEPT ![c] = [op |-> "unregister", struct |-> s]]
    /\ UNCHANGED <<intent, waiting, scan, reader, interfaces, module>>

UnregisterCallRcu(c) ==
    /\ call[c].op = "unregister"
    /\ call_rcu(call[c].struct)
    /\ call' = [call EXCEPT ![c] = Idle]
    /\ UNCHANGED <<registry, scan, reader, unseen, interfaces, module>>

-----------------------------------------------------------------------------
(***************************************************************************)
(* /proc/kv_intent/status                                                  *)
(***************************************************************************)
\* rcu_read_lock and the first struct of the list.  An empty list shows nothing.
StatusBegin(r) ==
    /\ reader[r] = None
    /\ "status" \in interfaces
    /\ registry # <<>>
    /\ reader' = [reader EXCEPT ![r] = Head(registry)]
    /\ unseen' = [unseen EXCEPT ![r] = Listed]
    /\ UNCHANGED <<lists, waiting, call, scan, interfaces, module>>

\* Mutant: kv_status_show returns without rcu_read_unlock.
StatusNextStaysLocked(r) ==
    /\ reader[r] # None
    /\ reader' = [reader EXCEPT ![r] = next[reader[r]]]
    /\ unseen' = [unseen EXCEPT ![r] = @ \ {reader[r]}]
    /\ UNCHANGED <<lists, waiting, call, scan, interfaces, module>>

\* Show the struct and follow its pointer; at the list head, rcu_read_unlock.
StatusNext(r) ==
    /\ reader[r] # None
    /\ reader' = [reader EXCEPT ![r] = next[reader[r]]]
    /\ unseen' = [unseen EXCEPT ![r] = @ \ {reader[r]}]
    /\ waiting' = IF next[reader[r]] # None THEN waiting
                  ELSE [s \in Structs |-> waiting[s] \ {r}]
    /\ UNCHANGED <<lists, call, scan, interfaces, module>>

-----------------------------------------------------------------------------
(***************************************************************************)
(* Memory reclaim                                                          *)
(***************************************************************************)
ScanBegin(k, nr_to_scan) ==
    /\ scan[k].op = "idle"
    /\ "shrinker" \in interfaces
    /\ scan' = [scan EXCEPT ![k] = [op |-> "pick", struct |-> None, freed |-> 0,
                                    nr_to_scan |-> nr_to_scan]]
    /\ UNCHANGED <<lists, waiting, call, reader, unseen, interfaces, module>>

\* The critical section of an iteration: the best evictable intent, or the end.
ScanPick(k) ==
    /\ scan[k].op = "pick"
    /\ \/ \E s \in {t \in Listed : kv_is_evictable(t)} :
             /\ list_del_rcu(s)
             /\ scan' = [scan EXCEPT ![k].op = "unlinked", ![k].struct = s]
       \/ /\ \A s \in Listed : ~ kv_is_evictable(s)
          /\ scan' = [scan EXCEPT ![k] = ScanIdle]
          /\ UNCHANGED <<registry, next, memory, unseen>>
    /\ UNCHANGED <<intent, waiting, call, reader, interfaces, module>>

\* Mutant: freed is not counted.
ScanCallRcuUncounted(k) ==
    /\ scan[k].op = "unlinked"
    /\ call_rcu(scan[k].struct)
    /\ scan' = [scan EXCEPT ![k].op = "pick", ![k].struct = None]
    /\ UNCHANGED <<registry, call, reader, unseen, interfaces, module>>

ScanCallRcu(k) ==
    /\ scan[k].op = "unlinked"
    /\ call_rcu(scan[k].struct)
    /\ LET freed == scan[k].freed + 1
       IN  scan' = [scan EXCEPT ![k] =
                      IF freed = scan[k].nr_to_scan THEN ScanIdle
                      ELSE [scan[k] EXCEPT !.op = "pick", !.struct = None, !.freed = freed]]
    /\ UNCHANGED <<registry, call, reader, unseen, interfaces, module>>

-----------------------------------------------------------------------------
(***************************************************************************)
(* insmod and rmmod                                                        *)
(***************************************************************************)
\* The calls that removing an interface waits for.
InFlight(interface) ==
    CASE interface = "shrinker"   -> \E k \in Reclaimers : scan[k].op # "idle"
      [] interface = "status"     -> ActiveReaders # {}
      [] interface = "register"   -> \E c \in Callers : call[c].op = "register"
      [] interface = "unregister" -> \E c \in Callers : call[c].op = "unregister"

\* kv_intent_init creates the files, in the reverse of Interfaces, and then the
\* shrinker; each is usable at once.
LoadNext ==
    /\ module = "loading"
    /\ LET missing == {i \in 1 .. 4 : Interfaces[i] \notin interfaces}
           added == Interfaces[CHOOSE i \in missing : \A j \in missing : j <= i]
       IN  /\ interfaces' = interfaces \cup {added}
           /\ module' = IF added = "shrinker" THEN "loaded" ELSE "loading"
    /\ UNCHANGED <<lists, waiting, tasks>>

\* A creation or register_shrinker fails: the goto chain removes the files.
LoadFails ==
    /\ module = "loading"
    /\ module' = "failing"
    /\ UNCHANGED <<lists, waiting, tasks, interfaces>>

\* The next interface to be removed.
Removable == CHOOSE e \in interfaces :
                \A i \in 1 .. 4 : Interfaces[i] \in interfaces =>
                    \E j \in 1 .. i : Interfaces[j] = e

\* unregister_shrinker or remove_proc_entry, on the error path and on exit.
RemoveInterface ==
    /\ module \in {"failing", "exiting"}
    /\ interfaces # {}
    /\ ~ InFlight(Removable)
    /\ interfaces' = interfaces \ {Removable}
    /\ UNCHANGED <<lists, waiting, tasks, module>>

\* kv_intent_init returns its error.  The registry is not emptied.
LoadFailed ==
    /\ module = "failing"
    /\ interfaces = {}
    /\ module' = "load_failed"
    /\ UNCHANGED <<lists, waiting, tasks, interfaces>>

ExitBegin ==
    /\ module = "loaded"
    /\ module' = "exiting"
    /\ UNCHANGED <<lists, waiting, tasks, interfaces>>

\* Mutant: the registry is emptied while the files are still there.
FreeAllFirst ==
    /\ module = "exiting"
    /\ "shrinker" \notin interfaces
    /\ registry' = <<>>
    /\ memory' = [s \in Structs |-> IF s \in Listed THEN "free" ELSE memory[s]]
    /\ intent' = [s \in Structs |-> IF s \in Listed THEN NoContent ELSE intent[s]]
    /\ next' = [s \in Structs |-> IF s \in Listed THEN None ELSE next[s]]
    /\ module' = "freed"
    /\ UNCHANGED <<waiting, tasks, interfaces>>

\* No call is left, so what is listed is freed without a grace period.
kv_free_all_intents ==
    /\ module = "exiting"
    /\ interfaces = {}
    /\ registry' = <<>>
    /\ memory' = [s \in Structs |-> IF s \in Listed THEN "free" ELSE memory[s]]
    /\ intent' = [s \in Structs |-> IF s \in Listed THEN NoContent ELSE intent[s]]
    /\ next' = [s \in Structs |-> IF s \in Listed THEN None ELSE next[s]]
    /\ module' = "freed"
    /\ UNCHANGED <<waiting, tasks, interfaces>>

\* synchronize_rcu waits for readers and not for callbacks.
ExitSynchronize ==
    /\ module = "freed"
    /\ ActiveReaders = {}
    /\ module' = "unloaded"
    /\ UNCHANGED <<lists, waiting, tasks, interfaces>>

-----------------------------------------------------------------------------
Exit == ExitBegin \/ RemoveInterface \/ kv_free_all_intents \/ ExitSynchronize
Load == LoadNext \/ LoadFails \/ LoadFailed

Next ==
    \/ \E c \in Callers :
          \/ \E id \in Ids : \/ \E p \in Priorities : RegisterAlloc(c, id, p)
                             \/ UnregisterUnlink(c, id)
          \/ RegisterInsert(c)
          \/ UnregisterCallRcu(c)
    \/ \E r \in Readers : StatusBegin(r) \/ StatusNext(r)
    \/ \E k \in Reclaimers :
          \/ \E n \in 1 .. MaxScan : ScanBegin(k, n)
          \/ ScanPick(k)
          \/ ScanCallRcu(k)
    \/ \E s \in Structs : kv_free_intent_rcu(s)
    \/ CallbackAfterUnload
    \/ Load
    \/ Exit

\* A call that has begun runs on, and RCU runs its callbacks.  No call has to
\* come, and nobody has to unload the module.
Fairness ==
    /\ \A c \in Callers : WF_vars(RegisterInsert(c)) /\ WF_vars(UnregisterCallRcu(c))
    /\ \A r \in Readers : WF_vars(StatusNext(r))
    /\ \A k \in Reclaimers : WF_vars(ScanPick(k)) /\ WF_vars(ScanCallRcu(k))
    /\ \A s \in Structs : WF_vars(kv_free_intent_rcu(s))

Spec == Init /\ [][Next]_vars

FairSpec == Spec /\ Fairness

-----------------------------------------------------------------------------
(***************************************************************************)
(* Properties                                                              *)
(***************************************************************************)
\* Every variable has its type, and a scan in progress has freed less than it
\* was asked to.
TypeOK ==
    /\ registry \in Seq(Structs)
    /\ next \in [Structs -> Structs \cup {None}]
    /\ memory \in [Structs -> {"free", "private", "listed", "unlinked", "pending"}]
    /\ intent \in [Structs -> [id : Ids, priority : Priority] \cup {NoContent}]
    /\ waiting \in [Structs -> SUBSET Readers]
    /\ call \in [Callers -> [op : {"register", "unregister"}, struct : Structs] \cup {Idle}]
    /\ scan \in [Reclaimers -> {ScanIdle} \cup
                    [op : {"pick", "unlinked"}, struct : Structs \cup {None},
                     freed : 0 .. MaxScan - 1, nr_to_scan : 1 .. MaxScan]]
    /\ \A k \in Reclaimers : scan[k].op # "idle" =>
          /\ scan[k].freed < scan[k].nr_to_scan
          /\ scan[k].op = "unlinked" => scan[k].struct \in Structs
    /\ reader \in [Readers -> Structs \cup {None}]
    /\ unseen \in [Readers -> SUBSET Structs]
    /\ interfaces \subseteq Range(Interfaces)
    /\ module \in {"loading", "failing", "load_failed", "loaded", "exiting",
                   "freed", "unloaded", "crashed"}

\* No object id is registered twice, whatever two writers do between their
\* allocation and their insertion.
UniqueIds ==
    \A s, t \in Listed : intent[s].id = intent[t].id => s = t

\* A struct is unlinked by one task and freed once: what is on the list is
\* marked so, and an unlinked struct belongs to exactly one call that will hand
\* it to call_rcu, although unregister and reclaim race for it.
OneOwner ==
    /\ \A s \in Structs : s \in Listed <=> memory[s] = "listed"
    /\ \A s \in Structs : memory[s] = "unlinked" <=>
          \/ \E c \in Callers : call[c] = [op |-> "unregister", struct |-> s]
          \/ \E k \in Reclaimers : scan[k].op = "unlinked" /\ scan[k].struct = s
    /\ \A c \in Callers, k \in Reclaimers :
          call[c].op = "unregister" /\ scan[k].op = "unlinked" =>
              call[c].struct # scan[k].struct
    /\ \A c, d \in Callers : call[c] = call[d] /\ call[c] # Idle => c = d

\* A status reader is never at memory that has been freed, though it reads
\* without the lock and may stand on a struct that was unlinked long ago.
NoUseAfterFree ==
    \A r \in ActiveReaders : memory[reader[r]] \in {"listed", "unlinked", "pending"}

\* A status read shows every intent that stays registered while it runs, however
\* many others are unlinked under it.
StatusReportsAll ==
    [][\A r \in Readers : reader[r] # None /\ reader'[r] = None => unseen'[r] = {}]_vars

\* After rmmod no intent is left behind: what is not free is in the hands of RCU.
ExitReleasesAll ==
    module = "unloaded" => \A s \in Structs : memory[s] \in {"free", "pending"}

\* kv_shrinker_scan returns, even while writers keep registering cold intents.
ScanTerminates ==
    \A k \in Reclaimers : scan[k].op # "idle" ~> scan[k].op = "idle"

\* An intent that has been unlinked is freed in the end, even while new status
\* readers keep coming, unless the module is unloaded first.
UnlinkedIsFreed ==
    \A s \in Structs :
        memory[s] = "unlinked" ~> memory[s] = "free" \/ module \in {"unloaded", "crashed"}

=============================================================================
