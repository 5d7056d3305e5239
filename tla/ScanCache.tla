----------------------------- MODULE ScanCache -----------------------------
(***************************************************************************)
(* The scan cache of RedBlack_Cache_LRU_Implementation_Kernel: one tree of *)
(* scan records keyed by file, one tree of LRU records keyed by time       *)
(* stamp, each under a spinlock of its own.  A step is one critical        *)
(* section, or the code between two of them.  Every operation of cache.c   *)
(* that changes the cache is here, with the helpers it calls; those that   *)
(* only exit_scan_cache calls (remove_cache_entry, purge_scan_cache,       *)
(* purge_lru_cache) run within it.  A definition marked Fault is a         *)
(* deliberately wrong variant that a property must reject.                 *)
(*                                                                         *)
(* Files are the inode numbers of one device.  A tree is the set of its    *)
(* nodes: on one device both comparators are total orders, so a search     *)
(* finds the node with the key if there is one.  The module CacheTree has  *)
(* the real trees and comparators, checks this, and shows what several     *)
(* devices do.                                                             *)
(***************************************************************************)
EXTENDS Integers, FiniteSets

CONSTANTS
    Threads,      \* kernel threads that call the cache
    Unloader,     \* the process that runs exit_scan_cache
    Files,        \* inode numbers
    Gens,         \* inode generations
    Times,        \* values getnstimeofday can return
    ScanIds,      \* objects of the slab ptr_scan_cache_slab
    LruIds,       \* objects of the slab ptr_lru_cache_slab
    Owner,        \* Owner[f]: the threads that may call the cache for file f
    StrictClock,  \* whether no two readings of the clock are equal
    EvictCount,   \* the argument exit_scan_cache gives remove_cache_entry
    NULL

Procs == Threads \cup {Unloader}

ASSUME CacheAssumption ==
    /\ Files \subseteq Int
    /\ Times \subseteq Nat
    /\ Unloader \notin Threads
    /\ Owner \in [Files -> SUBSET Threads]
    /\ StrictClock \in BOOLEAN
    /\ EvictCount \in Int
    /\ NULL \notin Files \cup Gens \cup Times \cup ScanIds \cup LruIds

VARIABLES
    scanLive, scanRec, scanTree,   \* scan records: allocated, contents, linked
    lruLive, lruRec, lruTree,      \* the same for LRU records
    clock,                         \* last reading, kept under StrictClock
    pc, op,                        \* where each process is, in which operation
    file, gen,                     \* the operation's argument
    rec, old, lru,                 \* its pointers
    ret,                           \* its result
    evicted,                       \* remove_count of remove_cache_entry
    fault                          \* what calls have damaged: memory, or the
                                   \* links of a tree

scanVars == <<scanLive, scanRec, scanTree>>
lruVars  == <<lruLive, lruRec, lruTree>>
args     == <<op, file, gen>>
ptrs     == <<rec, old, lru>>
vars == <<scanLive, scanRec, scanTree, lruLive, lruRec, lruTree, clock,
          pc, op, file, gen, rec, old, lru, ret, evicted, fault>>

Record == [file : Files, gen : Gens, time : Times]
Blank  == [file |-> NULL, gen |-> NULL, time |-> NULL]

RemovalLabels == {"lru_remove", "lru_free", "scan_remove", "scan_free"}
CallLabels    == {"idle", "insert", "find_old", "replace", "find", "lru_find",
                  "lru_alloc", "lru_insert", "free_old"} \cup RemovalLabels
UnloadLabels  == {"idle", "evict", "purge_scan", "purge_lru", "dead"}
                    \cup RemovalLabels
CallOps       == {"none", "insert", "update", "remove"}
UnloadOps     == {"none", "evict", "purge"}
Faults        == {"scan", "lru", "memory"}

(* Values have their types. *)
TypeOK ==
    /\ scanLive \subseteq ScanIds /\ scanTree \subseteq ScanIds
    /\ lruLive \subseteq LruIds /\ lruTree \subseteq LruIds
    /\ scanRec \in [ScanIds -> Record \cup {Blank}]
    /\ lruRec \in [LruIds -> Record \cup {Blank}]
    /\ clock \in Int
    /\ pc \in [Procs -> CallLabels \cup UnloadLabels]
    /\ op \in [Procs -> CallOps \cup UnloadOps]
    /\ \A t \in Threads : pc[t] \in CallLabels /\ op[t] \in CallOps
    /\ pc[Unloader] \in UnloadLabels /\ op[Unloader] \in UnloadOps
    /\ file \in [Procs -> Files \cup {NULL}]
    /\ gen \in [Procs -> Gens \cup {NULL}]
    /\ rec \in [Procs -> ScanIds \cup {NULL}]
    /\ old \in [Procs -> ScanIds \cup {NULL}]
    /\ lru \in [Procs -> LruIds \cup {NULL}]
    /\ ret \in [Procs -> {"none", "ok", "fail", "nomem"}]
    /\ evicted \in Nat
    /\ fault \subseteq Faults

-----------------------------------------------------------------------------
(* The trees, searched and ordered as the comparators order them. *)

\* RB_SEARCH with scan_cache_insert_compare_table: (dev_id, inode_number).
ScanNodes(f) == {s \in scanTree : scanRec[s].file = f}

\* RB_SEARCH with scan_cache_find_compare_table: the generation as well.
ScanMatches(f, g) == {s \in ScanNodes(f) : scanRec[s].gen = g}

\* RB_SEARCH with lru_cache_find_compare_table.
LruNodes(time) == {l \in lruTree : lruRec[l].time = time}

\* RB_FIRST of each tree; on torn links it may be any node.
ScanFirst == IF "scan" \in fault THEN scanTree
             ELSE {s \in scanTree : \A r \in scanTree : scanRec[s].file <= scanRec[r].file}
LruFirst  == IF "lru" \in fault THEN lruTree
             ELSE {l \in lruTree : \A m \in lruTree : lruRec[l].time <= lruRec[m].time}

\* The record whose time stamp an operation looks up in the LRU tree: the
\* replaced one in find_and_update_lru_cache_record, else the one found.
TimeKey(p) == IF op[p] = "update" THEN old[p] ELSE rec[p]

\* The records the next step of p reads, writes or frees are allocated.
PointersGood(p) ==
    /\ pc[p] \in {"insert", "find_old", "replace", "lru_alloc", "scan_remove", "scan_free"}
          => rec[p] \in scanLive
    /\ pc[p] \in {"replace", "free_old"} => old[p] \in scanLive
    /\ pc[p] = "lru_find" => TimeKey(p) \in scanLive
    /\ pc[p] \in {"lru_remove", "lru_free", "lru_insert"} => lru[p] \in lruLive

\* The next step of p replaces or unlinks a record that is not linked; nothing
\* in the code looks whether it is.
Stale(p) ==
    \/ pc[p] = "replace" /\ old[p] \notin scanTree
    \/ pc[p] = "scan_remove" /\ rec[p] \notin scanTree
    \/ pc[p] = "lru_remove" /\ lru[p] \notin lruTree

\* The next step of p follows links that may lead to freed memory.
Misled(p) ==
    \/ Stale(p)
    \/ /\ "scan" \in fault
       /\ pc[p] \in {"insert", "find_old", "replace", "find", "scan_remove", "evict", "purge_scan"}
    \/ /\ "lru" \in fault
       /\ pc[p] \in {"lru_find", "lru_remove", "lru_insert", "evict", "purge_lru"}

At(p, label) == /\ pc[p] = label
                /\ "memory" \notin fault
                /\ PointersGood(p)

Goto(p, label) == pc' = [pc EXCEPT ![p] = label]

\* Leaves the operation: back to idle, or to a loop of exit_scan_cache.
Leave(p, label) ==
    /\ Goto(p, label)
    /\ op' = [op EXCEPT ![p] = "none"]
    /\ file' = [file EXCEPT ![p] = NULL]
    /\ gen' = [gen EXCEPT ![p] = NULL]
    /\ rec' = [rec EXCEPT ![p] = NULL]
    /\ old' = [old EXCEPT ![p] = NULL]
    /\ lru' = [lru EXCEPT ![p] = NULL]

Return(p, result) ==
    /\ Leave(p, "idle")
    /\ ret' = [ret EXCEPT ![p] = result]

FreeScan(s) ==
    /\ scanLive' = scanLive \ {s}
    /\ scanRec' = [scanRec EXCEPT ![s] = Blank]

-----------------------------------------------------------------------------
Init ==
    /\ scanLive = {} /\ scanTree = {} /\ scanRec = [s \in ScanIds |-> Blank]
    /\ lruLive = {} /\ lruTree = {} /\ lruRec = [l \in LruIds |-> Blank]
    /\ clock = -1
    /\ pc = [p \in Procs |-> "idle"]
    /\ op = [p \in Procs |-> "none"]
    /\ file = [p \in Procs |-> NULL] /\ gen = [p \in Procs |-> NULL]
    /\ rec = [p \in Procs |-> NULL] /\ old = [p \in Procs |-> NULL]
    /\ lru = [p \in Procs |-> NULL]
    /\ ret = [p \in Procs |-> "none"]
    /\ evicted = 0
    /\ fault = {}

\* The cache is called for f by t while the module is loaded.
Called(t, f) ==
    /\ t \in Owner[f]
    /\ At(t, "idle")
    /\ pc[Unloader] = "idle"

\* get_time_stamp: wall-clock time, which may repeat or step back unless
\* StrictClock says otherwise.
Reads(now) ==
    /\ StrictClock => now > clock
    /\ clock' = IF StrictClock THEN now ELSE clock

\* Fault: the record's time stamp is not filled in.
CallInsertUnstamped(t, f, g) ==
    /\ Called(t, f)
    /\ \E s \in ScanIds \ scanLive :
          /\ scanLive' = scanLive \cup {s}
          /\ scanRec' = [scanRec EXCEPT ![s] = [file |-> f, gen |-> g, time |-> NULL]]
          /\ rec' = [rec EXCEPT ![t] = s]
    /\ Goto(t, "insert")
    /\ op' = [op EXCEPT ![t] = "insert"]
    /\ file' = [file EXCEPT ![t] = f]
    /\ gen' = [gen EXCEPT ![t] = g]
    /\ ret' = [ret EXCEPT ![t] = "none"]
    /\ UNCHANGED <<scanTree, lruVars, clock, old, lru, evicted, fault>>

\* insert_scan_cache_record up to its first lock.
CallInsert(t, f, g) ==
    /\ Called(t, f)
    /\ \E s \in ScanIds \ scanLive, now \in Times :
          /\ Reads(now)
          /\ scanLive' = scanLive \cup {s}
          /\ scanRec' = [scanRec EXCEPT ![s] = [file |-> f, gen |-> g, time |-> now]]
          /\ rec' = [rec EXCEPT ![t] = s]
    /\ Goto(t, "insert")
    /\ op' = [op EXCEPT ![t] = "insert"]
    /\ file' = [file EXCEPT ![t] = f]
    /\ gen' = [gen EXCEPT ![t] = g]
    /\ ret' = [ret EXCEPT ![t] = "none"]
    /\ UNCHANGED <<scanTree, lruVars, old, lru, evicted, fault>>

\* scan_cache_alloc returned NULL: -ENOMEM.
CallInsertNoMem(t, f) ==
    /\ Called(t, f)
    /\ ret' = [ret EXCEPT ![t] = "nomem"]
    /\ UNCHANGED <<scanVars, lruVars, clock, pc, args, ptrs, evicted, fault>>

\* RB_INSERT links the record.
Insert(t) ==
    /\ At(t, "insert")
    /\ ScanNodes(scanRec[rec[t]].file) = {} /\ "scan" \notin fault
    /\ scanTree' = scanTree \cup {rec[t]}
    /\ Goto(t, "lru_alloc")
    /\ UNCHANGED <<scanLive, scanRec, lruVars, clock, args, ptrs, ret, evicted, fault>>

\* Fault: the result of RB_INSERT is ignored, the record passes for linked.
InsertDuplicateIgnored(t) ==
    /\ At(t, "insert")
    /\ ScanNodes(scanRec[rec[t]].file) # {}
    /\ Goto(t, "lru_alloc")
    /\ UNCHANGED <<scanVars, lruVars, clock, args, ptrs, ret, evicted, fault>>

\* RB_INSERT met the key: find_and_update_scan_cache_record is called.
InsertDuplicate(t) ==
    /\ At(t, "insert")
    /\ ScanNodes(scanRec[rec[t]].file) # {}
    /\ Goto(t, "find_old")
    /\ op' = [op EXCEPT ![t] = "update"]
    /\ UNCHANGED <<scanVars, lruVars, clock, file, gen, ptrs, ret, evicted, fault>>

\* The second search, under a lock taken anew.
FindOld(t) ==
    /\ At(t, "find_old")
    /\ \E s \in ScanNodes(scanRec[rec[t]].file) : old' = [old EXCEPT ![t] = s]
    /\ Goto(t, "replace")
    /\ UNCHANGED <<scanVars, lruVars, clock, args, rec, lru, ret, evicted, fault>>

\* The key has gone meanwhile: the new record is freed.
FindOldFails(t) ==
    /\ At(t, "find_old")
    /\ ScanNodes(scanRec[rec[t]].file) = {}
    /\ FreeScan(rec[t])
    /\ Return(t, "fail")
    /\ UNCHANGED <<scanTree, lruVars, clock, evicted, fault>>

\* RB_REPLACE, under a third lock.
Replace(t) ==
    /\ At(t, "replace") /\ ~Misled(t)
    /\ scanTree' = (scanTree \ {old[t]}) \cup {rec[t]}
    /\ Goto(t, "lru_find")
    /\ UNCHANGED <<scanLive, scanRec, lruVars, clock, args, ptrs, ret, evicted, fault>>

\* The LRU search of find_and_update_lru_cache_record and of
\* find_remove_lru_cache_record.
LruFind(t) ==
    /\ At(t, "lru_find")
    /\ \E l \in LruNodes(scanRec[TimeKey(t)].time) : lru' = [lru EXCEPT ![t] = l]
    /\ Goto(t, "lru_remove")
    /\ UNCHANGED <<scanVars, lruVars, clock, args, rec, old, ret, evicted, fault>>

\* No LRU record: an update fails, a removal goes on; both unlink the record.
LruFindFails(t) ==
    /\ At(t, "lru_find")
    /\ LruNodes(scanRec[TimeKey(t)].time) = {}
    /\ Goto(t, "scan_remove")
    /\ ret' = [ret EXCEPT ![t] = IF op[t] = "update" THEN "fail" ELSE @]
    /\ UNCHANGED <<scanVars, lruVars, clock, args, ptrs, evicted, fault>>

\* remove_lru_cache_record: unlink under the lock,
LruRemove(p) ==
    /\ At(p, "lru_remove") /\ ~Misled(p)
    /\ lruTree' = lruTree \ {lru[p]}
    /\ Goto(p, "lru_free")
    /\ UNCHANGED <<scanVars, lruLive, lruRec, clock, args, ptrs, ret, evicted, fault>>

\* Fault: the LRU record is unlinked and not freed.
LruFreeNothing(p) ==
    /\ At(p, "lru_free")
    /\ \/ /\ op[p] = "update"
          /\ Goto(p, "lru_alloc")
          /\ lru' = [lru EXCEPT ![p] = NULL]
          /\ UNCHANGED <<args, rec, old>>
       \/ /\ op[p] \in {"remove", "evict"}
          /\ Goto(p, "scan_remove")
          /\ lru' = [lru EXCEPT ![p] = NULL]
          /\ UNCHANGED <<args, rec, old>>
       \/ /\ op[p] = "purge"
          /\ Leave(p, "purge_lru")
    /\ UNCHANGED <<scanVars, lruVars, clock, ret, evicted, fault>>

\* and free after it.
LruFree(p) ==
    /\ At(p, "lru_free")
    /\ lruLive' = lruLive \ {lru[p]}
    /\ lruRec' = [lruRec EXCEPT ![lru[p]] = Blank]
    /\ \/ /\ op[p] = "update"
          /\ Goto(p, "lru_alloc")
          /\ lru' = [lru EXCEPT ![p] = NULL]
          /\ UNCHANGED <<args, rec, old>>
       \/ /\ op[p] \in {"remove", "evict"}
          /\ Goto(p, "scan_remove")
          /\ lru' = [lru EXCEPT ![p] = NULL]
          /\ UNCHANGED <<args, rec, old>>
       \/ /\ op[p] = "purge"
          /\ Leave(p, "purge_lru")
    /\ UNCHANGED <<scanVars, lruTree, clock, ret, evicted, fault>>

\* insert_lru_cache_record: allocate and copy the record's fields,
LruAlloc(t) ==
    /\ At(t, "lru_alloc")
    /\ \E l \in LruIds \ lruLive :
          /\ lruLive' = lruLive \cup {l}
          /\ lruRec' = [lruRec EXCEPT ![l] = scanRec[rec[t]]]
          /\ lru' = [lru EXCEPT ![t] = l]
    /\ Goto(t, "lru_insert")
    /\ UNCHANGED <<scanVars, lruTree, clock, args, rec, old, ret, evicted, fault>>

\* Fault: the failed insertion returns and leaves the scan record linked.
LruAllocFailsKeeping(t) ==
    /\ At(t, "lru_alloc")
    /\ Return(t, "fail")
    /\ UNCHANGED <<scanVars, lruVars, clock, evicted, fault>>

\* lru_cache_alloc returned NULL.
LruAllocFails(t) ==
    /\ At(t, "lru_alloc")
    /\ Goto(t, "scan_remove")
    /\ ret' = [ret EXCEPT ![t] = "fail"]
    /\ UNCHANGED <<scanVars, lruVars, clock, args, ptrs, evicted, fault>>

\* Fault: the tree is not searched for the time stamp.
LruInsertBlindly(t) ==
    /\ At(t, "lru_insert")
    /\ lruTree' = lruTree \cup {lru[t]}
    /\ \/ /\ op[t] = "insert"
          /\ Return(t, "ok")
       \/ /\ op[t] = "update"
          /\ Goto(t, "free_old")
          /\ ret' = [ret EXCEPT ![t] = "ok"]
          /\ UNCHANGED <<args, ptrs>>
    /\ UNCHANGED <<scanVars, lruLive, lruRec, clock, evicted, fault>>

\* link it: the insertion is done, or the replaced record is still to free;
LruInsert(t) ==
    /\ At(t, "lru_insert")
    /\ LruNodes(lruRec[lru[t]].time) = {} /\ "lru" \notin fault
    /\ lruTree' = lruTree \cup {lru[t]}
    /\ \/ /\ op[t] = "insert"
          /\ Return(t, "ok")
       \/ /\ op[t] = "update"
          /\ Goto(t, "free_old")
          /\ ret' = [ret EXCEPT ![t] = "ok"]
          /\ UNCHANGED <<args, ptrs>>
    /\ UNCHANGED <<scanVars, lruLive, lruRec, clock, evicted, fault>>

\* Fault: the result of RB_INSERT is ignored.
LruInsertDuplicateIgnored(t) ==
    /\ At(t, "lru_insert")
    /\ LruNodes(lruRec[lru[t]].time) # {}
    /\ Return(t, "ok")
    /\ UNCHANGED <<scanVars, lruVars, clock, evicted, fault>>

\* the tree has the time stamp already: the LRU record is left allocated.
LruInsertDuplicate(t) ==
    /\ At(t, "lru_insert")
    /\ LruNodes(lruRec[lru[t]].time) # {}
    /\ Goto(t, "scan_remove")
    /\ lru' = [lru EXCEPT ![t] = NULL]
    /\ ret' = [ret EXCEPT ![t] = "fail"]
    /\ UNCHANGED <<scanVars, lruVars, clock, args, rec, old, evicted, fault>>

\* Fault: the scan record is not unlinked.
ScanRemoveNothing(p) ==
    /\ At(p, "scan_remove")
    /\ Goto(p, "scan_free")
    /\ UNCHANGED <<scanVars, lruVars, clock, args, ptrs, ret, evicted, fault>>

\* remove_scan_cache_record: unlink under the lock,
ScanRemove(p) ==
    /\ At(p, "scan_remove") /\ ~Misled(p)
    /\ scanTree' = scanTree \ {rec[p]}
    /\ Goto(p, "scan_free")
    /\ UNCHANGED <<scanLive, scanRec, lruVars, clock, args, ptrs, ret, evicted, fault>>

\* and free after it.
ScanFree(p) ==
    /\ At(p, "scan_free")
    /\ FreeScan(rec[p])
    /\ \/ /\ op[p] \in {"insert", "remove"}
          /\ Return(p, IF op[p] = "insert" THEN "fail" ELSE "ok")
          /\ UNCHANGED evicted
       \/ /\ op[p] = "update"
          /\ Goto(p, "free_old")
          /\ rec' = [rec EXCEPT ![p] = NULL]
          /\ UNCHANGED <<args, old, lru, ret, evicted>>
       \/ /\ op[p] = "evict"
          /\ Leave(p, "evict")
          /\ evicted' = evicted + 1
          /\ UNCHANGED ret
       \/ /\ op[p] = "purge"
          /\ Leave(p, "purge_scan")
          /\ UNCHANGED <<ret, evicted>>
    /\ UNCHANGED <<scanTree, lruVars, clock, fault>>

\* Fault: the replaced record is not freed.
FreeOldNothing(t) ==
    /\ At(t, "free_old")
    /\ Return(t, ret[t])
    /\ UNCHANGED <<scanVars, lruVars, clock, evicted, fault>>

\* The end of find_and_update_scan_cache_record.
FreeOld(t) ==
    /\ At(t, "free_old")
    /\ FreeScan(old[t])
    /\ Return(t, ret[t])
    /\ UNCHANGED <<scanTree, lruVars, clock, evicted, fault>>

\* find_remove_scan_cache_record up to its first lock.
CallRemove(t, f, g) ==
    /\ Called(t, f)
    /\ Goto(t, "find")
    /\ op' = [op EXCEPT ![t] = "remove"]
    /\ file' = [file EXCEPT ![t] = f]
    /\ gen' = [gen EXCEPT ![t] = g]
    /\ ret' = [ret EXCEPT ![t] = "none"]
    /\ UNCHANGED <<scanVars, lruVars, clock, ptrs, evicted, fault>>

\* find_scan_cache_record.
Find(t) ==
    /\ At(t, "find")
    /\ \E s \in ScanMatches(file[t], gen[t]) : rec' = [rec EXCEPT ![t] = s]
    /\ Goto(t, "lru_find")
    /\ UNCHANGED <<scanVars, lruVars, clock, args, old, lru, ret, evicted, fault>>

\* Fault: the search is repeated until it finds the record.
FindAgain(t) ==
    /\ At(t, "find")
    /\ ScanMatches(file[t], gen[t]) = {}
    /\ UNCHANGED vars

\* The generation is not cached.
FindFails(t) ==
    /\ At(t, "find")
    /\ ScanMatches(file[t], gen[t]) = {}
    /\ Return(t, "fail")
    /\ UNCHANGED <<scanVars, lruVars, clock, evicted, fault>>

-----------------------------------------------------------------------------
\* exit_scan_cache is called by module exit, once no call is in progress.
Unload ==
    /\ \A p \in Procs : At(p, "idle")
    /\ Goto(Unloader, "evict")
    /\ UNCHANGED <<scanVars, lruVars, clock, args, ptrs, ret, evicted, fault>>

\* Fault: any LRU record is evicted, not the first.
EvictAny ==
    /\ At(Unloader, "evict")
    /\ evicted < EvictCount
    /\ \E l \in lruTree : \E s \in ScanMatches(lruRec[l].file, lruRec[l].gen) :
          /\ lru' = [lru EXCEPT ![Unloader] = l]
          /\ rec' = [rec EXCEPT ![Unloader] = s]
          /\ file' = [file EXCEPT ![Unloader] = lruRec[l].file]
          /\ gen' = [gen EXCEPT ![Unloader] = lruRec[l].gen]
    /\ op' = [op EXCEPT ![Unloader] = "evict"]
    /\ Goto(Unloader, "lru_remove")
    /\ UNCHANGED <<scanVars, lruVars, clock, old, ret, evicted, fault>>

\* One round of remove_cache_entry: the oldest LRU record and its scan record.
Evict ==
    /\ At(Unloader, "evict")
    /\ evicted < EvictCount
    /\ \E l \in LruFirst : \E s \in ScanMatches(lruRec[l].file, lruRec[l].gen) :
          /\ lru' = [lru EXCEPT ![Unloader] = l]
          /\ rec' = [rec EXCEPT ![Unloader] = s]
          /\ file' = [file EXCEPT ![Unloader] = lruRec[l].file]
          /\ gen' = [gen EXCEPT ![Unloader] = lruRec[l].gen]
    /\ op' = [op EXCEPT ![Unloader] = "evict"]
    /\ Goto(Unloader, "lru_remove")
    /\ UNCHANGED <<scanVars, lruVars, clock, old, ret, evicted, fault>>

\* Fault: only the count ends the loop, an empty tree is searched again.
EvictRepeats ==
    /\ At(Unloader, "evict")
    /\ \/ /\ evicted >= EvictCount
          /\ Goto(Unloader, "purge_scan")
          /\ UNCHANGED <<scanVars, lruVars, clock, args, ptrs, ret, evicted, fault>>
       \/ lruTree = {} /\ UNCHANGED vars

\* remove_cache_entry is done: enough removed, no LRU record, or no scan
\* record for it.
EvictEnds ==
    /\ At(Unloader, "evict")
    /\ \/ evicted >= EvictCount
       \/ lruTree = {}
       \/ \E l \in LruFirst : ScanMatches(lruRec[l].file, lruRec[l].gen) = {}
    /\ Goto(Unloader, "purge_scan")
    /\ UNCHANGED <<scanVars, lruVars, clock, args, ptrs, ret, evicted, fault>>

\* purge_scan_cache.
PurgeScan ==
    /\ At(Unloader, "purge_scan")
    /\ \E s \in ScanFirst : rec' = [rec EXCEPT ![Unloader] = s]
    /\ op' = [op EXCEPT ![Unloader] = "purge"]
    /\ Goto(Unloader, "scan_remove")
    /\ UNCHANGED <<scanVars, lruVars, clock, file, gen, old, lru, ret, evicted, fault>>

PurgeScanEnds ==
    /\ At(Unloader, "purge_scan")
    /\ scanTree = {}
    /\ Goto(Unloader, "purge_lru")
    /\ UNCHANGED <<scanVars, lruVars, clock, args, ptrs, ret, evicted, fault>>

\* purge_lru_cache.
PurgeLru ==
    /\ At(Unloader, "purge_lru")
    /\ \E l \in LruFirst : lru' = [lru EXCEPT ![Unloader] = l]
    /\ op' = [op EXCEPT ![Unloader] = "purge"]
    /\ Goto(Unloader, "lru_remove")
    /\ UNCHANGED <<scanVars, lruVars, clock, file, gen, rec, old, ret, evicted, fault>>

\* Both slabs are destroyed.
Destroy ==
    /\ At(Unloader, "purge_lru")
    /\ lruTree = {}
    /\ Goto(Unloader, "dead")
    /\ UNCHANGED <<scanVars, lruVars, clock, args, ptrs, ret, evicted, fault>>

-----------------------------------------------------------------------------
(* What goes on after a record was unlinked under a call that holds it.  The *)
(* library writes the stale links of the record into the tree: it loses      *)
(* records, or leads to unlinked and freed ones.  Nothing more is known of   *)
(* the nodes that searches meet, after this and every later change.          *)

ScanTorn(p, label) ==
    /\ scanTree' \in SUBSET ScanIds
    /\ fault' = fault \cup {"scan"}
    /\ Goto(p, label)
    /\ UNCHANGED <<scanLive, scanRec, lruVars, clock, args, ptrs, ret, evicted>>

LruTorn ==
    /\ lruTree' \in SUBSET LruIds
    /\ fault' = fault \cup {"lru"}
    /\ UNCHANGED <<scanVars, lruLive, lruRec, clock, evicted>>

InsertTorn(t) ==
    /\ At(t, "insert") /\ Misled(t)
    /\ ScanNodes(scanRec[rec[t]].file) = {}
    /\ ScanTorn(t, "lru_alloc")

ReplaceTorn(t) == At(t, "replace") /\ Misled(t) /\ ScanTorn(t, "lru_find")

ScanRemoveTorn(p) == At(p, "scan_remove") /\ Misled(p) /\ ScanTorn(p, "scan_free")

LruRemoveTorn(p) ==
    /\ At(p, "lru_remove") /\ Misled(p)
    /\ LruTorn
    /\ Goto(p, "lru_free")
    /\ UNCHANGED <<args, ptrs, ret>>

LruInsertTorn(t) ==
    /\ At(t, "lru_insert") /\ Misled(t)
    /\ LruNodes(lruRec[lru[t]].time) = {}
    /\ LruTorn
    /\ \/ op[t] = "insert" /\ Return(t, "ok")
       \/ /\ op[t] = "update"
          /\ Goto(t, "free_old")
          /\ ret' = [ret EXCEPT ![t] = "ok"]
          /\ UNCHANGED <<args, ptrs>>

\* A freed record is read, written or freed again, by its pointer or by way of
\* stale links: the kernel's memory is corrupt and nothing more is said of it.
Fault(p) ==
    /\ "memory" \notin fault
    /\ ~PointersGood(p) \/ Misled(p)
    /\ fault' = fault \cup {"memory"}
    /\ UNCHANGED <<scanVars, lruVars, clock, pc, args, ptrs, ret, evicted>>

Call(t) ==
    \E f \in Files :
        \/ CallInsertNoMem(t, f)
        \/ \E g \in Gens : CallInsert(t, f, g) \/ CallRemove(t, f, g)

Step(t) ==
    \/ Insert(t) \/ InsertDuplicate(t)
    \/ FindOld(t) \/ FindOldFails(t) \/ Replace(t) \/ FreeOld(t)
    \/ Find(t) \/ FindFails(t)
    \/ LruFind(t) \/ LruFindFails(t)
    \/ LruAlloc(t) \/ LruAllocFails(t) \/ LruInsert(t) \/ LruInsertDuplicate(t)

Removal(p) ==
    LruRemove(p) \/ LruFree(p) \/ ScanRemove(p) \/ ScanFree(p)

Stray(p) ==
    \/ p \in Threads /\ (InsertTorn(p) \/ ReplaceTorn(p) \/ LruInsertTorn(p))
    \/ ScanRemoveTorn(p) \/ LruRemoveTorn(p)

UnloadStep ==
    Evict \/ EvictEnds \/ PurgeScan \/ PurgeScanEnds \/ PurgeLru \/ Destroy

\* The module is gone, or the kernel's memory is corrupt.
Halted ==
    /\ pc[Unloader] = "dead" \/ "memory" \in fault
    /\ UNCHANGED vars

Next ==
    \/ \E t \in Threads : Call(t) \/ Step(t)
    \/ \E p \in Procs : Removal(p) \/ Stray(p) \/ Fault(p)
    \/ Unload
    \/ UnloadStep
    \/ Halted

Spec == Init /\ [][Next]_vars

\* Every call runs on to its end and so does exit_scan_cache: the critical
\* sections are short, nothing waits for another caller.  Nobody has to call.
FairSpec ==
    /\ Spec
    /\ \A t \in Threads : WF_vars(Step(t))
    /\ \A p \in Procs : WF_vars(Removal(p) \/ Stray(p))
    /\ WF_vars(UnloadStep)

-----------------------------------------------------------------------------
(* Properties. *)

\* The callers are serialised file by file: what the code needs and does not
\* enforce.
Exclusive == \A f \in Files : \A t, u \in Owner[f] : t = u

(* No critical section works on a record that was freed or unlinked after  *)
(* its pointer was read: pointers cross the unlock and relock of every     *)
(* operation of cache.c.  Holds when callers are serialised file by file.  *)
NoFault == fault = {}

(* However calls on one file overlap, a freed record is linked in a tree   *)
(* only after some call replaced, unlinked or freed a record that another  *)
(* one had taken out under it: a record is freed only by the call that     *)
(* unlinked it, and not relinked in between (cache.c:380-410, 516-535).    *)
TreesLive ==
    fault = {} => scanTree \subseteq scanLive /\ lruTree \subseteq lruLive

Purging == \/ pc[Unloader] \in {"purge_scan", "purge_lru", "dead"}
           \/ op[Unloader] = "purge"

Matched(f) ==
    /\ \A s \in scanTree : scanRec[s].file = f
          => \E l \in lruTree : lruRec[l] = scanRec[s]
    /\ \A l \in lruTree : lruRec[l].file = f
          => \E s \in scanTree : scanRec[s] = lruRec[l]

(* The two trees agree on every file no call is working on: a scan record  *)
(* has an LRU record with its generation and time stamp, and conversely,   *)
(* after any mix of inserts, updates, removals, failed allocations, equal  *)
(* time stamps and evictions.                                              *)
TreesAgree ==
    ~Purging => \A f \in Files : (\A p \in Procs : file[p] # f) => Matched(f)

AtRest == \A p \in Procs : pc[p] \in {"idle", "evict", "purge_scan", "purge_lru", "dead"}

(* However calls on one file overlap, and whichever allocation fails,      *)
(* between calls every allocated scan record is in the tree and none is    *)
(* left when exit_scan_cache destroys the slab, until a call uses a record *)
(* that another one had taken out under it.                                *)
NoScanLeak ==
    fault = {} => /\ AtRest => scanLive = scanTree
                  /\ pc[Unloader] = "dead" => scanLive = {}

(* The same for LRU records.  Holds when no two time stamps are equal.     *)
NoLruLeak ==
    /\ AtRest => lruLive = lruTree
    /\ pc[Unloader] = "dead" => lruLive = {}

(* What a call returns is true when it returns: after insert returned 0    *)
(* the file is in both trees with the generation given, after it failed it *)
(* is in neither, unless it had no memory for the scan record (-ENOMEM),   *)
(* when it never came to the trees; after find_remove returned the         *)
(* generation is not cached, and if it returned true nothing of the file   *)
(* is.                                                                     *)
ResultsAreTrue ==
    [][\A t \in Threads : pc[t] # "idle" /\ pc'[t] = "idle" =>
          LET scans == {scanRec'[s] : s \in scanTree'}
              lrus  == {lruRec'[l] : l \in lruTree'}
          IN  IF op[t] # "remove" /\ ret'[t] = "ok"
              THEN \E r \in scans \cap lrus : r.file = file[t] /\ r.gen = gen[t]
              ELSE \A r \in scans \cup lrus : r.file = file[t] =>
                      op[t] = "remove" /\ ret'[t] = "fail" /\ r.gen # gen[t]]_vars

(* What a call takes out of the LRU tree is the LRU record of the scan     *)
(* record it replaces, removes or evicts, although it looks for one of     *)
(* them by the time stamp and for the other by the file                    *)
(* (find_and_update_lru_cache_record, find_remove_lru_cache_record,        *)
(* remove_cache_entry).  Holds when callers are serialised file by file.   *)
RemovedTogether ==
    \A p \in Procs : pc[p] = "lru_remove" /\ op[p] # "purge" =>
        lruRec[lru[p]] = scanRec[TimeKey(p)]

(* remove_cache_entry evicts in order of age: no scan record older than an *)
(* evicted one, or as old, stays behind.                                   *)
EvictsOldest ==
    [][\A s \in scanTree \ scanTree' : op[Unloader] = "evict" =>
          \A r \in scanTree' : scanRec[s].time < scanRec[r].time]_vars

(* Every call returns. *)
CallsReturn == \A t \in Threads : pc[t] # "idle" ~> pc[t] = "idle"

(* exit_scan_cache finishes: its loops run out of records. *)
UnloadFinishes == pc[Unloader] # "idle" ~> pc[Unloader] = "dead"

(* When an update replaces and then frees the record its search found, the *)
(* record is still the one in the tree ("Delete Old scan_cache_record      *)
(* memory since it get replace", cache.c:405).                             *)
OldStillInTree == \A t \in Threads : pc[t] = "replace" => old[t] \in scanTree

(* When an update gives up its LRU record, the record is freed or in the   *)
(* tree: a failed update leaves nothing to clean up ("if it fail it delete *)
(* the scan_cache_record_ptr so no need to cleanup", cache.c:483).         *)
FailedUpdateCleansUp ==
    [][\A t \in Threads : op[t] = "update" /\ lru[t] # NULL /\ lru'[t] = NULL =>
          lru[t] \in lruTree' \/ lru[t] \notin lruLive']_vars
=============================================================================
