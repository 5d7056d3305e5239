----------------------------- MODULE CacheTree -----------------------------
(***************************************************************************)
(* The two trees of the scan cache, node by node, with the comparators and *)
(* the macros of cache.h that search and change them.  One caller; a step  *)
(* is a whole operation of cache.c.  ScanCache takes a tree for the set of *)
(* its nodes and interleaves callers; this module shows when that is right.*)
(*                                                                         *)
(* A node is the record it is embedded in.  Time stamps in the cache       *)
(* differ here, so they tell nodes apart.                                  *)
(***************************************************************************)
EXTENDS Integers, RbTree

CONSTANTS
    Devs,       \* values of dev_id
    Inodes,     \* values of inode_number
    Gens,       \* values of inode_generation
    Times,      \* values of time_stamp
    DevMod,     \* 2^w for the width w of dev_t and __u32
    LongMod,    \* 2^w for the width w of unsigned long and of int64_t
    MaxCount    \* largest argument of remove_cache_entry

ASSUME TreeAssumption ==
    /\ DevMod \in Nat \ {0} /\ LongMod \in Nat \ {0} /\ MaxCount \in Nat
    /\ Devs \subseteq 0..(DevMod - 1) /\ Gens \subseteq 0..(DevMod - 1)
    /\ Inodes \subseteq 0..(LongMod - 1)
    /\ Times \subseteq Nat
    /\ DevMod <= LongMod \div 2

Record == [dev : Devs, inode : Inodes, gen : Gens, time : Times]

\* A record is linked in a tree.  MaxHeight leaves room for every tree: one
\* sorted by different numbers below MaxHeight - 2, inode numbers or times, is
\* no higher than that, and rebalancing makes it two levels higher at most.
ASSUME LinkAssumption ==
    Node = Record /\ MaxHeight >= 2 /\ Inodes \cup Times \subseteq 0..(MaxHeight - 3)

VARIABLES scan_cache_rb_tree, lru_cache_rb_tree

vars == <<scan_cache_rb_tree, lru_cache_rb_tree>>

-----------------------------------------------------------------------------
(* The comparators: the sign of a difference held in an int64_t. *)

Sign(d) == IF d > 0 THEN 1 ELSE IF d < 0 THEN -1 ELSE 0

\* A difference of two 32-bit unsigned values stays unsigned when it is
\* widened to 64 bits.
DiffU32(a, b) == (a - b) % DevMod

\* Fault: the difference is kept unsigned.
DiffLongUnsigned(a, b) == (a - b) % LongMod

\* A difference of two unsigned longs is reinterpreted as signed, as the two
\* types have one width on a 64-bit kernel.  On a 32-bit one the difference of
\* inode numbers would be widened first and never negative, like DiffU32.
DiffLong(a, b) ==
    LET d == (a - b) % LongMod IN IF d >= LongMod \div 2 THEN d - LongMod ELSE d

\* The first difference that is not zero decides.
Then(d, e) == IF d # 0 THEN d ELSE e

scan_cache_insert_compare_table(a, b) ==
    Sign(Then(DiffU32(a.dev, b.dev), DiffLong(a.inode, b.inode)))

scan_cache_find_compare_table(a, b) ==
    Sign(Then(DiffU32(a.dev, b.dev),
              Then(DiffLong(a.inode, b.inode), DiffU32(a.gen, b.gen))))

\* Fault: the operands are swapped.
NewestFirst(a, b) == Sign(b.time - a.time)

\* tv_sec and tv_nsec are signed and read from the same clock.
lru_cache_insert_compare_table(a, b) == Sign(a.time - b.time)
lru_cache_find_compare_table(a, b)   == Sign(a.time - b.time)

-----------------------------------------------------------------------------
(* The macros.  A search ends at an equal node or at an empty place. *)

\* The set of the node found, empty for NULL.  dir[n] is the comparator's
\* result for the key and node n.
Descend(dir) ==
    LET walk[t \in Trees] ==
            IF t = Empty THEN {}
            ELSE IF dir[t.n] = 0 THEN {t.n} ELSE walk[Sub(t, Turn(dir[t.n]))]
    IN  walk
RB_SEARCH(t, key, cmp(_, _)) == Descend([n \in Node |-> cmp(key, n)])[t]

\* The tree with new linked where the search ended, or the same tree if a
\* node is equal.
LinkAfter(t, new, dir) == IF Descend(dir)[t] # {} THEN t ELSE rb_insert(t, new, dir)
RB_INSERT(t, new, cmp(_, _)) == LinkAfter(t, new, [n \in Node |-> cmp(new, n)])

RB_REMOVE(t, n) == rb_erase(t, n)
RB_REPLACE(t, old, new) == rb_replace_node(t, old, new)
RB_FIRST(t) == rb_first[t]

-----------------------------------------------------------------------------
Init == scan_cache_rb_tree = Empty /\ lru_cache_rb_tree = Empty

\* getnstimeofday: a time no cached record has.
Fresh == Times \ {n.time : n \in Nodes[scan_cache_rb_tree] \cup Nodes[lru_cache_rb_tree]}

\* Fault: the scan record stays linked when no memory is left.
InsertLruKeeping(scan, lru, n, memory) ==
    /\ scan_cache_rb_tree' = scan
    /\ lru_cache_rb_tree' = IF memory THEN RB_INSERT(lru, n, lru_cache_insert_compare_table)
                            ELSE lru

\* The trees after insert_lru_cache_record for n, whose scan record is linked
\* in scan: n is in both, or, if no memory was left, in neither.  The time of
\* n is fresh, so RB_INSERT does not refuse it; ScanCache has that branch.
InsertLru(scan, lru, n, memory) ==
    IF memory
    THEN /\ scan_cache_rb_tree' = scan
         /\ lru_cache_rb_tree' = RB_INSERT(lru, n, lru_cache_insert_compare_table)
    ELSE /\ scan_cache_rb_tree' = RB_REMOVE(scan, n)
         /\ lru_cache_rb_tree' = lru

\* insert_scan_cache_record of a file whose key is not found.
InsertNew(n, memory) ==
    /\ RB_SEARCH(scan_cache_rb_tree, n, scan_cache_insert_compare_table) = {}
    /\ InsertLru(RB_INSERT(scan_cache_rb_tree, n, scan_cache_insert_compare_table),
                 lru_cache_rb_tree, n, memory)

\* insert_scan_cache_record of one whose key is found, with
\* find_and_update_scan_cache_record and find_and_update_lru_cache_record.
InsertUpdate(n, memory) ==
    \E old \in RB_SEARCH(scan_cache_rb_tree, n, scan_cache_insert_compare_table) :
        LET scan == RB_REPLACE(scan_cache_rb_tree, old, n)
            lru  == RB_SEARCH(lru_cache_rb_tree, old, lru_cache_find_compare_table)
        IN  IF lru = {}
            THEN /\ scan_cache_rb_tree' = RB_REMOVE(scan, n)
                 /\ UNCHANGED lru_cache_rb_tree
            ELSE \E l \in lru :
                    InsertLru(scan, RB_REMOVE(lru_cache_rb_tree, l), n, memory)

\* find_remove_scan_cache_record.
FindRemove(key) ==
    \E n \in RB_SEARCH(scan_cache_rb_tree, key, scan_cache_find_compare_table) :
        /\ scan_cache_rb_tree' = RB_REMOVE(scan_cache_rb_tree, n)
        /\ LET lru == RB_SEARCH(lru_cache_rb_tree, n, lru_cache_find_compare_table)
           IN  IF lru = {} THEN UNCHANGED lru_cache_rb_tree
               ELSE \E l \in lru : lru_cache_rb_tree' = RB_REMOVE(lru_cache_rb_tree, l)

\* One round of remove_cache_entry: the oldest record leaves both trees.  A
\* round that does not find it leaves the loop, as every later one would.
EvictOne(scan, lru) ==
    IF lru = Empty THEN <<scan, lru>>
    ELSE LET l == RB_FIRST(lru)
             s == RB_SEARCH(scan, l, scan_cache_find_compare_table)
         IN  IF s = {} THEN <<scan, lru>>
             ELSE <<RB_REMOVE(scan, CHOOSE n \in s : TRUE), RB_REMOVE(lru, l)>>

\* The trees after up to count rounds.
Evicted(scan, lru, count) ==
    LET after[k \in 0..count] ==
            IF k = 0 THEN <<scan, lru>> ELSE EvictOne(after[k - 1][1], after[k - 1][2])
    IN  after[count]

remove_cache_entry(count) ==
    LET after == Evicted(scan_cache_rb_tree, lru_cache_rb_tree, count)
    IN  scan_cache_rb_tree' = after[1] /\ lru_cache_rb_tree' = after[2]

\* The tree after the loop of purge_scan_cache or purge_lru_cache, which
\* takes out the first node until there is none.  The records of a tree have
\* different times, so it has fewer nodes than MaxHeight.
PurgeOne(t) == IF t = Empty THEN t ELSE RB_REMOVE(t, RB_FIRST(t))
Purged(t) ==
    LET left[k \in 0..MaxHeight] == IF k = 0 THEN t ELSE PurgeOne(left[k - 1])
    IN  left[MaxHeight]

purge_cache ==
    /\ scan_cache_rb_tree' = Purged(scan_cache_rb_tree)
    /\ lru_cache_rb_tree' = Purged(lru_cache_rb_tree)

InsertFile ==
    \E d \in Devs, i \in Inodes, g \in Gens, time \in Fresh, memory \in BOOLEAN :
        LET n == [dev |-> d, inode |-> i, gen |-> g, time |-> time]
        IN  InsertNew(n, memory) \/ InsertUpdate(n, memory)

RemoveFile == \E d \in Devs, i \in Inodes, g \in Gens : FindRemove([dev |-> d, inode |-> i, gen |-> g])

Next ==
    \/ InsertFile
    \/ RemoveFile
    \/ \E count \in 0..MaxCount : remove_cache_entry(count)
    \/ purge_cache

Spec == Init /\ [][Next]_vars

-----------------------------------------------------------------------------
(* Properties. *)

ScanNodes == Nodes[scan_cache_rb_tree]
Keys == [dev : Devs, inode : Inodes, gen : Gens]

(* Every search ends where it should: a key is found exactly when a linked *)
(* record has it, whatever inserts, updates, removals and evictions have   *)
(* rebalanced the trees.  Holds while records are of one device and inode  *)
(* numbers lie less than half their range apart.                           *)
SearchFinds ==
    \A k \in Keys :
        /\ RB_SEARCH(scan_cache_rb_tree, k, scan_cache_insert_compare_table)
              = {n \in ScanNodes : n.dev = k.dev /\ n.inode = k.inode}
        /\ RB_SEARCH(scan_cache_rb_tree, k, scan_cache_find_compare_table)
              = {n \in ScanNodes : n.dev = k.dev /\ n.inode = k.inode /\ n.gen = k.gen}

(* The LRU tree lists the records of the scan tree from the oldest to the  *)
(* newest, which RB_FIRST of remove_cache_entry relies on, and both trees  *)
(* stay balanced.                                                          *)
LruInOrder ==
    LET s == InOrder[lru_cache_rb_tree] IN
    /\ {s[i] : i \in DOMAIN s} = ScanNodes
    /\ \A i, j \in DOMAIN s : i < j => s[i].time < s[j].time
    /\ IsRedBlack(scan_cache_rb_tree) /\ IsRedBlack(lru_cache_rb_tree)

Abstract(n) == [file |-> <<n.dev, n.inode>>, gen |-> n.gen, time |-> n.time]
Map == INSTANCE CacheMap WITH Files <- Devs \X Inodes,
                              cache <- {Abstract(n) : n \in ScanNodes}

(* The trees implement the cache a caller is promised: one record for a    *)
(* file, replaced by an insertion, gone after a failed one or a removal,   *)
(* evicted in order of age.                                                *)
ImplementsMap == Map!Spec

(* The scan tree holds one record for a device and inode number            *)
(* ("Dupicate Entry , which should get updated as ID and inode_number key  *)
(* is same", rbtree_test.c:128).                                           *)
KeysUnique ==
    \A m, n \in ScanNodes : m.dev = n.dev /\ m.inode = n.inode => m = n
=============================================================================
