------------------------------ MODULE CacheMap ------------------------------
(***************************************************************************)
(* What the scan cache promises a caller that has it to itself: a set of   *)
(* records, one for each file at most, from which the oldest are evicted.  *)
(***************************************************************************)
EXTENDS Integers

CONSTANTS Files,   \* the keys: a device and an inode number
          Gens, Times

VARIABLE cache

Record == [file : Files, gen : Gens, time : Times]
Without(f) == {r \in cache : r.file # f}

Init == cache = {}

\* insert_scan_cache_record returned 0: the file's record is the new one,
\* which is one of those cached after the call.
Insert(r) == cache' = Without(r.file) \cup {r}

\* It failed: the file is not cached.
InsertFails(f) == cache' = Without(f)

\* find_remove_scan_cache_record returned true.
Remove(f, g) ==
    /\ \E r \in cache : r.file = f /\ r.gen = g
    /\ cache' = Without(f)

\* remove_cache_entry took the records older than the others, or purge_cache
\* all of them.
Evict ==
    /\ cache' \subseteq cache
    /\ \A r \in cache \ cache', s \in cache' : r.time < s.time

Next ==
    \/ \E r \in cache' \cap Record : Insert(r)
    \/ \E f \in Files : InsertFails(f) \/ \E g \in Gens : Remove(f, g)
    \/ Evict

Spec == Init /\ [][Next]_cache
=============================================================================
