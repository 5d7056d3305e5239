---------------------------- MODULE MCScanCache ----------------------------
(* Instances of ScanCache for TLC. *)
EXTENDS ScanCache, TLC

CONSTANTS t1, t2

\* Each thread keeps to a file of its own.
OwnerSplit == 1 :> {t1} @@ 2 :> {t2}
\* Any thread may work on any file.
OwnerShared == [f \in Files |-> Threads]

Ids == Permutations(ScanIds) \cup Permutations(LruIds) \cup Permutations(Gens)
IdsAndThreads == Ids \cup Permutations(Threads)
=============================================================================
