-------------------------- MODULE ScanCacheProofs ---------------------------
(***************************************************************************)
(* What holds of ScanCache for any number of threads, files, time stamps   *)
(* and slab objects: under every interleaving of the callers the variables *)
(* keep their types, and until a call uses a record that another call has  *)
(* unlinked the trees hold no freed record and no scan record is lost;     *)
(* when callers are serialised file by file the cache never uses a freed   *)
(* or unlinked record and its two trees agree, tells its callers the       *)
(* truth, evicts the oldest record first and, with a strict clock, loses   *)
(* none.                                                                   *)
(***************************************************************************)
EXTENDS ScanCache, TLAPS

-----------------------------------------------------------------------------
(* The variables always have their types, and a step of one process leaves *)
(* the others where they are.                                              *)

\* TypeOK by parts.
MemOK ==
    /\ scanLive \subseteq ScanIds /\ scanTree \subseteq ScanIds
    /\ lruLive \subseteq LruIds /\ lruTree \subseteq LruIds
    /\ scanRec \in [ScanIds -> Record \cup {Blank}]
    /\ lruRec \in [LruIds -> Record \cup {Blank}]
PcOK ==
    /\ pc \in [Procs -> CallLabels \cup UnloadLabels]
    /\ \A t \in Threads : pc[t] \in CallLabels
    /\ pc[Unloader] \in UnloadLabels
OpOK ==
    /\ op \in [Procs -> CallOps \cup UnloadOps]
    /\ \A t \in Threads : op[t] \in CallOps
    /\ op[Unloader] \in UnloadOps
ArgOK ==
    /\ file \in [Procs -> Files \cup {NULL}]
    /\ gen \in [Procs -> Gens \cup {NULL}]
PtrOK ==
    /\ rec \in [Procs -> ScanIds \cup {NULL}]
    /\ old \in [Procs -> ScanIds \cup {NULL}]
    /\ lru \in [Procs -> LruIds \cup {NULL}]
RestOK ==
    /\ clock \in Int /\ evicted \in Nat /\ fault \subseteq Faults
    /\ ret \in [Procs -> {"none", "ok", "fail", "nomem"}]

(* The fields of a slab object. *)
LEMMA RecordFields ==
  \A r \in Record \cup {Blank} :
     r.file \in Files \cup {NULL} /\ r.gen \in Gens \cup {NULL}
  BY DEF Record, Blank

(* A freed object names no file. *)
LEMMA BlankFile == Blank.file = NULL
  BY Zenon DEF Blank

(* The parts of TypeOK. *)
LEMMA TypeParts ==
  /\ TypeOK <=> MemOK /\ PcOK /\ OpOK /\ ArgOK /\ PtrOK /\ RestOK
  /\ TypeOK' <=> MemOK' /\ PcOK' /\ OpOK' /\ ArgOK' /\ PtrOK' /\ RestOK'
  BY Zenon DEF TypeOK, MemOK, PcOK, OpOK, ArgOK, PtrOK, RestOK

\* Label b is one process p may be at.
LabelOf(p, b) ==
    /\ p \in Threads => b \in CallLabels
    /\ p = Unloader => b \in UnloadLabels

(* Goto moves one process. *)
LEMMA GotoFrame ==
  ASSUME PcOK, NEW p \in Procs, NEW b, Goto(p, b)
  PROVE  /\ pc'[p] = b
         /\ \A q \in Procs : q # p => pc'[q] = pc[q]
         /\ LabelOf(p, b) => PcOK'
<1>1. pc' = [q \in Procs |-> IF q = p THEN b ELSE pc[q]]
  BY Zenon DEF Goto, PcOK
<1>2. p \in Threads \/ p = Unloader
  BY Zenon DEF Procs
<1>3. LabelOf(p, b) => b \in CallLabels \cup UnloadLabels
  BY Zenon, <1>2 DEF LabelOf
<1>4. (\A t \in Threads : t \in Procs) /\ Unloader \in Procs
  BY Zenon DEF Procs
<1>5. QED
  BY Zenon, <1>1, <1>3, <1>4 DEF PcOK, LabelOf

\* A step leaves the local state of process q as it is.
LocalSame(q) ==
    /\ pc'[q] = pc[q] /\ op'[q] = op[q] /\ file'[q] = file[q]
    /\ rec'[q] = rec[q] /\ old'[q] = old[q] /\ lru'[q] = lru[q]

(* Leave resets one process. *)
LEMMA LeaveFrame ==
  ASSUME PcOK, OpOK, ArgOK, PtrOK, NEW p \in Procs, NEW b, Leave(p, b)
  PROVE  /\ pc'[p] = b /\ op'[p] = "none" /\ file'[p] = NULL
         /\ rec'[p] = NULL /\ old'[p] = NULL /\ lru'[p] = NULL
         /\ \A q \in Procs : q # p => LocalSame(q)
         /\ LabelOf(p, b) => PcOK' /\ OpOK' /\ ArgOK' /\ PtrOK'
<1>1. /\ pc'[p] = b
      /\ \A q \in Procs : q # p => pc'[q] = pc[q]
      /\ LabelOf(p, b) => PcOK'
  BY Zenon, GotoFrame DEF Leave
<1>2. op' = [q \in Procs |-> IF q = p THEN "none" ELSE op[q]]
  BY Zenon DEF Leave, OpOK
<1>3. /\ file' = [q \in Procs |-> IF q = p THEN NULL ELSE file[q]]
      /\ gen' = [q \in Procs |-> IF q = p THEN NULL ELSE gen[q]]
  BY Zenon DEF Leave, ArgOK
<1>4. /\ rec' = [q \in Procs |-> IF q = p THEN NULL ELSE rec[q]]
      /\ old' = [q \in Procs |-> IF q = p THEN NULL ELSE old[q]]
      /\ lru' = [q \in Procs |-> IF q = p THEN NULL ELSE lru[q]]
  BY Zenon DEF Leave, PtrOK
<1>5. OpOK'
  BY Zenon, <1>2 DEF OpOK, Procs, CallOps, UnloadOps
<1>6. ArgOK' /\ PtrOK'
  BY Zenon, <1>3, <1>4 DEF ArgOK, PtrOK
<1>7. QED
  BY Zenon, <1>1, <1>2, <1>3, <1>4, <1>5, <1>6 DEF LocalSame

(* Freeing a scan record keeps the records' types. *)
LEMMA FreeType ==
  ASSUME MemOK, NEW s \in ScanIds, FreeScan(s), UNCHANGED <<scanTree, lruVars>>
  PROVE  MemOK'
  BY Zenon DEF MemOK, FreeScan, lruVars

(* An empty cache has the types. *)
LEMMA TypeInit == Init => TypeOK
<1> SUFFICES ASSUME Init PROVE TypeOK
  OBVIOUS
<1>1. scanRec \in [ScanIds -> Record \cup {Blank}]
  BY Zenon DEF Init
<1>2. lruRec \in [LruIds -> Record \cup {Blank}]
  BY Zenon DEF Init
<1>3. clock \in Int /\ evicted \in Nat
  BY DEF Init
<1>4. fault \subseteq Faults
  BY Zenon DEF Init
<1>5. pc \in [Procs -> {"idle"}] /\ op \in [Procs -> {"none"}] /\ ret \in [Procs -> {"none"}]
  BY Zenon DEF Init
<1>6. QED
  BY Zenon, <1>1, <1>2, <1>3, <1>4, <1>5 DEF Init, TypeOK, Procs, CallLabels,
     UnloadLabels, RemovalLabels, CallOps, UnloadOps

(* Every step of a call keeps the types. *)
LEMMA TypeCallStep ==
  ASSUME TypeOK, NEW t \in Threads, Step(t)
  PROVE  TypeOK'
<1> USE TypeParts
<1> t \in Procs /\ t # Unloader
  BY Zenon, CacheAssumption DEF Procs
<1>0. \A b \in CallLabels : LabelOf(t, b)
  BY Zenon DEF LabelOf
<1>1. \A b : Goto(t, b) /\ b \in CallLabels => PcOK'
  BY Zenon, <1>0, GotoFrame
<1>2. \A b : Leave(t, b) /\ b \in CallLabels => PcOK' /\ OpOK' /\ ArgOK' /\ PtrOK'
  BY Zenon, <1>0, LeaveFrame
<1>3. /\ "idle" \in CallLabels /\ "insert" \in CallLabels /\ "find_old" \in CallLabels
      /\ "replace" \in CallLabels /\ "lru_find" \in CallLabels
      /\ "lru_alloc" \in CallLabels /\ "lru_insert" \in CallLabels
      /\ "free_old" \in CallLabels /\ "lru_remove" \in CallLabels
      /\ "scan_remove" \in CallLabels
  BY Zenon DEF CallLabels, RemovalLabels
<1>4. UNCHANGED <<op, file, gen>> => OpOK' /\ ArgOK'
  BY Zenon DEF OpOK, ArgOK
<1>5. UNCHANGED <<rec, old, lru>> => PtrOK'
  BY Zenon DEF PtrOK
<1>6. UNCHANGED <<clock, ret, evicted, fault>> => RestOK'
  BY Zenon DEF RestOK
<1>7. \A r \in {"none", "ok", "fail", "nomem"} :
         ret' = [ret EXCEPT ![t] = r] /\ UNCHANGED <<clock, evicted, fault>> => RestOK'
  BY Zenon DEF RestOK
<1>8. UNCHANGED <<scanLive, scanRec, scanTree, lruLive, lruRec, lruTree>> => MemOK'
  BY Zenon DEF MemOK
<1>9. CASE Insert(t)
  <2>1. rec[t] \in scanLive
    BY Zenon, <1>9 DEF Insert, At, PointersGood
  <2>2. MemOK'
    BY Zenon, <1>9, <2>1 DEF Insert, MemOK, lruVars
  <2>3. QED
    BY Zenon, <1>1, <1>3, <1>4, <1>5, <1>6, <1>9, <2>2 DEF Insert, args, ptrs
<1>10. CASE InsertDuplicate(t)
  <2>1. OpOK' /\ ArgOK'
    BY <1>10 DEF InsertDuplicate, OpOK, ArgOK, CallOps
  <2>2. QED
    BY Zenon, <1>1, <1>3, <1>5, <1>6, <1>8, <1>10, <2>1
       DEF InsertDuplicate, ptrs, scanVars, lruVars
<1>11. CASE FindOld(t)
  <2>1. PtrOK'
    BY Zenon, <1>11 DEF FindOld, ScanNodes, MemOK, PtrOK
  <2>2. QED
    BY Zenon, <1>1, <1>3, <1>4, <1>6, <1>8, <1>11, <2>1 DEF FindOld, args, scanVars, lruVars
<1>12. CASE FindOldFails(t)
  <2>1. rec[t] \in ScanIds
    BY Zenon, <1>12 DEF FindOldFails, At, PointersGood, MemOK
  <2>2. MemOK'
    BY Zenon, <1>12, <2>1, FreeType DEF FindOldFails
  <2>3. QED
    BY Zenon, <1>2, <1>3, <1>7, <1>12, <2>2 DEF FindOldFails, Return
<1>13. CASE Replace(t)
  <2>1. rec[t] \in scanLive
    BY Zenon, <1>13 DEF Replace, At, PointersGood
  <2>2. MemOK'
    BY Zenon, <1>13, <2>1 DEF Replace, MemOK, lruVars
  <2>3. QED
    BY Zenon, <1>1, <1>3, <1>4, <1>5, <1>6, <1>13, <2>2 DEF Replace, args, ptrs
<1>14. CASE FreeOld(t)
  <2>1. old[t] \in ScanIds
    BY Zenon, <1>14 DEF FreeOld, At, PointersGood, MemOK
  <2>2. MemOK'
    BY Zenon, <1>14, <2>1, FreeType DEF FreeOld
  <2>3. ret[t] \in {"none", "ok", "fail", "nomem"}
    BY Zenon DEF RestOK
  <2>4. QED
    BY Zenon, <1>2, <1>3, <1>7, <1>14, <2>2, <2>3 DEF FreeOld, Return
<1>15. CASE Find(t)
  <2>1. PtrOK'
    BY Zenon, <1>15 DEF Find, ScanMatches, ScanNodes, MemOK, PtrOK
  <2>2. QED
    BY Zenon, <1>1, <1>3, <1>4, <1>6, <1>8, <1>15, <2>1 DEF Find, args, scanVars, lruVars
<1>16. CASE FindFails(t)
  BY Zenon, <1>2, <1>3, <1>7, <1>8, <1>16 DEF FindFails, Return, scanVars, lruVars
<1>17. CASE LruFind(t)
  <2>1. PtrOK'
    BY Zenon, <1>17 DEF LruFind, LruNodes, MemOK, PtrOK
  <2>2. QED
    BY Zenon, <1>1, <1>3, <1>4, <1>6, <1>8, <1>17, <2>1 DEF LruFind, args, scanVars, lruVars
<1>18. CASE LruFindFails(t)
  <2>1. RestOK'
    BY Zenon, <1>18 DEF LruFindFails, RestOK
  <2>2. QED
    BY Zenon, <1>1, <1>3, <1>4, <1>5, <1>8, <1>18, <2>1
       DEF LruFindFails, args, ptrs, scanVars, lruVars
<1>19. CASE LruAlloc(t)
  <2>1. PICK l \in LruIds \ lruLive :
           /\ lruLive' = lruLive \cup {l}
           /\ lruRec' = [lruRec EXCEPT ![l] = scanRec[rec[t]]]
           /\ lru' = [lru EXCEPT ![t] = l]
    BY Zenon, <1>19 DEF LruAlloc
  <2>2. rec[t] \in ScanIds
    BY Zenon, <1>19 DEF LruAlloc, At, PointersGood, MemOK
  <2>3. MemOK'
    BY Zenon, <1>19, <2>1, <2>2 DEF LruAlloc, MemOK, scanVars
  <2>4. PtrOK'
    BY Zenon, <1>19, <2>1 DEF LruAlloc, PtrOK
  <2>5. QED
    BY Zenon, <1>1, <1>3, <1>4, <1>6, <1>19, <2>3, <2>4 DEF LruAlloc, args
<1>20. CASE LruAllocFails(t)
  BY Zenon, <1>1, <1>3, <1>4, <1>5, <1>7, <1>8, <1>20
     DEF LruAllocFails, args, ptrs, scanVars, lruVars
<1>21. CASE LruInsert(t)
  <2>1. lru[t] \in lruLive
    BY Zenon, <1>21 DEF LruInsert, At, PointersGood
  <2>2. MemOK'
    BY Zenon, <1>21, <2>1 DEF LruInsert, MemOK, scanVars
  <2>3. RestOK'
    BY Zenon, <1>7, <1>21 DEF LruInsert, Return
  <2>4. QED
    BY Zenon, <1>1, <1>2, <1>3, <1>4, <1>5, <1>21, <2>2, <2>3 DEF LruInsert, Return, args, ptrs
<1>22. CASE LruInsertDuplicate(t)
  <2>1. PtrOK'
    BY Zenon, <1>22 DEF LruInsertDuplicate, PtrOK
  <2>2. QED
    BY Zenon, <1>1, <1>3, <1>4, <1>7, <1>8, <1>22, <2>1
       DEF LruInsertDuplicate, args, scanVars, lruVars
<1>23. QED
  BY Zenon, <1>9, <1>10, <1>11, <1>12, <1>13, <1>14, <1>15, <1>16, <1>17, <1>18,
     <1>19, <1>20, <1>21, <1>22 DEF Step

(* So do removals, by calls or by exit_scan_cache. *)
LEMMA TypeRemoval ==
  ASSUME TypeOK, NEW p \in Procs, Removal(p)
  PROVE  TypeOK'
<1> USE TypeParts
<1>0. p \in Threads \/ p = Unloader
  BY Zenon DEF Procs
<1>1. \A b \in RemovalLabels : LabelOf(p, b)
  BY Zenon DEF LabelOf, CallLabels, UnloadLabels
<1>2. /\ "lru_free" \in RemovalLabels /\ "scan_remove" \in RemovalLabels
      /\ "scan_free" \in RemovalLabels
  BY Zenon DEF RemovalLabels
<1>3. UNCHANGED <<op, file, gen>> => OpOK' /\ ArgOK'
  BY Zenon DEF OpOK, ArgOK
<1>4. UNCHANGED <<rec, old, lru>> => PtrOK'
  BY Zenon DEF PtrOK
<1>5. UNCHANGED <<clock, ret, evicted, fault>> => RestOK'
  BY Zenon DEF RestOK
<1>6. /\ op[p] \in {"insert", "update", "remove"} => p \in Threads
      /\ op[p] \in {"evict", "purge"} => p = Unloader
  BY Zenon, <1>0 DEF OpOK, CallOps, UnloadOps
<1>7. CASE LruRemove(p)
  <2>1. MemOK'
    BY Zenon, <1>7 DEF LruRemove, MemOK, scanVars
  <2>2. PcOK'
    BY Zenon, <1>1, <1>2, <1>7, GotoFrame DEF LruRemove
  <2>3. QED
    BY Zenon, <1>3, <1>4, <1>5, <1>7, <2>1, <2>2 DEF LruRemove, args, ptrs
<1>8. CASE LruFree(p)
  <2>1. MemOK' /\ RestOK'
    BY Zenon, <1>8 DEF LruFree, MemOK, RestOK, scanVars
  <2>2. CASE op[p] = "purge"
    <3>1. Leave(p, "purge_lru")
      BY Zenon, <1>8, <2>2 DEF LruFree
    <3>2. LabelOf(p, "purge_lru")
      BY Zenon, <1>6, <2>2, CacheAssumption DEF LabelOf, UnloadLabels
    <3>3. QED
      BY Zenon, <2>1, <3>1, <3>2, LeaveFrame
  <2>3. CASE op[p] # "purge"
    <3>1. PICK b : /\ Goto(p, b) /\ LabelOf(p, b)
                   /\ lru' = [lru EXCEPT ![p] = NULL] /\ UNCHANGED <<op, file, gen, rec, old>>
      <4>1. op[p] = "update" => LabelOf(p, "lru_alloc")
        BY Zenon, <1>6, CacheAssumption DEF LabelOf, CallLabels
      <4>2. QED
        BY Zenon, <1>1, <1>2, <1>8, <2>3, <4>1 DEF LruFree, args
    <3>2. PtrOK'
      BY Zenon, <3>1 DEF PtrOK
    <3>3. QED
      BY Zenon, <1>3, <2>1, <3>1, <3>2, GotoFrame
  <2>4. QED
    BY Zenon, <2>2, <2>3
<1>9. CASE ScanRemove(p)
  <2>1. MemOK'
    BY Zenon, <1>9 DEF ScanRemove, MemOK, lruVars
  <2>2. PcOK'
    BY Zenon, <1>1, <1>2, <1>9, GotoFrame DEF ScanRemove
  <2>3. QED
    BY Zenon, <1>3, <1>4, <1>5, <1>9, <2>1, <2>2 DEF ScanRemove, args, ptrs
<1>10. CASE ScanFree(p)
  <2>1. rec[p] \in ScanIds
    BY Zenon, <1>10 DEF ScanFree, At, PointersGood, MemOK
  <2>2. MemOK'
    BY Zenon, <1>10, <2>1, FreeType DEF ScanFree
  <2>3. RestOK'
    BY <1>10 DEF ScanFree, Return, RestOK, Leave
  <2>4. CASE op[p] = "update"
    <3>1. Goto(p, "free_old") /\ rec' = [rec EXCEPT ![p] = NULL] /\ UNCHANGED <<op, file, gen, old, lru>>
      BY Zenon, <1>10, <2>4 DEF ScanFree, args
    <3>2. LabelOf(p, "free_old")
      BY Zenon, <1>6, <2>4, CacheAssumption DEF LabelOf, CallLabels
    <3>3. PtrOK'
      BY Zenon, <3>1 DEF PtrOK
    <3>4. QED
      BY Zenon, <1>3, <2>2, <2>3, <3>1, <3>2, <3>3, GotoFrame
  <2>5. CASE op[p] # "update"
    <3>1. PICK b : Leave(p, b) /\ LabelOf(p, b)
      <4>1. LabelOf(p, "idle") /\ (op[p] \in {"evict", "purge"} => LabelOf(p, "evict") /\ LabelOf(p, "purge_scan"))
        BY Zenon, <1>6, CacheAssumption DEF LabelOf, CallLabels, UnloadLabels
      <4>2. QED
        BY Zenon, <1>10, <2>5, <4>1 DEF ScanFree, Return
    <3>2. QED
      BY Zenon, <2>2, <2>3, <3>1, LeaveFrame
  <2>6. QED
    BY Zenon, <2>4, <2>5
<1>11. QED
  BY Zenon, <1>7, <1>8, <1>9, <1>10 DEF Removal

(* So do calls that start. *)
LEMMA TypeCall ==
  ASSUME TypeOK, NEW t \in Threads, Call(t)
  PROVE  TypeOK'
<1> USE TypeParts
<1> t \in Procs /\ t # Unloader
  BY Zenon, CacheAssumption DEF Procs
<1>1. LabelOf(t, "insert") /\ LabelOf(t, "find")
  BY Zenon DEF LabelOf, CallLabels
<1>2. ASSUME NEW f \in Files, CallInsertNoMem(t, f) PROVE TypeOK'
  <2>1. RestOK'
    BY Zenon, <1>2 DEF CallInsertNoMem, RestOK
  <2>2. MemOK' /\ PcOK' /\ OpOK' /\ ArgOK' /\ PtrOK'
    BY Zenon, <1>2 DEF CallInsertNoMem, MemOK, PcOK, OpOK, ArgOK, PtrOK, scanVars, lruVars,
       args, ptrs
  <2>3. QED
    BY Zenon, <2>1, <2>2
<1>3. ASSUME NEW f \in Files, NEW g \in Gens, CallInsert(t, f, g) PROVE TypeOK'
  <2>1. PICK s \in ScanIds \ scanLive, now \in Times :
           /\ Reads(now)
           /\ scanLive' = scanLive \cup {s}
           /\ scanRec' = [scanRec EXCEPT ![s] = [file |-> f, gen |-> g, time |-> now]]
           /\ rec' = [rec EXCEPT ![t] = s]
    BY Zenon, <1>3 DEF CallInsert
  <2>2. [file |-> f, gen |-> g, time |-> now] \in Record
    BY Zenon DEF Record
  <2>3. MemOK'
    BY Zenon, <1>3, <2>1, <2>2 DEF CallInsert, MemOK, lruVars
  <2>4. clock' \in Int
    BY <2>1, CacheAssumption DEF Reads, RestOK
  <2>5. RestOK'
    BY Zenon, <1>3, <2>4 DEF CallInsert, RestOK
  <2>6. PcOK'
    BY Zenon, <1>1, <1>3, GotoFrame DEF CallInsert
  <2>7. OpOK' /\ ArgOK'
    BY <1>3 DEF CallInsert, OpOK, ArgOK, CallOps
  <2>8. PtrOK'
    BY Zenon, <1>3, <2>1 DEF CallInsert, PtrOK
  <2>9. QED
    BY Zenon, <2>3, <2>5, <2>6, <2>7, <2>8
<1>4. ASSUME NEW f \in Files, NEW g \in Gens, CallRemove(t, f, g) PROVE TypeOK'
  <2>1. RestOK' /\ MemOK' /\ PtrOK'
    BY Zenon, <1>4 DEF CallRemove, RestOK, MemOK, PtrOK, scanVars, lruVars, ptrs
  <2>2. PcOK'
    BY Zenon, <1>1, <1>4, GotoFrame DEF CallRemove
  <2>3. OpOK' /\ ArgOK'
    BY <1>4 DEF CallRemove, OpOK, ArgOK, CallOps
  <2>4. QED
    BY Zenon, <2>1, <2>2, <2>3
<1>5. QED
  BY Zenon, <1>2, <1>3, <1>4 DEF Call

(* So do the steps of exit_scan_cache. *)
LEMMA TypeUnload ==
  ASSUME TypeOK, Unload \/ UnloadStep
  PROVE  TypeOK'
<1> USE TypeParts
<1> Unloader \in Procs
  BY Zenon DEF Procs
<1>1. \A b \in UnloadLabels : Goto(Unloader, b) => PcOK'
  BY Zenon, GotoFrame, CacheAssumption DEF LabelOf
<1>2. /\ "evict" \in UnloadLabels /\ "purge_scan" \in UnloadLabels
      /\ "purge_lru" \in UnloadLabels /\ "dead" \in UnloadLabels
      /\ "lru_remove" \in UnloadLabels /\ "scan_remove" \in UnloadLabels
  BY Zenon DEF UnloadLabels, RemovalLabels
<1>3. MemOK' /\ RestOK'
  BY Zenon DEF Unload, UnloadStep, Evict, EvictEnds, PurgeScan, PurgeScanEnds, PurgeLru,
     Destroy, MemOK, RestOK, scanVars, lruVars
<1>4. PcOK'
  BY Zenon, <1>1, <1>2 DEF Unload, UnloadStep, Evict, EvictEnds, PurgeScan, PurgeScanEnds,
     PurgeLru, Destroy
<1>5. CASE Unload \/ EvictEnds \/ PurgeScanEnds \/ Destroy
  <2>1. OpOK' /\ ArgOK' /\ PtrOK'
    BY Zenon, <1>5 DEF Unload, EvictEnds, PurgeScanEnds, Destroy, OpOK, ArgOK, PtrOK, args, ptrs
  <2>2. QED
    BY Zenon, <1>3, <1>4, <2>1
<1>6. CASE Evict
  <2>1. OpOK'
    BY Zenon, <1>6, CacheAssumption DEF Evict, OpOK, UnloadOps, Procs
  <2>2. PICK l \in lruTree, s \in scanTree :
           /\ lru' = [lru EXCEPT ![Unloader] = l]
           /\ rec' = [rec EXCEPT ![Unloader] = s]
           /\ file' = [file EXCEPT ![Unloader] = lruRec[l].file]
           /\ gen' = [gen EXCEPT ![Unloader] = lruRec[l].gen]
    BY Zenon, <1>6 DEF Evict, LruFirst, ScanMatches, ScanNodes
  <2>3. lruRec[l].file \in Files \cup {NULL} /\ lruRec[l].gen \in Gens \cup {NULL}
    <3>1. lruRec[l] \in Record \cup {Blank}
      BY Zenon, <2>2 DEF MemOK
    <3>2. \A r \in Record \cup {Blank} :
             r.file \in Files \cup {NULL} /\ r.gen \in Gens \cup {NULL}
      BY Zenon, RecordFields
    <3> QED
      BY Zenon, <3>1, <3>2
  <2>4. ArgOK'
    BY Zenon, <2>2, <2>3 DEF ArgOK
  <2>5. PtrOK'
    BY Zenon, <1>6, <2>2 DEF Evict, PtrOK, MemOK
  <2>6. QED
    BY Zenon, <1>3, <1>4, <2>1, <2>4, <2>5
<1>7. CASE PurgeScan
  <2>1. OpOK' /\ ArgOK'
    BY Zenon, <1>7, CacheAssumption DEF PurgeScan, OpOK, ArgOK, UnloadOps, Procs
  <2>2. PtrOK'
    BY Zenon, <1>7 DEF PurgeScan, ScanFirst, PtrOK, MemOK
  <2>3. QED
    BY Zenon, <1>3, <1>4, <2>1, <2>2
<1>8. CASE PurgeLru
  <2>1. OpOK' /\ ArgOK'
    BY Zenon, <1>8, CacheAssumption DEF PurgeLru, OpOK, ArgOK, UnloadOps, Procs
  <2>2. PtrOK'
    BY Zenon, <1>8 DEF PurgeLru, LruFirst, PtrOK, MemOK
  <2>3. QED
    BY Zenon, <1>3, <1>4, <2>1, <2>2
<1>9. QED
  BY Zenon, <1>5, <1>6, <1>7, <1>8 DEF UnloadStep

\* A step that uses a record another process has taken out of a tree.
Wild(p) == Stray(p) \/ Fault(p)

(* So do the steps after a record was unlinked under a call. *)
LEMMA TypeWild ==
  ASSUME TypeOK, NEW p \in Procs, Wild(p)
  PROVE  TypeOK'
<1> USE TypeParts
<1>1. CASE Fault(p)
  <2>1. fault' \subseteq Faults
    BY Zenon, <1>1 DEF Fault, Faults, TypeOK
  <2>2. QED
    BY Zenon, <1>1, <2>1 DEF Fault, TypeOK, scanVars, lruVars, args, ptrs
<1>2. CASE InsertTorn(p) \/ ReplaceTorn(p) \/ ScanRemoveTorn(p)
  <2>1. PICK b \in {"lru_alloc", "lru_find", "scan_free"} :
           ScanTorn(p, b) /\ (b # "scan_free" => p \in Threads)
    BY Zenon, <1>2 DEF InsertTorn, ReplaceTorn, ScanRemoveTorn, At, TypeOK, UnloadLabels,
       RemovalLabels, Procs
  <2>2. LabelOf(p, b)
    BY Zenon, <2>1, CacheAssumption DEF LabelOf, CallLabels, UnloadLabels, RemovalLabels
  <2>3. PcOK'
    BY Zenon, <2>1, <2>2, GotoFrame DEF ScanTorn
  <2>4. OpOK' /\ ArgOK' /\ PtrOK'
    BY Zenon, <2>1 DEF ScanTorn, OpOK, ArgOK, PtrOK, args, ptrs
  <2>5. RestOK'
    BY Zenon, <2>1 DEF ScanTorn, RestOK, Faults
  <2>6. MemOK'
    BY Zenon, <2>1 DEF ScanTorn, MemOK, lruVars
  <2>7. QED
    BY Zenon, <2>3, <2>4, <2>5, <2>6
<1>3. ASSUME LruTorn PROVE MemOK' /\ fault' \subseteq Faults /\ UNCHANGED <<clock, evicted>>
  BY Zenon, <1>3 DEF LruTorn, MemOK, RestOK, Faults, scanVars
<1>4. CASE LruRemoveTorn(p)
  <2>1. LabelOf(p, "lru_free")
    BY Zenon DEF LabelOf, CallLabels, UnloadLabels, RemovalLabels
  <2>2. PcOK'
    BY Zenon, <1>4, <2>1, GotoFrame DEF LruRemoveTorn
  <2>3. OpOK' /\ ArgOK' /\ PtrOK' /\ RestOK'
    BY Zenon, <1>3, <1>4 DEF LruRemoveTorn, OpOK, ArgOK, PtrOK, RestOK, args, ptrs
  <2>4. QED
    BY Zenon, <1>3, <1>4, <2>2, <2>3 DEF LruRemoveTorn
<1>5. CASE LruInsertTorn(p)
  <2>1. p \in Threads
    BY Zenon, <1>5 DEF LruInsertTorn, At, TypeOK, UnloadLabels, RemovalLabels, Procs
  <2>2. LabelOf(p, "idle") /\ LabelOf(p, "free_old")
    BY Zenon, <2>1, CacheAssumption DEF LabelOf, CallLabels
  <2>3. RestOK'
    BY Zenon, <1>3, <1>5 DEF LruInsertTorn, Return, RestOK
  <2>4. PcOK' /\ OpOK' /\ ArgOK' /\ PtrOK'
    <3>1. CASE Return(p, "ok")
      BY Zenon, <2>2, <3>1, LeaveFrame DEF Return
    <3>2. CASE Goto(p, "free_old") /\ UNCHANGED <<args, ptrs>>
      BY Zenon, <2>2, <3>2, GotoFrame DEF OpOK, ArgOK, PtrOK, args, ptrs
    <3>3. QED
      BY Zenon, <1>5, <3>1, <3>2 DEF LruInsertTorn
  <2>5. QED
    BY Zenon, <1>3, <1>5, <2>3, <2>4 DEF LruInsertTorn
<1>6. QED
  BY Zenon, <1>1, <1>2, <1>4, <1>5 DEF Wild, Stray

(* Every step of every operation keeps the types. *)
LEMMA TypeStep == TypeOK /\ [Next]_vars => TypeOK'
<1> SUFFICES ASSUME TypeOK, [Next]_vars PROVE TypeOK'
  OBVIOUS
<1>1. ASSUME NEW p \in Procs, Wild(p) PROVE TypeOK'
  BY Zenon, <1>1, TypeWild
<1>2. CASE UNCHANGED vars
  BY Zenon, <1>2 DEF vars, TypeOK
<1>3. QED
  BY Zenon, <1>1, <1>2, TypeCallStep, TypeRemoval, TypeCall, TypeUnload DEF Next, Halted, Wild

(* The variables of the cache always have their types. *)
THEOREM TypeCorrect == Spec => []TypeOK
  BY TypeInit, TypeStep, PTL DEF Spec

(* A stray step is recorded as a fault. *)
LEMMA WildFaults ==
  ASSUME NEW p, Wild(p)
  PROVE  fault' # {}
  BY Zenon DEF Wild, Fault, Stray, InsertTorn, ReplaceTorn, ScanRemoveTorn, LruRemoveTorn,
     LruInsertTorn, ScanTorn, LruTorn

(* No step takes a fault back. *)
LEMMA FaultStays ==
  ASSUME [Next]_vars, fault' = {}
  PROVE  fault = {}
<1>1. ASSUME NEW p, Wild(p) PROVE FALSE
  BY Zenon, <1>1, WildFaults
<1>2. ASSUME NEW t, Call(t) PROVE fault' = fault
  BY Zenon, <1>2 DEF Call, CallInsertNoMem, CallInsert, CallRemove
<1>3. ASSUME NEW t, Step(t) PROVE fault' = fault
  BY Zenon, <1>3 DEF Step, Insert, InsertDuplicate, FindOld, FindOldFails, Replace, FreeOld,
     Find, FindFails, LruFind, LruFindFails, LruAlloc, LruAllocFails, LruInsert,
     LruInsertDuplicate
<1>4. ASSUME NEW p, Removal(p) PROVE fault' = fault
  BY Zenon, <1>4 DEF Removal, LruRemove, LruFree, ScanRemove, ScanFree
<1>5. Unload \/ UnloadStep => fault' = fault
  BY Zenon DEF Unload, UnloadStep, Evict, EvictEnds, PurgeScan, PurgeScanEnds, PurgeLru, Destroy
<1>6. QED
  BY Zenon, <1>1, <1>2, <1>3, <1>4, <1>5 DEF Next, Halted, Wild, vars

-----------------------------------------------------------------------------
(* A step of one process leaves the others where they are. *)
LEMMA LocalStep ==
  ASSUME TypeOK, NEW p \in Procs, NEW q \in Procs, q # p,
         \/ p \in Threads /\ (Call(p) \/ Step(p))
         \/ Removal(p)
         \/ p = Unloader /\ (Unload \/ UnloadStep)
  PROVE  LocalSame(q)
<1>1. \A b : Goto(p, b) => pc'[q] = pc[q]
  BY Zenon, GotoFrame, TypeParts
<1>2. \A b : Leave(p, b) => LocalSame(q)
  BY Zenon, LeaveFrame, TypeParts
<1>3. /\ \A x : op' = [op EXCEPT ![p] = x] => op'[q] = op[q]
      /\ \A x : file' = [file EXCEPT ![p] = x] => file'[q] = file[q]
      /\ \A x : rec' = [rec EXCEPT ![p] = x] => rec'[q] = rec[q]
      /\ \A x : old' = [old EXCEPT ![p] = x] => old'[q] = old[q]
      /\ \A x : lru' = [lru EXCEPT ![p] = x] => lru'[q] = lru[q]
  BY Zenon DEF TypeOK
<1> USE DEF args, ptrs, LocalSame, Return
<1>4. CASE p \in Threads /\ Call(p)
  BY Zenon, <1>1, <1>3, <1>4 DEF Call, CallInsertNoMem, CallInsert, CallRemove
<1>5. CASE Insert(p) \/ InsertDuplicate(p) \/ FindOld(p) \/ FindOldFails(p)
  BY Zenon, <1>1, <1>2, <1>3, <1>5 DEF Insert, InsertDuplicate, FindOld, FindOldFails
<1>6. CASE Replace(p) \/ FreeOld(p) \/ Find(p) \/ FindFails(p)
  BY Zenon, <1>1, <1>2, <1>3, <1>6 DEF Replace, FreeOld, Find, FindFails
<1>7. CASE LruFind(p) \/ LruFindFails(p) \/ LruAlloc(p) \/ LruAllocFails(p)
  BY Zenon, <1>1, <1>2, <1>3, <1>7 DEF LruFind, LruFindFails, LruAlloc, LruAllocFails
<1>8. CASE LruInsert(p) \/ LruInsertDuplicate(p)
  BY Zenon, <1>1, <1>2, <1>3, <1>8 DEF LruInsert, LruInsertDuplicate
<1>9. CASE LruRemove(p) \/ LruFree(p)
  BY Zenon, <1>1, <1>2, <1>3, <1>9 DEF LruRemove, LruFree
<1>10. CASE ScanRemove(p) \/ ScanFree(p)
  BY Zenon, <1>1, <1>2, <1>3, <1>10 DEF ScanRemove, ScanFree
<1>12. CASE p = Unloader /\ (Unload \/ UnloadStep)
  <2>1. CASE Unload \/ EvictEnds \/ PurgeScanEnds \/ Destroy
    BY Zenon, <1>1, <1>12, <2>1 DEF Unload, EvictEnds, PurgeScanEnds, Destroy
  <2>2. CASE Evict
    BY Zenon, <1>1, <1>3, <1>12, <2>2 DEF Evict
  <2>3. CASE PurgeScan \/ PurgeLru
    BY Zenon, <1>1, <1>3, <1>12, <2>3 DEF PurgeScan, PurgeLru
  <2>4. QED
    BY Zenon, <1>12, <2>1, <2>2, <2>3 DEF UnloadStep
<1>13. QED
  BY Zenon, <1>4, <1>5, <1>6, <1>7, <1>8, <1>9, <1>10, <1>12 DEF Step, Removal

-----------------------------------------------------------------------------
(* The records.                                                            *)

Replaced == {"lru_find", "lru_remove", "lru_free", "lru_alloc", "lru_insert",
             "scan_remove", "scan_free", "free_old"}

\* Process p alone is to link or to free scan record s: p has allocated it
\* and not linked it yet, or p has unlinked it.
ScanClaim(p, s) ==
    \/ s = rec[p] /\ pc[p] \in {"insert", "find_old", "replace", "scan_free"}
    \/ s = old[p] /\ op[p] = "update" /\ pc[p] \in Replaced

LruClaim(p, l) == l = lru[p] /\ pc[p] \in {"lru_insert", "lru_free"}

\* A call unlinks or frees a record it owns: which operation each label is in.
OpAt(p) ==
    /\ pc[p] = "insert" => op[p] = "insert"
    /\ pc[p] = "find" => op[p] = "remove"
    /\ pc[p] \in {"find_old", "replace", "free_old"} => op[p] = "update"
    /\ pc[p] = "scan_free" /\ op[p] = "update" => rec[p] # old[p]

\* Each allocated scan record is linked or claimed, never both, and claimed
\* by one process only.
ScanRecordInv ==
    /\ scanTree \subseteq scanLive
    /\ \A s \in scanLive : s \in scanTree \/ \E p \in Procs : ScanClaim(p, s)
    /\ \A p \in Procs : \A s \in ScanIds : ScanClaim(p, s) =>
          s \in scanLive /\ s \notin scanTree
    /\ \A p, q \in Procs : \A s \in ScanIds :
          ScanClaim(p, s) /\ ScanClaim(q, s) => p = q

\* Two records of the LRU tree never have one time stamp.
LruTimesUnique == \A l, m \in lruTree : lruRec[l].time = lruRec[m].time => l = m

\* An LRU record may be neither: insert_lru_cache_record forgets one.
LruRecordInv ==
    /\ lruTree \subseteq lruLive
    /\ \A p \in Procs : \A l \in LruIds : LruClaim(p, l) =>
          l \in lruLive /\ l \notin lruTree
    /\ \A p, q \in Procs : \A l \in LruIds :
          LruClaim(p, l) /\ LruClaim(q, l) => p = q
    /\ LruTimesUnique

\* exit_scan_cache runs alone, and purges the scan tree before the LRU tree.
UnloadInv ==
    /\ pc[Unloader] # "idle" => \A t \in Threads : pc[t] = "idle"
    /\ \/ pc[Unloader] \in {"purge_lru", "dead"}
       \/ pc[Unloader] \in {"lru_remove", "lru_free"} /\ op[Unloader] = "purge"
       => scanTree = {}

(* What holds of the records under every interleaving of the callers, until *)
(* one of them uses a record another has taken out under it.               *)
RecordInv ==
    /\ \A p \in Procs : OpAt(p)
    /\ ScanRecordInv
    /\ LruRecordInv
    /\ UnloadInv

-----------------------------------------------------------------------------
(* A step of p keeps every scan record linked or claimed by one process if *)
(* it only moves records between the tree, p's claims and the slab.        *)
LEMMA ScanMove ==
  ASSUME TypeOK, TypeOK', ScanRecordInv, NEW p \in Procs,
         \A q \in Procs : q # p => LocalSame(q),
         \A s \in ScanIds :
           /\ s \in scanTree' => s \in scanLive'
           /\ s \in scanLive' => \/ s \in scanTree' \/ ScanClaim(p, s)'
                                 \/ s \in scanLive /\ s \notin scanTree /\ ~ScanClaim(p, s)
           /\ ScanClaim(p, s)' => /\ s \in scanLive' /\ s \notin scanTree'
                                  /\ ScanClaim(p, s) \/ s \in scanTree \/ s \notin scanLive
           /\ s \in scanLive /\ s \notin scanTree /\ ~ScanClaim(p, s)
                => s \in scanLive' /\ s \notin scanTree'
  PROVE  ScanRecordInv'
<1>1. \A q \in Procs : \A s \in ScanIds : q # p => (ScanClaim(q, s)' <=> ScanClaim(q, s))
  BY Zenon DEF LocalSame, ScanClaim
<1>2. /\ scanTree \subseteq ScanIds /\ scanLive \subseteq ScanIds
      /\ scanTree' \subseteq ScanIds /\ scanLive' \subseteq ScanIds
  BY Zenon DEF TypeOK
<1> HIDE DEF ScanClaim
<1>3. scanTree' \subseteq scanLive'
  BY Zenon, <1>2
<1>4. ASSUME NEW s \in scanLive' PROVE s \in scanTree' \/ \E q \in Procs : ScanClaim(q, s)'
  <2>1. CASE s \in scanLive /\ s \notin scanTree /\ ~ScanClaim(p, s)
    BY <1>1, <1>2, <2>1 DEF ScanRecordInv
  <2>2. QED
    BY Zenon, <1>2, <2>1
<1>5. ASSUME NEW q \in Procs, NEW s \in ScanIds, ScanClaim(q, s)'
      PROVE  s \in scanLive' /\ s \notin scanTree'
  BY Zenon, <1>1, <1>5 DEF ScanRecordInv
<1>6. ASSUME NEW q \in Procs, NEW r \in Procs, NEW s \in ScanIds,
             ScanClaim(q, s)', ScanClaim(r, s)'
      PROVE  q = r
  BY Zenon, <1>1, <1>6 DEF ScanRecordInv
<1>7. QED
  BY Zenon, <1>3, <1>4, <1>5, <1>6 DEF ScanRecordInv

(* A step that moves no scan record. *)
LEMMA ScanQuiet ==
  ASSUME TypeOK, TypeOK', ScanRecordInv, NEW p \in Procs,
         \A q \in Procs : q # p => LocalSame(q),
         UNCHANGED <<scanLive, scanTree>>,
         \A s \in ScanIds : ScanClaim(p, s)' <=> ScanClaim(p, s)
  PROVE  ScanRecordInv'
<1>1. \A s \in ScanIds : /\ s \in scanTree => s \in scanLive
                         /\ ScanClaim(p, s) => s \in scanLive /\ s \notin scanTree
  BY Zenon DEF ScanRecordInv
<1>2. QED
  BY Zenon, <1>1, ScanMove

(* Every step of a call keeps each allocated scan record linked or claimed *)
(* by one process.                                                         *)
LEMMA ScanCallStep ==
  ASSUME TypeOK, TypeOK', RecordInv, NEW t \in Threads, Step(t)
  PROVE  ScanRecordInv'
<1> t \in Procs /\ ScanRecordInv /\ OpAt(t)
  BY Zenon DEF Procs, RecordInv
<1>1. \A q \in Procs : q # t => LocalSame(q)
  BY Zenon, LocalStep
<1>2. \A b : Goto(t, b) => pc'[t] = b
  BY Zenon, GotoFrame, TypeParts
<1>3. \A b : Leave(t, b) => pc'[t] = b /\ op'[t] = "none"
  BY Zenon, LeaveFrame, TypeParts
<1>4. /\ \A s \in ScanIds : s \in scanTree => s \in scanLive
      /\ \A s \in ScanIds : ScanClaim(t, s) => s \in scanLive /\ s \notin scanTree
  BY Zenon DEF ScanRecordInv
<1> USE DEF At, args, ptrs
<1>5. CASE Insert(t)
  <2>1. \A s \in ScanIds : (ScanClaim(t, s) <=> s = rec[t]) /\ ~ScanClaim(t, s)'
    BY Zenon, <1>2, <1>5 DEF Insert, OpAt, ScanClaim, Replaced
  <2>2. scanTree' = scanTree \cup {rec[t]} /\ scanLive' = scanLive
    BY Zenon, <1>5 DEF Insert
  <2>3. QED
    BY Zenon, <1>1, <1>4, <2>1, <2>2, ScanMove
<1>6. CASE InsertDuplicate(t) \/ FindOld(t)
  <2>1. \A s \in ScanIds : ScanClaim(t, s)' <=> ScanClaim(t, s)
    BY Zenon, <1>2, <1>6 DEF InsertDuplicate, FindOld, ScanClaim, Replaced
  <2>2. UNCHANGED <<scanLive, scanTree>>
    BY Zenon, <1>6 DEF InsertDuplicate, FindOld, scanVars
  <2>3. QED
    BY Zenon, <1>1, <2>1, <2>2, ScanQuiet
<1>7. CASE FindOldFails(t)
  <2>1. \A s \in ScanIds : (ScanClaim(t, s) <=> s = rec[t]) /\ ~ScanClaim(t, s)'
    BY <1>3, <1>7 DEF FindOldFails, Return, ScanClaim, Replaced
  <2>2. scanLive' = scanLive \ {rec[t]} /\ scanTree' = scanTree
    BY Zenon, <1>7 DEF FindOldFails, FreeScan
  <2>3. QED
    BY Zenon, <1>1, <1>4, <2>1, <2>2, ScanMove
<1>8. CASE Replace(t)
  <2>1. \A s \in ScanIds : ScanClaim(t, s) <=> s = rec[t]
    BY Zenon, <1>8 DEF Replace, ScanClaim, Replaced
  <2>2. \A s \in ScanIds : ScanClaim(t, s)' <=> s = old[t]
    BY Zenon, <1>2, <1>8 DEF Replace, OpAt, ScanClaim, Replaced
  <2>3. /\ scanTree' = (scanTree \ {old[t]}) \cup {rec[t]} /\ scanLive' = scanLive
        /\ old[t] \in scanTree /\ rec[t] \in scanLive
    BY Zenon, <1>8 DEF Replace, PointersGood, Misled, Stale
  <2>4. old[t] # rec[t] /\ old[t] \in ScanIds /\ rec[t] \in ScanIds
    BY Zenon, <1>4, <2>1, <2>3 DEF TypeOK
  <2>5. QED
    BY Zenon, <1>1, <1>4, <2>1, <2>2, <2>3, <2>4, ScanMove
<1>9. CASE FreeOld(t)
  <2>1. \A s \in ScanIds : (ScanClaim(t, s) <=> s = old[t]) /\ ~ScanClaim(t, s)'
    BY <1>3, <1>9 DEF FreeOld, Return, OpAt, ScanClaim, Replaced
  <2>2. scanLive' = scanLive \ {old[t]} /\ scanTree' = scanTree
    BY Zenon, <1>9 DEF FreeOld, FreeScan
  <2>3. QED
    BY Zenon, <1>1, <1>4, <2>1, <2>2, ScanMove
<1>10. CASE Find(t) \/ FindFails(t)
  <2>1. \A s \in ScanIds : ScanClaim(t, s)' <=> ScanClaim(t, s)
    <3>1. CASE Find(t)
      BY Zenon, <1>2, <3>1 DEF Find, OpAt, ScanClaim, Replaced
    <3>2. CASE FindFails(t)
      BY <1>3, <3>2 DEF FindFails, Return, OpAt, ScanClaim, Replaced
    <3>3. QED
      BY Zenon, <1>10, <3>1, <3>2
  <2>2. UNCHANGED <<scanLive, scanTree>>
    BY Zenon, <1>10 DEF Find, FindFails, scanVars
  <2>3. QED
    BY Zenon, <1>1, <2>1, <2>2, ScanQuiet
<1>11. CASE LruFind(t) \/ LruFindFails(t) \/ LruAlloc(t) \/ LruAllocFails(t)
  <2>1. \A s \in ScanIds : ScanClaim(t, s)' <=> ScanClaim(t, s)
    BY Zenon, <1>2, <1>11 DEF LruFind, LruFindFails, LruAlloc, LruAllocFails, ScanClaim, Replaced
  <2>2. UNCHANGED <<scanLive, scanTree>>
    BY Zenon, <1>11 DEF LruFind, LruFindFails, LruAlloc, LruAllocFails, scanVars
  <2>3. QED
    BY Zenon, <1>1, <2>1, <2>2, ScanQuiet
<1>12. CASE LruInsert(t) \/ LruInsertDuplicate(t)
  <2>1. \A s \in ScanIds : ScanClaim(t, s)' <=> ScanClaim(t, s)
    <3>1. CASE LruInsert(t)
      <4>1. CASE op[t] = "insert" /\ Return(t, "ok")
        BY <1>3, <3>1, <4>1 DEF LruInsert, Return, ScanClaim, Replaced
      <4>2. CASE op[t] = "update" /\ Goto(t, "free_old") /\ UNCHANGED <<args, ptrs>>
        BY Zenon, <1>2, <3>1, <4>2 DEF LruInsert, ScanClaim, Replaced
      <4>3. QED
        BY Zenon, <3>1, <4>1, <4>2 DEF LruInsert
    <3>2. CASE LruInsertDuplicate(t)
      BY Zenon, <1>2, <3>2 DEF LruInsertDuplicate, ScanClaim, Replaced
    <3>3. QED
      BY Zenon, <1>12, <3>1, <3>2
  <2>2. UNCHANGED <<scanLive, scanTree>>
    BY Zenon, <1>12 DEF LruInsert, LruInsertDuplicate, scanVars
  <2>3. QED
    BY Zenon, <1>1, <2>1, <2>2, ScanQuiet
<1>13. QED
  BY Zenon, <1>5, <1>6, <1>7, <1>8, <1>9, <1>10, <1>11, <1>12 DEF Step

(* So do removals. *)
LEMMA ScanRemoval ==
  ASSUME TypeOK, TypeOK', RecordInv, NEW p \in Procs, Removal(p)
  PROVE  ScanRecordInv'
<1> ScanRecordInv /\ OpAt(p)
  BY Zenon DEF RecordInv
<1>1. \A q \in Procs : q # p => LocalSame(q)
  BY Zenon, LocalStep
<1>2. \A b : Goto(p, b) => pc'[p] = b
  BY Zenon, GotoFrame, TypeParts
<1>3. \A b : Leave(p, b) => pc'[p] = b /\ op'[p] = "none" /\ rec'[p] = NULL
  BY Zenon, LeaveFrame, TypeParts
<1>4. /\ \A s \in ScanIds : s \in scanTree => s \in scanLive
      /\ \A s \in ScanIds : ScanClaim(p, s) => s \in scanLive /\ s \notin scanTree
  BY Zenon DEF ScanRecordInv
<1> USE DEF At, args, ptrs
<1>5. CASE LruRemove(p) \/ LruFree(p)
  <2>1. \A s \in ScanIds : ScanClaim(p, s)' <=> ScanClaim(p, s)
    <3>1. CASE LruRemove(p)
      BY Zenon, <1>2, <3>1 DEF LruRemove, ScanClaim, Replaced
    <3>2. CASE LruFree(p)
      <4>1. pc[p] = "lru_free"
        BY Zenon, <3>2 DEF LruFree
      <4>2. \/ op[p] # "update" /\ pc'[p] = "purge_lru"
            \/ /\ pc'[p] \in {"lru_alloc", "scan_remove"}
               /\ op'[p] = op[p] /\ old'[p] = old[p]
        BY Zenon, <1>2, <1>3, <3>2 DEF LruFree
      <4>3. QED
        BY Zenon, <4>1, <4>2 DEF ScanClaim, Replaced
    <3>3. QED
      BY Zenon, <1>5, <3>1, <3>2
  <2>2. UNCHANGED <<scanLive, scanTree>>
    BY Zenon, <1>5 DEF LruRemove, LruFree, scanVars
  <2>3. QED
    BY Zenon, <1>1, <2>1, <2>2, ScanQuiet
<1>6. CASE ScanRemove(p)
  <2>1. \A s \in ScanIds : ScanClaim(p, s)' <=> ScanClaim(p, s) \/ s = rec[p]
    BY Zenon, <1>2, <1>6 DEF ScanRemove, ScanClaim, Replaced
  <2>2. scanTree' = scanTree \ {rec[p]} /\ scanLive' = scanLive /\ rec[p] \in scanTree
    BY Zenon, <1>6 DEF ScanRemove, Misled, Stale
  <2>3. QED
    BY Zenon, <1>1, <1>4, <2>1, <2>2, ScanMove
<1>7. CASE ScanFree(p)
  <2>1. scanTree' = scanTree /\ scanLive' = scanLive \ {rec[p]}
    BY Zenon, <1>7 DEF ScanFree, FreeScan
  <2>2. \A s \in ScanIds : s = rec[p] => ScanClaim(p, s)
    BY Zenon, <1>7 DEF ScanFree, ScanClaim
  <2>3. \A s \in ScanIds : ScanClaim(p, s)' <=> ScanClaim(p, s) /\ s # rec[p]
    <3>1. CASE op[p] = "update"
      <4>1. /\ pc[p] = "scan_free" /\ pc'[p] = "free_old" /\ op'[p] = "update"
            /\ old'[p] = old[p]
        BY Zenon, <1>2, <1>7, <3>1 DEF ScanFree
      <4>2. rec[p] # old[p]
        BY Zenon, <3>1, <4>1 DEF OpAt
      <4>3. QED
        BY Zenon, <3>1, <4>1, <4>2 DEF ScanClaim, Replaced
    <3>2. CASE op[p] # "update"
      <4>1. pc[p] = "scan_free" /\ op'[p] = "none" /\ pc'[p] \in {"idle", "evict", "purge_scan"}
        BY Zenon, <1>3, <1>7, <3>2 DEF ScanFree, Return
      <4>2. QED
        BY Zenon, <3>2, <4>1 DEF ScanClaim
    <3>3. QED
      BY Zenon, <3>1, <3>2
  <2>4. QED
    BY Zenon, <1>1, <1>4, <2>1, <2>2, <2>3, ScanMove
<1>8. QED
  BY Zenon, <1>5, <1>6, <1>7 DEF Removal

(* Every step keeps each allocated scan record linked or claimed by one    *)
(* process.                                                                *)
LEMMA ScanRecordStep ==
  ASSUME TypeOK, TypeOK', RecordInv, [Next]_vars, fault' = {}
  PROVE  ScanRecordInv'
<1> ScanRecordInv /\ Unloader \in Procs /\ \A t \in Threads : t \in Procs
  BY Zenon DEF Procs, RecordInv
<1>1. ASSUME NEW t \in Threads, Call(t) PROVE ScanRecordInv'
  <2>1. \A q \in Procs : q # t => LocalSame(q)
    BY Zenon, <1>1, LocalStep
  <2>2. \A b : Goto(t, b) => pc'[t] = b
    BY Zenon, GotoFrame, TypeParts
  <2>3. \A s \in ScanIds : ~ScanClaim(t, s)
    BY Zenon, <1>1 DEF Call, CallInsertNoMem, CallInsert, CallRemove, Called, At, ScanClaim,
       Replaced
  <2>4. ASSUME NEW f \in Files, NEW g \in Gens, CallInsert(t, f, g) PROVE ScanRecordInv'
    <3>1. PICK s \in ScanIds \ scanLive : /\ scanLive' = scanLive \cup {s}
                                          /\ rec' = [rec EXCEPT ![t] = s]
      BY Zenon, <2>4 DEF CallInsert
    <3>2. rec'[t] = s /\ pc'[t] = "insert" /\ scanTree' = scanTree
      BY Zenon, <2>2, <2>4, <3>1 DEF CallInsert, TypeOK
    <3>3. \A r \in ScanIds : ScanClaim(t, r)' <=> r = s
      BY Zenon, <3>2 DEF ScanClaim, Replaced
    <3>4. \A r \in ScanIds : r \in scanTree => r \in scanLive
      BY Zenon DEF ScanRecordInv
    <3>5. QED
      BY Zenon, <2>1, <2>3, <3>1, <3>2, <3>3, <3>4, ScanMove
  <2>5. ASSUME NEW f \in Files, CallInsertNoMem(t, f) \/ \E g \in Gens : CallRemove(t, f, g)
        PROVE  ScanRecordInv'
    <3>1. UNCHANGED <<scanLive, scanTree>> /\ pc'[t] \in {"idle", "find"}
      BY Zenon, <2>2, <2>5 DEF CallInsertNoMem, CallRemove, Called, At, scanVars
    <3>2. \A s \in ScanIds : ~ScanClaim(t, s)'
      BY Zenon, <3>1 DEF ScanClaim, Replaced
    <3>3. QED
      BY Zenon, <2>1, <2>3, <3>1, <3>2, ScanQuiet
  <2>6. QED
    BY Zenon, <1>1, <2>4, <2>5 DEF Call
<1>2. ASSUME NEW p \in Procs, Wild(p) PROVE ScanRecordInv'
  BY Zenon, <1>2, WildFaults
<1>3. CASE Unload \/ UnloadStep
  <2>1. \A q \in Procs : q # Unloader => LocalSame(q)
    BY Zenon, <1>3, LocalStep
  <2>2. \A b : Goto(Unloader, b) => pc'[Unloader] = b
    BY Zenon, GotoFrame, TypeParts
  <2>3. /\ UNCHANGED <<scanLive, scanTree>>
        /\ pc[Unloader] \in {"idle", "evict", "purge_scan", "purge_lru"}
    BY Zenon, <1>3 DEF Unload, UnloadStep, Evict, EvictEnds, PurgeScan, PurgeScanEnds,
       PurgeLru, Destroy, At, scanVars
  <2>4. pc'[Unloader] \in {"evict", "purge_scan", "purge_lru", "dead", "lru_remove", "scan_remove"}
    BY Zenon, <1>3, <2>2 DEF Unload, UnloadStep, Evict, EvictEnds, PurgeScan, PurgeScanEnds,
       PurgeLru, Destroy
  <2>5. op'[Unloader] # "update"
    BY Zenon DEF TypeOK, UnloadOps
  <2>6. \A s \in ScanIds : ~ScanClaim(Unloader, s) /\ ~ScanClaim(Unloader, s)'
    BY Zenon, <2>3, <2>4, <2>5 DEF ScanClaim, Replaced
  <2>7. QED
    BY Zenon, <2>1, <2>3, <2>6, ScanQuiet
<1>4. CASE UNCHANGED vars
  BY ZenonT(40), <1>4 DEF vars, ScanRecordInv, ScanClaim
<1>5. QED
  BY Zenon, <1>1, <1>2, <1>3, <1>4, ScanCallStep, ScanRemoval DEF Next, Halted, Wild

-----------------------------------------------------------------------------
(* A step of p keeps what is known of LRU records if it only moves records *)
(* between the tree, p's claims and the slab.                              *)
LEMMA LruMove ==
  ASSUME LruRecordInv, NEW p \in Procs,
         lruTree \subseteq LruIds, lruTree' \subseteq LruIds,
         \A q \in Procs : q # p => LocalSame(q),
         \A l \in LruIds :
           /\ l \in lruTree' => l \in lruLive'
           /\ LruClaim(p, l)' => /\ l \in lruLive' /\ l \notin lruTree'
                                 /\ LruClaim(p, l) \/ l \in lruTree \/ l \notin lruLive
           /\ l \in lruLive /\ l \notin lruTree /\ ~LruClaim(p, l)
                => l \in lruLive' /\ l \notin lruTree',
         LruTimesUnique'
  PROVE  LruRecordInv'
<1>1. \A q \in Procs : \A l \in LruIds : q # p => (LruClaim(q, l)' <=> LruClaim(q, l))
  BY Zenon DEF LocalSame, LruClaim
<1>2. \A q \in Procs : \A l \in LruIds :
         LruClaim(q, l) => /\ l \in lruLive /\ l \notin lruTree
                           /\ q # p => ~LruClaim(p, l)
  BY Zenon DEF LruRecordInv
<1>3. ASSUME NEW q \in Procs, NEW l \in LruIds, LruClaim(q, l)'
      PROVE  l \in lruLive' /\ l \notin lruTree'
  BY Zenon, <1>1, <1>2, <1>3
<1>4. ASSUME NEW q \in Procs, NEW r \in Procs, NEW l \in LruIds,
             LruClaim(q, l)', LruClaim(r, l)'
      PROVE  q = r
  BY Zenon, <1>1, <1>2, <1>4 DEF LruRecordInv
<1>5. QED
  BY Zenon, <1>3, <1>4 DEF LruRecordInv

(* A step that moves no LRU record but may forget a claim. *)
LEMMA LruQuiet ==
  ASSUME LruRecordInv, NEW p \in Procs, lruTree \subseteq LruIds,
         \A q \in Procs : q # p => LocalSame(q),
         UNCHANGED lruVars,
         \A l \in LruIds : LruClaim(p, l)' => LruClaim(p, l)
  PROVE  LruRecordInv'
<1>1. UNCHANGED <<lruLive, lruRec, lruTree>>
  BY Zenon DEF lruVars
<1>2. \A l \in LruIds : /\ l \in lruTree => l \in lruLive
                        /\ LruClaim(p, l) => l \in lruLive /\ l \notin lruTree
  BY Zenon DEF LruRecordInv
<1>3. LruTimesUnique'
  BY Zenon, <1>1 DEF LruRecordInv, LruTimesUnique
<1>4. QED
  BY Zenon, <1>1, <1>2, <1>3, LruMove

(* Every step keeps what is known of LRU records: linked or claimed ones   *)
(* are allocated, and time stamps in the tree differ.                      *)
LEMMA LruRecordStep ==
  ASSUME TypeOK, TypeOK', RecordInv, [Next]_vars, fault' = {}
  PROVE  LruRecordInv'
<1> LruRecordInv /\ Unloader \in Procs /\ \A t \in Threads : t \in Procs
  BY Zenon DEF Procs, RecordInv
<1> lruTree \subseteq LruIds /\ lruTree' \subseteq LruIds
  BY Zenon DEF TypeOK
<1>0. lruRec \in [LruIds -> Record \cup {Blank}] /\ lruLive \subseteq LruIds
  BY Zenon DEF TypeOK
<1>1. \A p \in Procs : \A b : Goto(p, b) => pc'[p] = b
  BY Zenon, GotoFrame, TypeParts
<1>2. \A p \in Procs : \A b : Leave(p, b) => pc'[p] = b
  BY Zenon, LeaveFrame, TypeParts
<1>3. \A l \in LruIds : l \in lruTree => l \in lruLive
  BY Zenon DEF LruRecordInv
<1>4. ASSUME NEW t \in Threads, LruAlloc(t) PROVE LruRecordInv'
  <2>1. PICK l \in LruIds \ lruLive : /\ lruLive' = lruLive \cup {l}
                                      /\ lruRec' = [lruRec EXCEPT ![l] = scanRec[rec[t]]]
                                      /\ lru' = [lru EXCEPT ![t] = l]
    BY Zenon, <1>4 DEF LruAlloc
  <2>2. lru'[t] = l /\ lruTree' = lruTree
    BY Zenon, <1>4, <2>1 DEF LruAlloc, TypeOK
  <2>3. \A m \in LruIds : LruClaim(t, m)' => m = l
    BY Zenon, <2>2 DEF LruClaim
  <2>4. \A m \in LruIds : ~LruClaim(t, m)
    BY Zenon, <1>4 DEF LruAlloc, At, LruClaim
  <2>5. \A m \in lruTree : lruRec'[m] = lruRec[m]
    BY Zenon, <1>0, <1>3, <2>1
  <2>6. LruTimesUnique'
    BY <2>2, <2>5 DEF LruRecordInv, LruTimesUnique
  <2>7. \A q \in Procs : q # t => LocalSame(q)
    BY Zenon, <1>4, LocalStep DEF Step
  <2>8. QED
    BY Zenon, <1>3, <2>1, <2>2, <2>3, <2>4, <2>6, <2>7, LruMove
<1>5. ASSUME NEW t \in Threads, LruInsert(t) PROVE LruRecordInv'
  <2>1. /\ lruTree' = lruTree \cup {lru[t]} /\ UNCHANGED <<lruLive, lruRec>>
        /\ lru[t] \in lruLive /\ LruNodes(lruRec[lru[t]].time) = {}
    BY Zenon, <1>5 DEF LruInsert, At, PointersGood
  <2>2. pc'[t] \in {"idle", "free_old"} /\ pc[t] = "lru_insert"
    BY Zenon, <1>1, <1>2, <1>5 DEF LruInsert, Return, At
  <2>3. \A m \in LruIds : (LruClaim(t, m) <=> m = lru[t]) /\ ~LruClaim(t, m)'
    BY Zenon, <2>2 DEF LruClaim
  <2>4. LruTimesUnique'
    BY Zenon, <2>1 DEF LruRecordInv, LruTimesUnique, LruNodes
  <2>5. \A q \in Procs : q # t => LocalSame(q)
    BY Zenon, <1>5, LocalStep DEF Step
  <2>6. QED
    BY Zenon, <1>3, <2>1, <2>3, <2>4, <2>5, LruMove
<1>6. ASSUME NEW p \in Procs, LruRemove(p) PROVE LruRecordInv'
  <2>1. /\ lruTree' = lruTree \ {lru[p]} /\ UNCHANGED <<lruLive, lruRec, lru>>
        /\ lru[p] \in lruTree /\ pc[p] = "lru_remove" /\ pc'[p] = "lru_free"
    BY Zenon, <1>1, <1>6 DEF LruRemove, At, Misled, Stale, ptrs
  <2>2. \A m \in LruIds : ~LruClaim(p, m) /\ (LruClaim(p, m)' <=> m = lru[p])
    BY Zenon, <2>1 DEF LruClaim
  <2>3. LruTimesUnique'
    BY Zenon, <2>1 DEF LruRecordInv, LruTimesUnique
  <2>4. \A q \in Procs : q # p => LocalSame(q)
    BY Zenon, <1>6, LocalStep DEF Removal
  <2>5. QED
    BY Zenon, <1>3, <2>1, <2>2, <2>3, <2>4, LruMove
<1>7. ASSUME NEW p \in Procs, LruFree(p) PROVE LruRecordInv'
  <2>1. /\ lruLive' = lruLive \ {lru[p]} /\ lruTree' = lruTree
        /\ lruRec' = [lruRec EXCEPT ![lru[p]] = Blank]
        /\ pc[p] = "lru_free"
    BY Zenon, <1>7 DEF LruFree, At
  <2>2. pc'[p] \in {"lru_alloc", "scan_remove", "purge_lru"}
    BY Zenon, <1>1, <1>2, <1>7 DEF LruFree
  <2>3. \A m \in LruIds : (LruClaim(p, m) <=> m = lru[p]) /\ ~LruClaim(p, m)'
    BY Zenon, <2>1, <2>2 DEF LruClaim
  <2>4. lru[p] \notin lruTree
    BY Zenon, <2>3 DEF LruRecordInv
  <2>5. \A m \in lruTree : lruRec'[m] = lruRec[m]
    BY Zenon, <1>0, <2>1, <2>4
  <2>6. LruTimesUnique'
    BY <2>1, <2>5 DEF LruRecordInv, LruTimesUnique
  <2>7. \A q \in Procs : q # p => LocalSame(q)
    BY Zenon, <1>7, LocalStep DEF Removal
  <2>8. QED
    BY Zenon, <1>3, <2>1, <2>3, <2>4, <2>6, <2>7, LruMove
<1>8. ASSUME NEW t \in Threads, Call(t) \/ Step(t), ~LruAlloc(t), ~LruInsert(t)
      PROVE  LruRecordInv'
  <2>1. \A q \in Procs : q # t => LocalSame(q)
    BY Zenon, <1>8, LocalStep
  <2>2. CASE Call(t)
    <3>1. UNCHANGED lruVars /\ pc'[t] \in {"idle", "insert", "find"}
      BY Zenon, <1>1, <2>2 DEF Call, CallInsertNoMem, CallInsert, CallRemove, Called, At
    <3>2. \A l \in LruIds : ~LruClaim(t, l)'
      BY Zenon, <3>1 DEF LruClaim
    <3>3. QED
      BY Zenon, <2>1, <3>1, <3>2, LruQuiet
  <2>3. CASE Step(t)
    <3>1. UNCHANGED lruVars
      BY Zenon, <1>8, <2>3 DEF Step, Insert, InsertDuplicate, FindOld, FindOldFails, Replace,
         FreeOld, Find, FindFails, LruFind, LruFindFails, LruAllocFails,
         LruInsertDuplicate
    <3>2. pc'[t] \in {"idle", "find_old", "replace", "lru_find", "lru_alloc",
                      "lru_remove", "scan_remove"}
      BY Zenon, <1>1, <1>2, <1>8, <2>3 DEF Step, Insert, InsertDuplicate, FindOld,
         FindOldFails, Replace, FreeOld, Find, FindFails, LruFind, LruFindFails,
         LruAllocFails, LruInsertDuplicate, Return
    <3>3. \A l \in LruIds : ~LruClaim(t, l)'
      BY Zenon, <3>2 DEF LruClaim
    <3>4. QED
      BY Zenon, <2>1, <3>1, <3>3, LruQuiet
  <2>4. QED
    BY Zenon, <1>8, <2>2, <2>3
<1>9. ASSUME NEW p \in Procs, ScanRemove(p) \/ ScanFree(p) PROVE LruRecordInv'
  <2>1. UNCHANGED lruVars
    BY Zenon, <1>9 DEF ScanRemove, ScanFree
  <2>2. pc'[p] \in {"scan_free", "idle", "free_old", "evict", "purge_scan"}
    BY Zenon, <1>1, <1>2, <1>9 DEF ScanRemove, ScanFree, Return
  <2>3. \A l \in LruIds : ~LruClaim(p, l)'
    BY Zenon, <2>2 DEF LruClaim
  <2>4. \A q \in Procs : q # p => LocalSame(q)
    BY Zenon, <1>9, LocalStep DEF Removal
  <2>5. QED
    BY Zenon, <2>1, <2>3, <2>4, LruQuiet
<1>10. CASE Unload \/ UnloadStep
  <2>1. UNCHANGED lruVars
    BY Zenon, <1>10 DEF Unload, UnloadStep, Evict, EvictEnds, PurgeScan, PurgeScanEnds,
       PurgeLru, Destroy
  <2>2. pc'[Unloader] \in {"evict", "purge_scan", "purge_lru", "dead", "lru_remove", "scan_remove"}
    BY Zenon, <1>1, <1>10 DEF Unload, UnloadStep, Evict, EvictEnds, PurgeScan, PurgeScanEnds,
       PurgeLru, Destroy
  <2>3. \A l \in LruIds : ~LruClaim(Unloader, l)'
    BY Zenon, <2>2 DEF LruClaim
  <2>4. \A q \in Procs : q # Unloader => LocalSame(q)
    BY Zenon, <1>10, LocalStep
  <2>5. QED
    BY Zenon, <2>1, <2>3, <2>4, LruQuiet
<1>11. CASE UNCHANGED <<lruLive, lruRec, lruTree, pc, lru>>
  BY Zenon, <1>11 DEF LruRecordInv, LruClaim, LruTimesUnique
<1>12. ASSUME NEW p \in Procs, Wild(p) PROVE LruRecordInv'
  BY Zenon, <1>12, WildFaults
<1>13. CASE UNCHANGED vars
  BY Zenon, <1>11, <1>13 DEF vars
<1>14. QED
  BY Zenon, <1>4, <1>5, <1>6, <1>7, <1>8, <1>9, <1>10, <1>12, <1>13
     DEF Next, Halted, Removal, Wild

-----------------------------------------------------------------------------
(* A thread's step leaves it in the operation its label belongs to. *)
LEMMA ThreadOp ==
  ASSUME TypeOK, TypeOK', RecordInv, NEW t \in Threads,
         Call(t) \/ Step(t) \/ Removal(t)
  PROVE  OpAt(t)'
<1> t \in Procs /\ OpAt(t) /\ ScanRecordInv
  BY Zenon DEF Procs, RecordInv
<1>1. \A b : Goto(t, b) => pc'[t] = b
  BY Zenon, GotoFrame, TypeParts
<1>2. \A b : Leave(t, b) => pc'[t] = b
  BY Zenon, LeaveFrame, TypeParts
<1>3. \A x : op' = [op EXCEPT ![t] = x] => op'[t] = x
  BY Zenon DEF TypeOK
<1>4. CASE Call(t)
  <2>1. /\ pc'[t] \in {"idle", "insert", "find"}
        /\ pc'[t] = "insert" => op'[t] = "insert"
        /\ pc'[t] = "find" => op'[t] = "remove"
    BY Zenon, <1>1, <1>3, <1>4 DEF Call, CallInsertNoMem, CallInsert, CallRemove, Called, At
  <2>2. QED
    BY Zenon, <2>1 DEF OpAt
<1>5. CASE Step(t)
  <2>1. /\ pc'[t] \notin {"insert", "find", "scan_free"}
        /\ pc'[t] = "find_old" => op'[t] = "update"
    BY Zenon, <1>1, <1>2, <1>3, <1>5 DEF Step, Insert, InsertDuplicate, FindOld, FindOldFails,
       Replace, FreeOld, Find, FindFails, LruFind, LruFindFails, LruAlloc,
       LruAllocFails, LruInsert, LruInsertDuplicate, Return
  <2>2. pc'[t] = "replace" => op'[t] = op[t] /\ pc[t] = "find_old"
    BY Zenon, <1>1, <1>2, <1>5 DEF Step, Insert, InsertDuplicate, FindOld, FindOldFails,
       Replace, FreeOld, Find, FindFails, LruFind, LruFindFails, LruAlloc,
       LruAllocFails, LruInsert, LruInsertDuplicate, Return, At, args
  <2>3. pc'[t] = "free_old" => op'[t] = "update"
    BY Zenon, <1>1, <1>2, <1>5 DEF Step, Insert, InsertDuplicate, FindOld, FindOldFails,
       Replace, FreeOld, Find, FindFails, LruFind, LruFindFails, LruAlloc,
       LruAllocFails, LruInsert, LruInsertDuplicate, Return, args
  <2>4. QED
    BY Zenon, <2>1, <2>2, <2>3 DEF OpAt
<1>6. CASE LruRemove(t) \/ LruFree(t) \/ ScanFree(t)
  <2>1. /\ pc'[t] \notin {"insert", "find", "find_old", "replace", "scan_free"}
        /\ pc'[t] = "free_old" => op'[t] = "update"
    BY Zenon, <1>1, <1>2, <1>6 DEF LruRemove, LruFree, ScanFree, Return, args
  <2>2. QED
    BY Zenon, <2>1 DEF OpAt
<1>7. CASE ScanRemove(t)
  <2>1. /\ pc'[t] = "scan_free" /\ op'[t] = op[t] /\ rec'[t] = rec[t] /\ old'[t] = old[t]
        /\ rec[t] \in scanTree /\ pc[t] = "scan_remove"
    BY Zenon, <1>1, <1>7 DEF ScanRemove, At, Misled, Stale, args, ptrs
  <2>2. op[t] = "update" => ScanClaim(t, old[t])
    BY Zenon, <2>1 DEF ScanClaim, Replaced
  <2>3. op[t] = "update" => old[t] \notin scanTree
    <3>1. scanTree \subseteq ScanIds
      BY Zenon DEF TypeOK
    <3>2. QED
      BY Zenon, <2>2, <3>1 DEF ScanRecordInv
  <2>4. QED
    BY Zenon, <2>1, <2>3 DEF OpAt
<1>8. QED
  BY Zenon, <1>4, <1>5, <1>6, <1>7 DEF Removal

(* Every step leaves each process in the operation its label belongs to.   *)
LEMMA OpStep ==
  ASSUME TypeOK, TypeOK', RecordInv, [Next]_vars, fault' = {}
  PROVE  \A q \in Procs : OpAt(q)'
<1> Unloader \in Procs /\ \A t \in Threads : t \in Procs
  BY Zenon DEF Procs
<1>1. \A q \in Procs : OpAt(q)
  BY Zenon DEF RecordInv
<1>2. OpAt(Unloader)'
  BY Zenon DEF OpAt, TypeOK, UnloadLabels, UnloadOps, RemovalLabels
<1>3. \A q \in Procs : LocalSame(q) => OpAt(q)'
  BY Zenon, <1>1 DEF LocalSame, OpAt
<1>4. ASSUME NEW t \in Threads, Call(t) \/ Step(t) \/ Removal(t)
      PROVE  \A q \in Procs : OpAt(q)'
  BY Zenon, <1>3, <1>4, ThreadOp, LocalStep
<1>5. ASSUME Unload \/ UnloadStep \/ Removal(Unloader)
      PROVE  \A q \in Procs : OpAt(q)'
  BY Zenon, <1>2, <1>3, <1>5, LocalStep
<1>6. ASSUME UNCHANGED <<pc, op, rec, old>>
      PROVE  \A q \in Procs : OpAt(q)'
  BY Zenon, <1>1, <1>6 DEF OpAt
<1>7. ASSUME NEW p \in Procs, Wild(p) PROVE FALSE
  BY Zenon, <1>7, WildFaults
<1>8. CASE UNCHANGED vars
  BY Zenon, <1>6, <1>8 DEF vars
<1>9. QED
  BY Zenon, <1>4, <1>5, <1>7, <1>8 DEF Next, Halted, Procs, Wild

(* exit_scan_cache runs alone and has emptied the scan tree when it turns  *)
(* to the LRU tree.                                                        *)
LEMMA UnloadInvStep ==
  ASSUME TypeOK, TypeOK', RecordInv, [Next]_vars, fault' = {}
  PROVE  UnloadInv'
<1> UnloadInv /\ Unloader \in Procs /\ Unloader \notin Threads /\ \A t \in Threads : t \in Procs
  BY Zenon, CacheAssumption DEF Procs, RecordInv
<1>1. ASSUME NEW t \in Threads, Call(t) \/ Step(t) \/ Removal(t) PROVE UnloadInv'
  <2>1. Call(t) => pc[Unloader] = "idle"
    BY Zenon DEF Call, CallInsertNoMem, CallInsert, CallRemove, Called
  <2>2. Step(t) \/ Removal(t) => pc[t] # "idle"
    BY Zenon DEF Step, Insert, InsertDuplicate, FindOld, FindOldFails, Replace, FreeOld,
       Find, FindFails, LruFind, LruFindFails, LruAlloc, LruAllocFails, LruInsert,
       LruInsertDuplicate, Removal, LruRemove, LruFree, ScanRemove, ScanFree, At
  <2>3. pc[Unloader] = "idle"
    BY Zenon, <1>1, <2>1, <2>2 DEF UnloadInv
  <2>4. pc'[Unloader] = "idle"
    BY Zenon, <1>1, <2>3, LocalStep DEF LocalSame
  <2>5. QED
    BY Zenon, <2>4 DEF UnloadInv
<1>2. ASSUME Unload \/ UnloadStep \/ Removal(Unloader) PROVE UnloadInv'
  <2>1. Unload \/ \A t \in Threads : pc[t] = "idle"
    BY Zenon, <1>2 DEF UnloadInv, UnloadStep, Evict, EvictEnds, PurgeScan, PurgeScanEnds,
       PurgeLru, Destroy, Removal, LruRemove, LruFree, ScanRemove, ScanFree, At
  <2>2. \A t \in Threads : pc[t] = "idle"
    BY Zenon, <2>1 DEF Unload, At
  <2>3. \A t \in Threads : pc'[t] = "idle"
    BY Zenon, <1>2, <2>2, LocalStep DEF LocalSame
  <2>4. \A b : Goto(Unloader, b) => pc'[Unloader] = b
    BY Zenon, GotoFrame, TypeParts
  <2>5. \A b : Leave(Unloader, b) => pc'[Unloader] = b
    BY Zenon, LeaveFrame, TypeParts
  <2>6. \A x : op' = [op EXCEPT ![Unloader] = x] => op'[Unloader] = x
    BY Zenon DEF TypeOK
  <2>7. op[Unloader] \in UnloadOps
    BY Zenon DEF TypeOK
  <2>8. CASE Unload \/ UnloadStep
    <3>1. /\ scanTree' = scanTree
          /\ \/ pc'[Unloader] \in {"evict", "purge_scan", "scan_remove"}
             \/ pc'[Unloader] = "lru_remove" /\ op'[Unloader] = "evict"
             \/ pc[Unloader] = "purge_lru" \/ scanTree = {}
      BY Zenon, <2>4, <2>6, <2>8 DEF Unload, UnloadStep, Evict, EvictEnds, PurgeScan,
         PurgeScanEnds, PurgeLru, Destroy, At, scanVars
    <3>2. QED
      BY Zenon, <2>3, <3>1 DEF UnloadInv
  <2>9. CASE LruRemove(Unloader)
    <3>1. /\ scanTree' = scanTree /\ op'[Unloader] = op[Unloader]
          /\ pc'[Unloader] = "lru_free" /\ pc[Unloader] = "lru_remove"
      BY Zenon, <2>4, <2>9 DEF LruRemove, At, scanVars, args
    <3>2. QED
      BY Zenon, <2>3, <3>1 DEF UnloadInv
  <2>10. CASE LruFree(Unloader)
    <3>1. /\ scanTree' = scanTree /\ pc[Unloader] = "lru_free"
          /\ \/ pc'[Unloader] \in {"lru_alloc", "scan_remove"}
             \/ op[Unloader] = "purge"
      BY Zenon, <2>4, <2>10 DEF LruFree, At, scanVars
    <3>2. QED
      BY Zenon, <2>3, <3>1 DEF UnloadInv
  <2>11. CASE ScanRemove(Unloader) \/ ScanFree(Unloader)
    <3>1. pc'[Unloader] \in {"scan_free", "idle", "free_old", "evict", "purge_scan"}
      BY Zenon, <2>4, <2>5, <2>11 DEF ScanRemove, ScanFree, Return
    <3>2. QED
      BY Zenon, <2>3, <3>1 DEF UnloadInv
  <2>12. QED
    BY Zenon, <1>2, <2>8, <2>9, <2>10, <2>11 DEF Removal
<1>3. ASSUME UNCHANGED <<pc, op, scanTree>> PROVE UnloadInv'
  BY Zenon, <1>3 DEF UnloadInv
<1>4. ASSUME NEW p \in Procs, Wild(p) PROVE FALSE
  BY Zenon, <1>4, WildFaults
<1>5. CASE UNCHANGED vars
  BY Zenon, <1>3, <1>5 DEF vars
<1>6. QED
  BY Zenon, <1>1, <1>2, <1>4, <1>5 DEF Next, Halted, Procs, Wild

(* The records' invariant holds initially. *)
LEMMA RecordInit == Init => RecordInv
<1> SUFFICES ASSUME Init PROVE RecordInv
  OBVIOUS
<1>1. \A p \in Procs : pc[p] = "idle"
  BY Zenon DEF Init
<1>2. \A p \in Procs : /\ OpAt(p)
                       /\ \A s \in ScanIds : ~ScanClaim(p, s)
                       /\ \A l \in LruIds : ~LruClaim(p, l)
  BY Zenon, <1>1 DEF OpAt, ScanClaim, LruClaim, Replaced
<1>3. scanTree = {} /\ scanLive = {} /\ lruTree = {} /\ lruLive = {}
  BY Zenon DEF Init
<1>4. UnloadInv
  BY Zenon, <1>1, <1>3 DEF UnloadInv, Procs
<1>5. QED
  BY Zenon, <1>2, <1>3, <1>4 DEF RecordInv, ScanRecordInv, LruRecordInv, LruTimesUnique

(* The invariant of the records is inductive, up to the first fault. *)
LEMMA RecordStep == TypeOK /\ RecordInv /\ [Next]_vars /\ fault' = {} => RecordInv'
  BY Zenon, TypeStep, ScanRecordStep, LruRecordStep, OpStep, UnloadInvStep DEF RecordInv

\* The records' invariant, up to the first fault.
RecordsSound == fault = {} => RecordInv

(* It holds in every reachable state, and so do the types. *)
LEMMA RecordInvariant == Spec => [](TypeOK /\ RecordsSound)
<1>1. Init => RecordsSound
  BY Zenon, RecordInit DEF RecordsSound
<1>2. TypeOK /\ RecordsSound /\ [Next]_vars => RecordsSound'
  BY Zenon, RecordStep, FaultStays DEF RecordsSound
<1>3. QED
  BY <1>1, <1>2, TypeInit, TypeStep, PTL DEF Spec

(* However callers of one file interleave, the trees hold no freed record  *)
(* until a call replaces or unlinks a record that another call has already *)
(* unlinked: records are freed only by the call that unlinked them.        *)
THEOREM TreesStayLive == Spec => []TreesLive
<1>1. RecordsSound => TreesLive
  BY Zenon DEF RecordsSound, RecordInv, ScanRecordInv, LruRecordInv, TreesLive
<1>2. QED
  BY <1>1, RecordInvariant, PTL

(* However callers of one file interleave, no scan record is lost until a  *)
(* call replaces or unlinks a record that another call has already         *)
(* unlinked: when no call is in progress the allocated ones are those in   *)
(* the tree, and exit_scan_cache leaves none.                              *)
THEOREM ScanRecordsAccounted == Spec => []NoScanLeak
<1>1. ASSUME TypeOK, RecordsSound, fault = {} PROVE NoScanLeak
  <2>0. RecordInv
    BY Zenon, <1>1 DEF RecordsSound
  <2>1. ASSUME AtRest PROVE scanLive = scanTree
    <3>1. \A p \in Procs : \A s \in ScanIds : ~ScanClaim(p, s)
      BY Zenon, <2>1 DEF AtRest, ScanClaim, Replaced
    <3>2. scanLive \subseteq ScanIds
      BY Zenon, <1>1 DEF TypeOK
    <3>3. QED
      BY Zenon, <2>0, <3>1, <3>2 DEF RecordInv, ScanRecordInv
  <2>2. ASSUME pc[Unloader] = "dead" PROVE scanLive = {}
    <3>1. AtRest
      BY Zenon, <2>0, <2>2 DEF RecordInv, UnloadInv, AtRest, Procs
    <3>2. scanTree = {}
      BY Zenon, <2>0, <2>2 DEF RecordInv, UnloadInv
    <3>3. QED
      BY Zenon, <2>1, <3>1, <3>2
  <2>3. QED
    BY Zenon, <2>1, <2>2 DEF NoScanLeak
<1>2. TypeOK /\ RecordsSound => NoScanLeak
  BY Zenon, <1>1 DEF NoScanLeak
<1>3. QED
  BY <1>2, RecordInvariant, PTL

-----------------------------------------------------------------------------
(* What a call knows of the records of its file when callers are           *)
(* serialised file by file, and that the steps of a call keep it.  A step  *)
(* touches the records of one file; what other processes know concerns     *)
(* other files.                                                            *)

\* No record of f is linked in the tree.
NoScan(f) == \A s \in scanTree : scanRec[s].file # f
NoLru(f)  == \A l \in lruTree : lruRec[l].file # f

Loops == {"idle", "evict", "purge_scan", "purge_lru", "dead"}

\* What a process that works on a file knows of the file's records.
OwnAt(p) ==
    LET f == file[p] IN
    /\ f = NULL <=> pc[p] \in Loops \/ op[p] = "purge"
    /\ pc[p] \in Loops => op[p] = "none"
    /\ op[p] = "purge" =>
          /\ pc[p] \in {"lru_remove", "lru_free"} => lru[p] # NULL
          /\ pc[p] \in {"scan_remove", "scan_free"} => rec[p] # NULL
          /\ pc[p] = "lru_remove" => lru[p] \in lruTree
          /\ pc[p] = "scan_remove" => rec[p] \in scanTree
    /\ pc[p] \in {"lru_alloc", "lru_insert"} => op[p] \in {"insert", "update"}
    /\ pc[p] = "lru_find" => op[p] \in {"remove", "update"}
    /\ f # NULL =>
       /\ pc[p] \in {"insert", "find_old", "replace", "find", "free_old"} => Matched(f)
       /\ pc[p] \in {"insert", "find_old", "replace", "scan_free"}
             => rec[p] # NULL /\ scanRec[rec[p]].file = f
       /\ pc[p] = "find_old" => ~NoScan(f)
       /\ pc[p] = "replace" => old[p] \in scanTree
       /\ pc[p] = "replace" \/ (op[p] = "update" /\ pc[p] \in Replaced)
             => old[p] # NULL /\ scanRec[old[p]].file = f
       /\ pc[p] \in Replaced \ {"scan_free", "free_old"}
             => rec[p] \in scanTree /\ scanRec[rec[p]].file = f
       /\ pc[p] = "lru_find" /\ op[p] = "remove" => Matched(f)
       /\ pc[p] = "lru_find" /\ op[p] = "update" =>
             /\ \E l \in lruTree : lruRec[l] = scanRec[old[p]]
             /\ \A l \in lruTree : lruRec[l].file = f => lruRec[l] = scanRec[old[p]]
       /\ pc[p] \in {"lru_remove", "lru_free", "lru_insert"}
             => lru[p] # NULL /\ lruRec[lru[p]].file = f
       /\ pc[p] = "lru_remove" =>
             /\ lru[p] \in lruTree
             /\ \A l \in lruTree : lruRec[l].file = f => l = lru[p]
             /\ lruRec[lru[p]] = scanRec[TimeKey(p)]
       /\ pc[p] \in {"lru_free", "lru_alloc", "lru_insert", "scan_remove", "scan_free"}
             => NoLru(f)
       /\ pc[p] = "lru_insert" => lruRec[lru[p]] = scanRec[rec[p]]
       /\ pc[p] = "scan_free" => NoScan(f)

\* A slab object holds a record exactly while it is allocated, and the scan
\* tree has one record for a file.
ContentInv ==
    /\ \A s \in ScanIds : scanRec[s] \in Record <=> s \in scanLive
    /\ \A l \in LruIds : lruRec[l] \in Record <=> l \in lruLive
    /\ \A s, r \in scanTree : scanRec[s].file = scanRec[r].file => s = r

\* No two processes work on one file.
DisjointInv ==
    /\ \A t \in Threads : file[t] # NULL => t \in Owner[file[t]]
    /\ \A p, q \in Procs : file[p] # NULL /\ file[p] = file[q] => p = q

(* What holds of the two trees when callers are serialised file by file. *)
OwnerInv ==
    /\ \A p \in Procs : OwnAt(p)
    /\ ContentInv
    /\ DisjointInv
    /\ TreesAgree
    /\ fault = {}

-----------------------------------------------------------------------------
\* A step leaves the records of file g as they are.
ScanSame(g) == \A s \in ScanIds :
    /\ scanRec[s].file = g =>
          scanRec'[s] = scanRec[s] /\ (s \in scanTree' <=> s \in scanTree)
    /\ scanRec'[s].file = g => scanRec[s].file = g
LruSame(g) == \A l \in LruIds :
    /\ lruRec[l].file = g =>
          lruRec'[l] = lruRec[l] /\ (l \in lruTree' <=> l \in lruTree)
    /\ lruRec'[l].file = g => lruRec[l].file = g
Same(g) == ScanSame(g) /\ LruSame(g)

(* Files a step does not touch stay as they were in both trees. *)
LEMMA MatchedFrame ==
  ASSUME NEW g, TypeOK, TypeOK', Same(g), Matched(g)
  PROVE  Matched(g)'
<1> USE DEF TypeOK, Same, ScanSame, LruSame, Matched
<1>1. ASSUME NEW s \in scanTree', scanRec'[s].file = g
      PROVE  \E l \in lruTree' : lruRec'[l] = scanRec'[s]
  <2>1. s \in scanTree /\ scanRec[s].file = g /\ scanRec'[s] = scanRec[s]
    BY Zenon, <1>1
  <2>2. PICK l \in lruTree : lruRec[l] = scanRec[s]
    BY Zenon, <2>1
  <2>3. l \in lruTree' /\ lruRec'[l] = lruRec[l]
    BY Zenon, <2>1, <2>2
  <2>4. QED
    BY Zenon, <2>1, <2>2, <2>3
<1>2. ASSUME NEW l \in lruTree', lruRec'[l].file = g
      PROVE  \E s \in scanTree' : scanRec'[s] = lruRec'[l]
  <2>1. l \in lruTree /\ lruRec[l].file = g /\ lruRec'[l] = lruRec[l]
    BY Zenon, <1>2
  <2>2. PICK s \in scanTree : scanRec[s] = lruRec[l]
    BY Zenon, <2>1
  <2>3. s \in scanTree' /\ scanRec'[s] = scanRec[s]
    BY Zenon, <2>1, <2>2
  <2>4. QED
    BY Zenon, <2>1, <2>2, <2>3
<1>3. QED
  BY Zenon, <1>1, <1>2

(* What a step of another process has to leave true for a process in the   *)
(* middle of an operation on file f, for OwnAt to hold after the step.     *)
LEMMA OwnIntro ==
  ASSUME NEW q \in Procs, LocalSame(q), NEW f, f = file[q], f # NULL,
         pc[q] \notin Loops, op[q] # "purge",
         pc[q] \in {"lru_alloc", "lru_insert"} => op[q] \in {"insert", "update"},
         pc[q] = "lru_find" => op[q] \in {"remove", "update"},
         pc[q] \in {"insert", "find_old", "replace", "find", "free_old"} => Matched(f)',
         pc[q] \in {"insert", "find_old", "replace", "scan_free"}
            => rec[q] # NULL /\ scanRec'[rec[q]].file = f,
         pc[q] = "find_old" => ~NoScan(f)',
         pc[q] = "replace" => old[q] \in scanTree',
         pc[q] = "replace" \/ (op[q] = "update" /\ pc[q] \in Replaced)
            => old[q] # NULL /\ scanRec'[old[q]].file = f,
         pc[q] \in Replaced \ {"scan_free", "free_old"}
            => rec[q] \in scanTree' /\ scanRec'[rec[q]].file = f,
         pc[q] = "lru_find" /\ op[q] = "remove" => Matched(f)',
         pc[q] = "lru_find" /\ op[q] = "update" =>
            /\ \E l \in lruTree' : lruRec'[l] = scanRec'[old[q]]
            /\ \A l \in lruTree' : lruRec'[l].file = f => lruRec'[l] = scanRec'[old[q]],
         pc[q] \in {"lru_remove", "lru_free", "lru_insert"}
            => lru[q] # NULL /\ lruRec'[lru[q]].file = f,
         pc[q] = "lru_remove" =>
            /\ lru[q] \in lruTree'
            /\ \A l \in lruTree' : lruRec'[l].file = f => l = lru[q]
            /\ lruRec'[lru[q]] = scanRec'[TimeKey(q)],
         pc[q] \in {"lru_free", "lru_alloc", "lru_insert", "scan_remove", "scan_free"}
            => NoLru(f)',
         pc[q] = "lru_insert" => lruRec'[lru[q]] = scanRec'[rec[q]],
         pc[q] = "scan_free" => NoScan(f)'
  PROVE  OwnAt(q)'
BY DEF OwnAt, LocalSame, TimeKey

(* What a process knows of its file survives a step on another file. *)
LEMMA OwnFrame ==
  ASSUME NEW q \in Procs, TypeOK, TypeOK', OwnAt(q), LocalSame(q),
         op[q] # "purge", file[q] # NULL => Same(file[q])
  PROVE  OwnAt(q)'
<1>1. CASE file[q] = NULL
  BY Zenon, <1>1 DEF OwnAt, LocalSame
<1>2. CASE file[q] # NULL
  <2>0. PICK f : f = file[q]
    OBVIOUS
  <2> Same(f) /\ f = file'[q] /\ f # NULL
    BY Zenon, <1>2, <2>0 DEF LocalSame
  <2>1. Matched(f) => Matched(f)'
    BY Zenon, MatchedFrame
  <2>2. NoScan(f) => NoScan(f)'
    BY Zenon DEF NoScan, Same, ScanSame, TypeOK
  <2>3. ~NoScan(f) => ~NoScan(f)'
    BY Zenon DEF NoScan, Same, ScanSame, TypeOK
  <2>4. NoLru(f) => NoLru(f)'
    BY Zenon DEF NoLru, Same, LruSame, TypeOK
  <2>5. \A s \in ScanIds : scanRec[s].file = f =>
           scanRec'[s] = scanRec[s] /\ (s \in scanTree' <=> s \in scanTree)
    BY Zenon DEF Same, ScanSame
  <2>6. \A l \in LruIds : lruRec[l].file = f =>
           lruRec'[l] = lruRec[l] /\ (l \in lruTree' <=> l \in lruTree)
    BY Zenon DEF Same, LruSame
  <2>7. \A l \in LruIds : lruRec'[l].file = f => lruRec[l].file = f
    BY Zenon DEF Same, LruSame
  <2>8. /\ rec[q] \in ScanIds \cup {NULL} /\ old[q] \in ScanIds \cup {NULL}
        /\ lru[q] \in LruIds \cup {NULL}
        /\ scanTree \subseteq ScanIds /\ lruTree \subseteq LruIds
        /\ scanTree' \subseteq ScanIds /\ lruTree' \subseteq LruIds
    BY Zenon DEF TypeOK
  <2>9. /\ pc[q] \in {"insert", "find_old", "replace", "scan_free"}
             => rec[q] # NULL /\ scanRec'[rec[q]].file = f
        /\ pc[q] = "replace" => old[q] \in scanTree'
        /\ pc[q] = "replace" \/ (op[q] = "update" /\ pc[q] \in Replaced)
             => old[q] # NULL /\ scanRec'[old[q]].file = f /\ scanRec'[old[q]] = scanRec[old[q]]
        /\ pc[q] \in Replaced \ {"scan_free", "free_old"}
             => rec[q] \in scanTree' /\ scanRec'[rec[q]].file = f /\ scanRec'[rec[q]] = scanRec[rec[q]]
    BY Zenon, <2>0, <2>5, <2>8 DEF OwnAt, Replaced
  <2>10. pc[q] = "lru_find" /\ op[q] = "update" =>
           /\ \E l \in lruTree' : lruRec'[l] = scanRec'[old[q]]
           /\ \A l \in lruTree' : lruRec'[l].file = f => lruRec'[l] = scanRec'[old[q]]
    <3>1. pc[q] = "lru_find" /\ op[q] = "update" =>
            /\ \E l \in lruTree : lruRec[l] = scanRec[old[q]]
            /\ \A l \in lruTree : lruRec[l].file = f => lruRec[l] = scanRec[old[q]]
      BY Zenon, <2>0 DEF OwnAt
    <3>2. pc[q] = "lru_find" /\ op[q] = "update" =>
            scanRec'[old[q]].file = f /\ scanRec'[old[q]] = scanRec[old[q]]
      BY Zenon, <2>9 DEF Replaced
    <3>3. QED
      BY <2>6, <2>7, <2>8, <3>1, <3>2
  <2>11. /\ pc[q] \in {"lru_remove", "lru_free", "lru_insert"}
              => lru[q] # NULL /\ lruRec'[lru[q]].file = f
         /\ pc[q] = "lru_remove" =>
              /\ lru[q] \in lruTree'
              /\ \A l \in lruTree' : lruRec'[l].file = f => l = lru[q]
              /\ lruRec'[lru[q]] = scanRec'[TimeKey(q)]
         /\ pc[q] = "lru_insert" => lruRec'[lru[q]] = scanRec'[rec[q]]
    BY Zenon, <2>0, <2>5, <2>6, <2>7, <2>8, <2>9 DEF OwnAt, Replaced, TimeKey
  <2>12. OwnAt(q) /\ f = file[q] /\ f # NULL /\ op[q] # "purge"
    BY Zenon, <2>0
  <2>13. /\ ~(pc[q] \in Loops) /\ ~(op[q] = "purge")
         /\ pc[q] \in {"lru_alloc", "lru_insert"} => op[q] \in {"insert", "update"}
         /\ pc[q] = "lru_find" => op[q] \in {"remove", "update"}
         /\ pc[q] \in {"insert", "find_old", "replace", "find", "free_old"} => Matched(f)'
         /\ pc[q] = "find_old" => ~NoScan(f)'
         /\ pc[q] = "lru_find" /\ op[q] = "remove" => Matched(f)'
         /\ pc[q] \in {"lru_free", "lru_alloc", "lru_insert", "scan_remove", "scan_free"}
               => NoLru(f)'
         /\ pc[q] = "scan_free" => NoScan(f)'
    BY Zenon, <2>1, <2>2, <2>3, <2>4, <2>12 DEF OwnAt
  <2>14. QED
    BY Zenon, <2>9, <2>10, <2>11, <2>12, <2>13, OwnIntro
<1>3. QED
  BY Zenon, <1>1, <1>2

(* A step of p that touches file f only keeps the invariant, if it keeps   *)
(* what concerns p and f.                                                  *)
LEMMA StepFrame ==
  ASSUME NEW p \in Procs, NEW f \in Files, TypeOK, TypeOK', OwnerInv,
         \A q \in Procs : q # p => LocalSame(q) /\ op[q] # "purge" /\ file[q] # f,
         \A g \in Files : g # f => Same(g),
         file[p] \in {f, NULL}, file'[p] \in {f, NULL},
         file'[p] = f /\ p \in Threads => p \in Owner[f],
         OwnAt(p)', ContentInv', fault' = {},
         Purging => Purging',
         ~Purging' /\ file'[p] = NULL => Matched(f)'
  PROVE  OwnerInv'
<1> f # NULL /\ file \in [Procs -> Files \cup {NULL}]
  BY Zenon, CacheAssumption DEF TypeOK
<1>1. ASSUME NEW q \in Procs PROVE OwnAt(q)'
  <2>1. CASE q = p
    BY Zenon, <2>1
  <2>2. CASE q # p
    <3>1. file[q] # NULL => Same(file[q])
      BY Zenon, <2>2
    <3>2. OwnAt(q)
      BY Zenon DEF OwnerInv
    <3>3. QED
      BY Zenon, <2>2, <3>1, <3>2, OwnFrame
  <2>3. QED
    BY Zenon, <2>1, <2>2
<1>2. DisjointInv'
  <2> \A q \in Procs : q # p => file'[q] = file[q] /\ file[q] # f
    BY Zenon DEF LocalSame
  <2> DisjointInv
    BY Zenon DEF OwnerInv
  <2> \A t \in Threads : t \in Procs
    BY Zenon DEF Procs
  <2>1. QED
    BY Zenon DEF DisjointInv
<1>3. TreesAgree'
  <2> SUFFICES ASSUME ~Purging', NEW g \in Files, \A q \in Procs : file'[q] # g
               PROVE  Matched(g)'
    BY Zenon DEF TreesAgree
  <2>1. CASE g = f
    BY Zenon, <2>1
  <2>2. CASE g # f
    <3>1. \A q \in Procs : file[q] # g
      <4>1. g # NULL
        BY Zenon, CacheAssumption
      <4>2. QED
        BY Zenon, <2>2, <4>1 DEF LocalSame
    <3>2. Matched(g)
      BY Zenon, <3>1 DEF OwnerInv, TreesAgree
    <3>3. QED
      BY Zenon, <2>2, <3>2, MatchedFrame
  <2>3. QED
    BY Zenon, <2>1, <2>2
<1>4. QED
  BY Zenon, <1>1, <1>2, <1>3 DEF OwnerInv

(* The pointers every step of every process uses are good, and lead to     *)
(* linked records where the step counts on it.                             *)
LEMMA GoodPointers ==
  ASSUME TypeOK, RecordInv, OwnerInv, NEW p \in Procs
  PROVE  PointersGood(p) /\ ~Misled(p)
<1> SUFFICES PointersGood(p) /\ ~Stale(p)
  BY Zenon DEF OwnerInv, Misled
<1>1. OwnAt(p) /\ OpAt(p)
  BY Zenon DEF OwnerInv, RecordInv
<1>2. \A s \in ScanIds : ScanClaim(p, s) => s \in scanLive
  BY Zenon DEF RecordInv, ScanRecordInv
<1>3. \A l \in LruIds : LruClaim(p, l) => l \in lruLive
  BY Zenon DEF RecordInv, LruRecordInv
<1>4. /\ rec[p] \in ScanIds \cup {NULL} /\ old[p] \in ScanIds \cup {NULL}
      /\ lru[p] \in LruIds \cup {NULL}
  BY Zenon DEF TypeOK
<1>5. scanTree \subseteq scanLive
  BY Zenon DEF RecordInv, ScanRecordInv
<1>6. CASE file[p] # NULL
  <2>1. pc[p] \in {"insert", "find_old", "replace", "scan_free"} => rec[p] \in scanLive
    BY Zenon, <1>1, <1>2, <1>4, <1>6 DEF OwnAt, ScanClaim
  <2>2. op[p] = "update" /\ pc[p] \in Replaced => old[p] \in scanLive
    BY Zenon, <1>1, <1>2, <1>4, <1>6 DEF OwnAt, ScanClaim
  <2>3. pc[p] \in {"lru_free", "lru_insert"} => lru[p] \in lruLive
    BY Zenon, <1>1, <1>3, <1>4, <1>6 DEF OwnAt, LruClaim
  <2>4. pc[p] \in Replaced \ {"scan_free", "free_old"} => rec[p] \in scanTree
    BY Zenon, <1>1, <1>6 DEF OwnAt
  <2>5. /\ pc[p] = "replace" => old[p] \in scanTree
        /\ pc[p] = "lru_remove" => lru[p] \in lruTree
    BY Zenon, <1>1, <1>6 DEF OwnAt
  <2>6. pc[p] = "free_old" => op[p] = "update"
    BY Zenon, <1>1 DEF OpAt
  <2>8. lruTree \subseteq lruLive
    BY Zenon DEF RecordInv, LruRecordInv
  <2>7. QED
    BY Zenon, <1>5, <2>1, <2>2, <2>3, <2>4, <2>5, <2>6, <2>8 DEF PointersGood, Stale, TimeKey, Replaced
<1>7. CASE pc[p] \in Loops
  BY Zenon, <1>7 DEF Loops, PointersGood, Stale
<1>8. CASE op[p] = "purge"
  <2>1. p = Unloader
    BY Zenon, <1>8 DEF TypeOK, CallOps, Procs
  <2>2. pc[p] \in UnloadLabels
    BY Zenon, <2>1 DEF TypeOK
  <2>3. pc[p] = "lru_remove" => lru[p] \in lruTree
    BY Zenon, <1>1, <1>8 DEF OwnAt
  <2>4. pc[p] = "scan_remove" => rec[p] \in scanTree
    BY Zenon, <1>1, <1>8 DEF OwnAt
  <2>5. pc[p] = "lru_free" => lru[p] \in lruLive
    BY Zenon, <1>1, <1>3, <1>4, <1>8 DEF OwnAt, LruClaim
  <2>6. pc[p] = "scan_free" => rec[p] \in scanLive
    BY Zenon, <1>1, <1>2, <1>4, <1>8 DEF OwnAt, ScanClaim
  <2>8. lruTree \subseteq lruLive
    BY Zenon DEF RecordInv, LruRecordInv
  <2>7. QED
    BY Zenon, <1>5, <2>2, <2>3, <2>4, <2>5, <2>6, <2>8 DEF PointersGood, Stale, UnloadLabels, RemovalLabels
<1>9. QED
  BY Zenon, <1>1, <1>6, <1>7, <1>8 DEF OwnAt

(* So none of them is a stray one. *)
LEMMA NotWild ==
  ASSUME TypeOK, RecordInv, OwnerInv, NEW p \in Procs
  PROVE  ~Wild(p)
<1>1. PointersGood(p) /\ ~Misled(p)
  BY Zenon, GoodPointers
<1>2. QED
  BY Zenon, <1>1 DEF Wild, Fault, Stray, InsertTorn, ReplaceTorn, ScanRemoveTorn,
     LruRemoveTorn, LruInsertTorn

\* Process p is in an operation on file f.
Works(p, f) == pc[p] \notin Loops /\ op[p] # "purge" /\ file[p] = f

(* A process in an operation works on a file no other process works on,    *)
(* and nothing is being purged.                                            *)
LEMMA Worker ==
  ASSUME TypeOK, RecordInv, OwnerInv, NEW p \in Procs, NEW f, Works(p, f)
  PROVE  /\ f \in Files /\ f # NULL
         /\ p \in Threads => p \in Owner[f]
         /\ \A q \in Procs : q # p => file[q] # f /\ op[q] # "purge"
         /\ ~Purging /\ fault = {}
         /\ OwnAt(p) /\ OpAt(p) /\ ContentInv
<1>1. OwnAt(p) /\ OpAt(p) /\ ContentInv /\ fault = {}
  BY Zenon DEF OwnerInv, RecordInv
<1>2. f # NULL /\ f \in Files
  BY Zenon, <1>1 DEF OwnAt, Works, TypeOK
<1>3. p # Unloader => pc[Unloader] = "idle" /\ op[Unloader] = "none"
  BY Zenon DEF RecordInv, UnloadInv, OwnerInv, OwnAt, Loops, Works, Procs
<1>4. \A t \in Threads : op[t] # "purge"
  BY Zenon DEF TypeOK, CallOps
<1>5. p \in Threads => p \in Owner[f]
  BY Zenon, <1>2 DEF OwnerInv, DisjointInv, Works
<1>6. \A q \in Procs : q # p => file[q] # f /\ op[q] # "purge"
  BY Zenon, <1>2, <1>3, <1>4 DEF OwnerInv, DisjointInv, Works, Procs
<1>7. ~Purging
  BY Zenon, <1>3 DEF Purging, Works, Loops
<1>8. QED
  BY Zenon, <1>1, <1>2, <1>5, <1>6, <1>7

(* StepFrame for a step of an operation. *)
LEMMA WorkerFrame ==
  ASSUME TypeOK, TypeOK', RecordInv, OwnerInv, NEW p \in Procs, NEW f, Works(p, f),
         \A q \in Procs : q # p => LocalSame(q),
         \A g \in Files : g # f => Same(g),
         file'[p] \in {f, NULL}, fault' = fault,
         OwnAt(p)', ContentInv',
         file'[p] = NULL => Matched(f)'
  PROVE  OwnerInv'
<1>1. /\ f \in Files /\ (p \in Threads => p \in Owner[f]) /\ ~Purging /\ fault = {}
      /\ \A q \in Procs : q # p => file[q] # f /\ op[q] # "purge"
  BY Zenon, Worker
<1>2. file[p] = f
  BY Zenon DEF Works
<1>3. fault' = {}
  BY Zenon, <1>1
<1>4. QED
  BY Zenon, <1>1, <1>2, <1>3, StepFrame

(* A step that leaves the records alone leaves what is known of them. *)
LEMMA Quiet ==
  ASSUME NEW g, UNCHANGED <<scanVars, lruVars>>
  PROVE  /\ Same(g)
         /\ ContentInv => ContentInv'
         /\ Matched(g)' <=> Matched(g)
         /\ NoLru(g)' <=> NoLru(g)
         /\ NoScan(g)' <=> NoScan(g)
<1> USE DEF scanVars, lruVars
<1>1. Same(g)
  BY Zenon DEF Same, ScanSame, LruSame
<1>2. ContentInv => ContentInv'
  BY Zenon DEF ContentInv
<1>3. Matched(g)' <=> Matched(g)
  BY Zenon DEF Matched
<1>4. (NoLru(g)' <=> NoLru(g)) /\ (NoScan(g)' <=> NoScan(g))
  BY Zenon DEF NoLru, NoScan
<1>5. QED
  BY Zenon, <1>1, <1>2, <1>3, <1>4

(* RB_INSERT of a new key: the file has a scan record and no LRU record     *)
(* yet.  In this and the following lemmas t works on f.                     *)
LEMMA OwnInsert ==
  ASSUME TypeOK, TypeOK', RecordInv, OwnerInv, NEW t \in Procs, NEW f,
         Works(t, f), Insert(t)
  PROVE  OwnerInv'
<1>1. pc[t] = "insert" /\ file[t] = f /\ f # NULL
  BY Zenon, Worker DEF Insert, At, Works
<1>2. /\ op[t] = "insert" /\ scanRec[rec[t]].file = f /\ rec[t] \in ScanIds
      /\ Matched(f) /\ ContentInv
  <2>1. /\ op[t] = "insert" /\ scanRec[rec[t]].file = f /\ rec[t] # NULL
        /\ Matched(f) /\ ContentInv
    BY Zenon, <1>1, Worker DEF OwnAt, OpAt
  <2> QED
    BY Zenon, <2>1 DEF TypeOK
<1>3. /\ pc' = [pc EXCEPT ![t] = "lru_alloc"] /\ scanTree' = scanTree \cup {rec[t]}
      /\ UNCHANGED <<scanLive, scanRec, lruLive, lruRec, lruTree, op, file, gen, rec, old, lru, fault>>
  BY Zenon DEF Insert, Goto, lruVars, args, ptrs
<1>4. NoScan(f)
  BY Zenon, <1>2 DEF Insert, ScanNodes, NoScan
<1>5. NoLru(f)
  BY <1>2, <1>4 DEF NoLru, NoScan, Matched
<1>6. \A q \in Procs : q # t => LocalSame(q)
  BY Zenon, <1>3 DEF LocalSame, TypeOK
<1>7. \A g \in Files : g # f => Same(g)
  BY Zenon, <1>2, <1>3 DEF Same, ScanSame, LruSame
<1>8. ContentInv'
  BY Zenon, <1>2, <1>3, <1>4 DEF ContentInv, NoScan
<1>9. NoLru(f)'
  BY Zenon, <1>3, <1>5 DEF NoLru
<1>10. pc'[t] = "lru_alloc" /\ op'[t] = "insert" /\ file'[t] = f /\ rec'[t] = rec[t]
  BY Zenon, <1>1, <1>2, <1>3 DEF TypeOK
<1>11. OwnAt(t)'
  BY Zenon, <1>1, <1>2, <1>3, <1>9, <1>10 DEF OwnAt, Replaced, Loops
<1>12. QED
  BY Zenon, <1>1, <1>3, <1>6, <1>7, <1>8, <1>10, <1>11, WorkerFrame

(* RB_INSERT met the key: the operation becomes an update. *)
LEMMA OwnInsertDuplicate ==
  ASSUME TypeOK, TypeOK', RecordInv, OwnerInv, NEW t \in Procs, NEW f,
         Works(t, f), InsertDuplicate(t)
  PROVE  OwnerInv'
<1>1. pc[t] = "insert" /\ file[t] = f /\ f # NULL
  BY Zenon, Worker DEF InsertDuplicate, At, Works
<1>2. scanRec[rec[t]].file = f /\ rec[t] # NULL /\ Matched(f) /\ ContentInv
  BY Zenon, <1>1, Worker DEF OwnAt
<1>3. /\ pc' = [pc EXCEPT ![t] = "find_old"] /\ op' = [op EXCEPT ![t] = "update"]
      /\ UNCHANGED <<scanVars, lruVars, file, rec, old, lru, fault>>
  BY Zenon DEF InsertDuplicate, Goto, ptrs
<1>4. ~NoScan(f)
  BY Zenon, <1>2 DEF InsertDuplicate, ScanNodes, NoScan
<1>5. \A q \in Procs : q # t => LocalSame(q)
  BY Zenon, <1>3 DEF LocalSame, TypeOK
<1>6. \A g : Same(g) /\ (Matched(g)' <=> Matched(g)) /\ (NoScan(g)' <=> NoScan(g)) /\ ContentInv'
  BY Zenon, <1>2, <1>3, Quiet
<1>7. pc'[t] = "find_old" /\ op'[t] = "update" /\ file'[t] = f /\ rec'[t] = rec[t]
  BY Zenon, <1>1, <1>3 DEF TypeOK
<1>8. OwnAt(t)'
  BY Zenon, <1>1, <1>2, <1>3, <1>4, <1>6, <1>7 DEF OwnAt, Replaced, Loops, scanVars
<1>9. QED
  BY Zenon, <1>1, <1>3, <1>5, <1>6, <1>7, <1>8, WorkerFrame

(* The second search of an update finds the record the first one met. *)
LEMMA OwnFindOld ==
  ASSUME TypeOK, TypeOK', RecordInv, OwnerInv, NEW t \in Procs, NEW f,
         Works(t, f), FindOld(t)
  PROVE  OwnerInv'
<1>1. pc[t] = "find_old" /\ file[t] = f /\ f # NULL
  BY Zenon, Worker DEF FindOld, At, Works
<1>2. /\ scanRec[rec[t]].file = f /\ rec[t] # NULL /\ Matched(f) /\ ContentInv
      /\ op[t] = "update"
  BY Zenon, <1>1, Worker DEF OwnAt, OpAt
<1>3. /\ pc' = [pc EXCEPT ![t] = "replace"]
      /\ UNCHANGED <<scanVars, lruVars, op, file, rec, lru, fault>>
  BY Zenon DEF FindOld, Goto, args
<1>4. PICK s \in scanTree : scanRec[s].file = f /\ old' = [old EXCEPT ![t] = s]
  BY Zenon, <1>2 DEF FindOld, ScanNodes
<1>5. \A q \in Procs : q # t => LocalSame(q)
  BY Zenon, <1>3, <1>4 DEF LocalSame, TypeOK
<1>6. \A g : Same(g) /\ (Matched(g)' <=> Matched(g)) /\ ContentInv'
  BY Zenon, <1>2, <1>3, Quiet
<1>7. /\ pc'[t] = "replace" /\ op'[t] = "update" /\ file'[t] = f
      /\ rec'[t] = rec[t] /\ old'[t] = s
  BY Zenon, <1>1, <1>2, <1>3, <1>4 DEF TypeOK
<1>8. s # NULL
  BY Zenon, CacheAssumption DEF TypeOK
<1>9. OwnAt(t)'
  <2>1. s \in scanTree' /\ scanRec'[rec[t]].file = f /\ scanRec'[s].file = f
    BY Zenon, <1>2, <1>3, <1>4 DEF scanVars
  <2>2. Matched(f)'
    BY Zenon, <1>2, <1>6
  <2> QED
    BY Zenon, <1>1, <1>2, <1>7, <1>8, <2>1, <2>2 DEF OwnAt, Replaced, Loops
<1>10. QED
  BY Zenon, <1>1, <1>3, <1>5, <1>6, <1>7, <1>9, WorkerFrame

(* The second search of an update cannot fail: nobody else works on the    *)
(* file.                                                                   *)
LEMMA OwnFindOldFails ==
  ASSUME TypeOK, TypeOK', RecordInv, OwnerInv, NEW t \in Procs, NEW f,
         Works(t, f), FindOldFails(t)
  PROVE  OwnerInv'
<1>1. pc[t] = "find_old" /\ file[t] = f /\ f # NULL
  BY Zenon, Worker DEF FindOldFails, At, Works
<1>2. scanRec[rec[t]].file = f /\ ~NoScan(f)
  BY Zenon, <1>1, Worker DEF OwnAt
<1>3. QED
  BY Zenon, <1>2 DEF FindOldFails, ScanNodes, NoScan

(* RB_REPLACE puts the new record in the place of the old one: the LRU     *)
(* record still carries the old time stamp.                                *)
LEMMA OwnReplace ==
  ASSUME TypeOK, TypeOK', RecordInv, OwnerInv, NEW t \in Procs, NEW f,
         Works(t, f), Replace(t)
  PROVE  OwnerInv'
<1>1. pc[t] = "replace" /\ file[t] = f /\ f # NULL
  BY Zenon, Worker DEF Replace, At, Works
<1>2. /\ scanRec[rec[t]].file = f /\ scanRec[old[t]].file = f
      /\ rec[t] \in ScanIds /\ old[t] \in scanTree /\ old[t] # NULL
      /\ Matched(f) /\ ContentInv /\ op[t] = "update"
  <2>1. OwnAt(t) /\ OpAt(t) /\ ContentInv
    BY Zenon, Worker
  <2>2. /\ scanRec[rec[t]].file = f /\ scanRec[old[t]].file = f /\ rec[t] # NULL
        /\ old[t] \in scanTree /\ old[t] # NULL /\ Matched(f) /\ op[t] = "update"
    BY Zenon, <1>1, <2>1 DEF OwnAt, OpAt
  <2>3. rec[t] \in ScanIds
    BY Zenon, <2>2 DEF TypeOK
  <2>4. QED
    BY Zenon, <2>1, <2>2, <2>3
<1>3. /\ pc' = [pc EXCEPT ![t] = "lru_find"]
      /\ scanTree' = (scanTree \ {old[t]}) \cup {rec[t]}
      /\ UNCHANGED <<scanLive, scanRec, lruLive, lruRec, lruTree, op, file, rec, old, lru, fault>>
  BY Zenon DEF Replace, Goto, lruVars, args, ptrs
<1>4. \A q \in Procs : q # t => LocalSame(q)
  BY Zenon, <1>3 DEF LocalSame, TypeOK
<1>5. \A s \in scanTree : scanRec[s].file = f => s = old[t]
  BY Zenon, <1>2 DEF ContentInv
<1>6. \A g \in Files : g # f => Same(g)
  BY Zenon, <1>2, <1>3 DEF Same, ScanSame, LruSame
<1>7. ContentInv'
  <2>1. /\ \A s \in ScanIds : scanRec'[s] \in Record <=> s \in scanLive'
        /\ \A l \in LruIds : lruRec'[l] \in Record <=> l \in lruLive'
    BY Zenon, <1>2, <1>3 DEF ContentInv
  <2>2. \A s, r \in scanTree' : scanRec'[s].file = scanRec'[r].file => s = r
    <3>1. \A s, r \in scanTree : scanRec[s].file = scanRec[r].file => s = r
      BY Zenon, <1>2 DEF ContentInv
    <3>2. scanRec[rec[t]].file = f
      BY Zenon, <1>2
    <3>3. \A s \in scanTree' : s = rec[t] \/ (s \in scanTree /\ scanRec[s].file # f)
      BY Zenon, <1>3, <1>5
    <3>4. scanRec' = scanRec
      BY Zenon, <1>3
    <3> QED
      BY Zenon, <3>1, <3>2, <3>3, <3>4
  <2> QED
    BY Zenon, <2>1, <2>2 DEF ContentInv
<1>8. \E l \in lruTree : lruRec[l] = scanRec[old[t]]
  BY Zenon, <1>2 DEF Matched
<1>9. \A l \in lruTree : lruRec[l].file = f => lruRec[l] = scanRec[old[t]]
  <2>1. ASSUME NEW l \in lruTree, lruRec[l].file = f PROVE lruRec[l] = scanRec[old[t]]
    <3>1. PICK s \in scanTree : scanRec[s] = lruRec[l]
      BY Zenon, <1>2, <2>1 DEF Matched
    <3>2. s = old[t]
      BY Zenon, <1>2, <2>1, <3>1 DEF ContentInv
    <3>3. QED
      BY Zenon, <3>1, <3>2
  <2>2. QED
    BY Zenon, <2>1
<1>10. /\ pc'[t] = "lru_find" /\ op'[t] = "update" /\ file'[t] = f
       /\ rec'[t] = rec[t] /\ old'[t] = old[t]
  BY Zenon, <1>1, <1>2, <1>3 DEF TypeOK
<1>11. OwnAt(t)'
  BY Zenon, <1>1, <1>2, <1>3, <1>8, <1>9, <1>10 DEF OwnAt, Replaced, Loops
<1>12. QED
  BY Zenon, <1>1, <1>3, <1>4, <1>6, <1>7, <1>10, <1>11, WorkerFrame

(* find_scan_cache_record found the record of a removal. *)
LEMMA OwnFind ==
  ASSUME TypeOK, TypeOK', RecordInv, OwnerInv, NEW t \in Procs, NEW f,
         Works(t, f), Find(t)
  PROVE  OwnerInv'
<1>1. pc[t] = "find" /\ file[t] = f /\ f # NULL
  BY Zenon, Worker DEF Find, At, Works
<1>2. Matched(f) /\ ContentInv /\ op[t] = "remove"
  BY Zenon, <1>1, Worker DEF OwnAt, OpAt
<1>3. /\ pc' = [pc EXCEPT ![t] = "lru_find"]
      /\ UNCHANGED <<scanVars, lruVars, op, file, old, lru, fault>>
  BY Zenon DEF Find, Goto, args
<1>4. PICK s \in scanTree : scanRec[s].file = f /\ rec' = [rec EXCEPT ![t] = s]
  BY Zenon, <1>1 DEF Find, ScanMatches, ScanNodes
<1>5. \A q \in Procs : q # t => LocalSame(q)
  BY Zenon, <1>3, <1>4 DEF LocalSame, TypeOK
<1>6. \A g : Same(g) /\ (Matched(g)' <=> Matched(g)) /\ ContentInv'
  BY Zenon, <1>2, <1>3, Quiet
<1>7. /\ pc'[t] = "lru_find" /\ op'[t] = "remove" /\ file'[t] = f /\ rec'[t] = s
  BY Zenon, <1>1, <1>2, <1>3, <1>4 DEF TypeOK
<1>8. OwnAt(t)'
  <2>1. s \in scanTree' /\ scanRec'[s].file = f
    BY Zenon, <1>3, <1>4 DEF scanVars
  <2>2. Matched(f)'
    BY Zenon, <1>2, <1>6
  <2> QED
    BY Zenon, <1>1, <1>7, <2>1, <2>2 DEF OwnAt, Replaced, Loops
<1>9. QED
  BY Zenon, <1>1, <1>3, <1>5, <1>6, <1>7, <1>8, WorkerFrame

(* A removal that finds nothing leaves the trees as they were. *)
LEMMA OwnFindFails ==
  ASSUME TypeOK, TypeOK', RecordInv, OwnerInv, NEW t \in Procs, NEW f,
         Works(t, f), FindFails(t)
  PROVE  OwnerInv'
<1>1. pc[t] = "find" /\ file[t] = f /\ f # NULL
  BY Zenon, Worker DEF FindFails, At, Works
<1>2. Matched(f) /\ ContentInv
  BY Zenon, <1>1, Worker DEF OwnAt
<1>3. Leave(t, "idle") /\ UNCHANGED <<scanVars, lruVars, fault>>
  BY Zenon DEF FindFails, Return
<1>4. \A q \in Procs : q # t => LocalSame(q)
  BY Zenon, <1>3, LeaveFrame, TypeParts
<1>5. \A g : Same(g) /\ (Matched(g)' <=> Matched(g)) /\ ContentInv'
  BY Zenon, <1>2, <1>3, Quiet
<1>6. pc'[t] = "idle" /\ op'[t] = "none" /\ file'[t] = NULL
  BY Zenon, <1>3 DEF Leave, Goto, TypeOK
<1>7. OwnAt(t)'
  BY Zenon, <1>6 DEF OwnAt, Replaced, Loops
<1>8. QED
  BY Zenon, <1>2, <1>3, <1>4, <1>5, <1>6, <1>7, WorkerFrame

(* The LRU search finds the file's own LRU record: time stamps are unique  *)
(* in the LRU tree.                                                        *)
LEMMA OwnLruFind ==
  ASSUME TypeOK, TypeOK', RecordInv, OwnerInv, NEW t \in Procs, NEW f,
         Works(t, f), LruFind(t)
  PROVE  OwnerInv'
<1>1. pc[t] = "lru_find" /\ file[t] = f /\ f # NULL
  BY Zenon, Worker DEF LruFind, At, Works
<1>2. /\ rec[t] \in scanTree /\ scanRec[rec[t]].file = f /\ ContentInv
      /\ op[t] \in {"remove", "update"}
      /\ op[t] = "update" => old[t] # NULL /\ scanRec[old[t]].file = f
  BY Zenon, <1>1, Worker DEF OwnAt, Replaced
<1>3. /\ pc' = [pc EXCEPT ![t] = "lru_remove"]
      /\ UNCHANGED <<scanVars, lruVars, op, file, rec, old, fault>>
  BY Zenon DEF LruFind, Goto, args
<1>4. PICK l \in lruTree : lruRec[l].time = scanRec[TimeKey(t)].time /\ lru' = [lru EXCEPT ![t] = l]
  BY Zenon DEF LruFind, LruNodes
<1>5. /\ \E m \in lruTree : lruRec[m] = scanRec[TimeKey(t)]
      /\ \A m \in lruTree : lruRec[m].file = f => lruRec[m] = scanRec[TimeKey(t)]
  <2>1. CASE op[t] = "update"
    BY Zenon, <1>1, <2>1, Worker DEF OwnAt, TimeKey
  <2>2. CASE op[t] = "remove"
    <3>1. Matched(f)
      BY Zenon, <1>1, <2>2, Worker DEF OwnAt
    <3>2. \A s \in scanTree : scanRec[s].file = f => s = rec[t]
      BY Zenon, <1>2 DEF ContentInv
    <3>3. QED
      <4>1. TimeKey(t) = rec[t]
        BY Zenon, <2>2 DEF TimeKey
      <4>2. \E m \in lruTree : lruRec[m] = scanRec[rec[t]]
        BY Zenon, <1>2, <3>1 DEF Matched
      <4>3. \A m \in lruTree : lruRec[m].file = f => lruRec[m] = scanRec[rec[t]]
        BY Zenon, <3>1, <3>2 DEF Matched
      <4>4. QED
        BY Zenon, <4>1, <4>2, <4>3
  <2>3. QED
    BY Zenon, <1>2, <2>1, <2>2
<1>6. \A m \in lruTree : lruRec[m].time = lruRec[l].time => m = l
  BY Zenon DEF RecordInv, LruRecordInv, LruTimesUnique
<1>7. scanRec[TimeKey(t)].file = f
  BY Zenon, <1>2 DEF TimeKey
<1>8. /\ lruRec[l] = scanRec[TimeKey(t)] /\ lruRec[l].file = f
      /\ \A m \in lruTree : lruRec[m].file = f => m = l
  BY Zenon, <1>4, <1>5, <1>6, <1>7
<1>9. \A q \in Procs : q # t => LocalSame(q)
  BY Zenon, <1>3, <1>4 DEF LocalSame, TypeOK
<1>10. \A g : Same(g) /\ ContentInv'
  BY Zenon, <1>2, <1>3, Quiet
<1>11. /\ pc'[t] = "lru_remove" /\ op'[t] = op[t] /\ file'[t] = f
       /\ rec'[t] = rec[t] /\ old'[t] = old[t] /\ lru'[t] = l /\ l # NULL
  <2>1. l # NULL
    BY Zenon, CacheAssumption DEF TypeOK
  <2> QED
    BY Zenon, <1>1, <1>3, <1>4, <2>1 DEF TypeOK
<1>12. OwnAt(t)'
  <2>1. lruRec'[l] = scanRec'[TimeKey(t)'] /\ lruTree' = lruTree /\ lruRec' = lruRec
    BY Zenon, <1>3, <1>8, <1>11 DEF TimeKey, scanVars, lruVars
  <2>2. QED
    BY Zenon, <1>1, <1>2, <1>3, <1>8, <1>11, <2>1 DEF OwnAt, Replaced, Loops, scanVars
<1>13. QED
  BY Zenon, <1>1, <1>3, <1>9, <1>10, <1>11, <1>12, WorkerFrame

(* The LRU search of an operation cannot fail: the file has an LRU record. *)
LEMMA OwnLruFindFails ==
  ASSUME TypeOK, TypeOK', RecordInv, OwnerInv, NEW t \in Procs, NEW f,
         Works(t, f), LruFindFails(t)
  PROVE  OwnerInv'
<1>1. pc[t] = "lru_find" /\ file[t] = f /\ f # NULL
  BY Zenon, Worker DEF LruFindFails, At, Works
<1>2. /\ rec[t] \in scanTree /\ scanRec[rec[t]].file = f
      /\ op[t] \in {"remove", "update"}
      /\ op[t] = "remove" => Matched(f)
      /\ op[t] = "update" => \E m \in lruTree : lruRec[m] = scanRec[old[t]]
  BY Zenon, <1>1, Worker DEF OwnAt, Replaced
<1>3. \E m \in lruTree : lruRec[m] = scanRec[TimeKey(t)]
  BY Zenon, <1>2 DEF Matched, TimeKey
<1>4. QED
  BY Zenon, <1>3 DEF LruFindFails, LruNodes

(* A new LRU record gets the fields of the scan record. *)
LEMMA OwnLruAlloc ==
  ASSUME TypeOK, TypeOK', RecordInv, OwnerInv, NEW t \in Procs, NEW f,
         Works(t, f), LruAlloc(t)
  PROVE  OwnerInv'
<1>1. pc[t] = "lru_alloc" /\ file[t] = f /\ f # NULL
  BY Zenon, Worker DEF LruAlloc, At, Works
<1>2. /\ rec[t] \in scanTree /\ scanRec[rec[t]].file = f /\ ContentInv /\ NoLru(f)
      /\ op[t] \in {"insert", "update"}
      /\ op[t] = "update" => old[t] # NULL /\ scanRec[old[t]].file = f
  BY Zenon, <1>1, Worker DEF OwnAt, Replaced
<1>3. /\ pc' = [pc EXCEPT ![t] = "lru_insert"]
      /\ UNCHANGED <<scanLive, scanRec, scanTree, lruTree, op, file, rec, old, fault>>
  BY Zenon DEF LruAlloc, Goto, args, scanVars
<1>4. PICK l \in LruIds \ lruLive :
         /\ lruLive' = lruLive \cup {l}
         /\ lruRec' = [lruRec EXCEPT ![l] = scanRec[rec[t]]]
         /\ lru' = [lru EXCEPT ![t] = l]
  BY Zenon DEF LruAlloc
<1>5. l \notin lruTree
  BY Zenon, <1>4 DEF RecordInv, LruRecordInv
<1>6. lruRec[l].file = NULL
  <2>1. lruRec[l] = Blank
    BY Zenon, <1>2, <1>4 DEF ContentInv, TypeOK
  <2> QED
    BY <2>1 DEF Blank
<1>7. scanRec[rec[t]] \in Record
  BY Zenon, <1>2 DEF ContentInv, RecordInv, ScanRecordInv, TypeOK
<1>8. lruRec' = [m \in LruIds |-> IF m = l THEN scanRec[rec[t]] ELSE lruRec[m]]
  BY Zenon, <1>4 DEF TypeOK
<1>9. \A q \in Procs : q # t => LocalSame(q)
  BY Zenon, <1>3, <1>4 DEF LocalSame, TypeOK
<1>10. \A g \in Files : g # f => Same(g)
  BY Zenon, <1>2, <1>3, <1>6, <1>8, CacheAssumption DEF Same, ScanSame, LruSame
<1>11. ContentInv'
  BY Zenon, <1>2, <1>3, <1>4, <1>7, <1>8 DEF ContentInv
<1>12. NoLru(f)'
  BY Zenon, <1>2, <1>3, <1>5, <1>8 DEF NoLru, TypeOK
<1>13. /\ pc'[t] = "lru_insert" /\ op'[t] = op[t] /\ file'[t] = f
       /\ rec'[t] = rec[t] /\ old'[t] = old[t] /\ lru'[t] = l /\ l # NULL
  BY Zenon, <1>1, <1>3, <1>4, CacheAssumption DEF TypeOK
<1>14. lruRec'[l] = scanRec[rec[t]]
  BY Zenon, <1>8
<1>15. OwnAt(t)'
  BY Zenon, <1>1, <1>2, <1>3, <1>12, <1>13, <1>14 DEF OwnAt, Replaced, Loops
<1>16. QED
  BY Zenon, <1>1, <1>3, <1>9, <1>10, <1>11, <1>13, <1>15, WorkerFrame

(* With no LRU record linked, the scan record is taken out again. *)
LEMMA OwnLruAllocFails ==
  ASSUME TypeOK, TypeOK', RecordInv, OwnerInv, NEW t \in Procs, NEW f,
         Works(t, f), LruAllocFails(t) \/ LruInsertDuplicate(t)
  PROVE  OwnerInv'
<1>1. pc[t] \in {"lru_alloc", "lru_insert"} /\ file[t] = f /\ f # NULL
  BY Zenon, Worker DEF LruAllocFails, LruInsertDuplicate, At, Works
<1>2. /\ rec[t] \in scanTree /\ scanRec[rec[t]].file = f /\ ContentInv /\ NoLru(f)
      /\ op[t] \in {"insert", "update"}
      /\ op[t] = "update" => old[t] # NULL /\ scanRec[old[t]].file = f
  BY Zenon, <1>1, Worker DEF OwnAt, Replaced
<1>3. /\ pc' = [pc EXCEPT ![t] = "scan_remove"]
      /\ lru' = lru \/ lru' = [lru EXCEPT ![t] = NULL]
      /\ UNCHANGED <<scanVars, lruVars, op, file, rec, old, fault>>
  BY Zenon DEF LruAllocFails, LruInsertDuplicate, Goto, args, ptrs
<1>4. \A q \in Procs : q # t => LocalSame(q)
  BY Zenon, <1>3 DEF LocalSame, TypeOK
<1>5. \A g : Same(g) /\ (NoLru(g)' <=> NoLru(g)) /\ ContentInv'
  BY Zenon, <1>2, <1>3, Quiet
<1>6. /\ pc'[t] = "scan_remove" /\ op'[t] = op[t] /\ file'[t] = f
      /\ rec'[t] = rec[t] /\ old'[t] = old[t]
  BY Zenon, <1>1, <1>3 DEF TypeOK
<1>7. OwnAt(t)'
  BY Zenon, <1>1, <1>2, <1>3, <1>5, <1>6 DEF OwnAt, Replaced, Loops, scanVars
<1>8. QED
  BY Zenon, <1>1, <1>3, <1>4, <1>5, <1>6, <1>7, WorkerFrame

(* Linking the LRU record makes the two trees agree on the file. *)
LEMMA OwnLruInsert ==
  ASSUME TypeOK, TypeOK', RecordInv, OwnerInv, NEW t \in Procs, NEW f,
         Works(t, f), LruInsert(t)
  PROVE  OwnerInv'
<1>1. pc[t] = "lru_insert" /\ file[t] = f /\ f # NULL
  BY Zenon, Worker DEF LruInsert, At, Works
<1>2. /\ rec[t] \in scanTree /\ scanRec[rec[t]].file = f /\ ContentInv /\ NoLru(f)
      /\ lruRec[lru[t]] = scanRec[rec[t]] /\ lru[t] \in LruIds
      /\ op[t] = "update" => old[t] # NULL /\ scanRec[old[t]].file = f
  <2>1. OwnAt(t) /\ ContentInv
    BY Zenon, Worker
  <2>2. /\ rec[t] \in scanTree /\ scanRec[rec[t]].file = f /\ NoLru(f)
        /\ lruRec[lru[t]] = scanRec[rec[t]] /\ lru[t] # NULL
        /\ op[t] = "update" => old[t] # NULL /\ scanRec[old[t]].file = f
    BY Zenon, <1>1, <2>1 DEF OwnAt, Replaced
  <2>3. lru[t] \in LruIds
    BY Zenon, <2>2 DEF TypeOK
  <2>4. QED
    BY Zenon, <2>1, <2>2, <2>3
<1>3. /\ lruTree' = lruTree \cup {lru[t]}
      /\ UNCHANGED <<scanLive, scanRec, scanTree, lruLive, lruRec, fault>>
  BY Zenon DEF LruInsert, scanVars
<1>4. Matched(f)'
  <2>1. \A s \in scanTree : scanRec[s].file = f => s = rec[t]
    BY Zenon, <1>2 DEF ContentInv
  <2>2. QED
    BY Zenon, <1>2, <1>3, <2>1 DEF Matched, NoLru
<1>5. \A g \in Files : g # f => Same(g)
  BY Zenon, <1>2, <1>3 DEF Same, ScanSame, LruSame
<1>6. ContentInv'
  BY Zenon, <1>2, <1>3 DEF ContentInv
<1>7. CASE op[t] = "insert"
  <2>1. Leave(t, "idle")
    BY Zenon, <1>7 DEF LruInsert, Return
  <2>2. \A q \in Procs : q # t => LocalSame(q)
    BY Zenon, <2>1, LeaveFrame, TypeParts
  <2>3. pc'[t] = "idle" /\ op'[t] = "none" /\ file'[t] = NULL
    BY Zenon, <2>1 DEF Leave, Goto, TypeOK
  <2>4. OwnAt(t)'
    BY Zenon, <2>3 DEF OwnAt, Replaced, Loops
  <2>5. QED
    BY Zenon, <1>3, <1>4, <1>5, <1>6, <2>2, <2>3, <2>4, WorkerFrame
<1>8. CASE op[t] = "update"
  <2>1. pc' = [pc EXCEPT ![t] = "free_old"] /\ UNCHANGED <<op, file, rec, old, lru>>
    BY Zenon, <1>8 DEF LruInsert, Goto, args, ptrs
  <2>2. \A q \in Procs : q # t => LocalSame(q)
    BY Zenon, <2>1 DEF LocalSame, TypeOK
  <2>3. pc'[t] = "free_old" /\ op'[t] = "update" /\ file'[t] = f /\ old'[t] = old[t]
    BY Zenon, <1>1, <1>8, <2>1 DEF TypeOK
  <2>4. OwnAt(t)'
    BY Zenon, <1>1, <1>2, <1>3, <1>4, <1>8, <2>3 DEF OwnAt, Replaced, Loops
  <2>5. QED
    BY Zenon, <1>3, <1>4, <1>5, <1>6, <2>2, <2>3, <2>4, WorkerFrame
<1>9. QED
  BY Zenon, <1>7, <1>8 DEF LruInsert

-----------------------------------------------------------------------------
(* The frames of the steps, and the calls.                                 *)

(* A process that has unlinked or not linked a scan record may free it. *)
LEMMA FreeScanFrame ==
  ASSUME TypeOK, TypeOK', RecordInv, ContentInv, NEW f, f # NULL,
         NEW s \in ScanIds, s \notin scanTree, scanRec[s].file = f,
         FreeScan(s), UNCHANGED <<scanTree, lruVars>>
  PROVE  /\ \A g \in Files : g # f => Same(g)
         /\ ContentInv'
         /\ Matched(f) => Matched(f)'
         /\ NoScan(f) => NoScan(f)'
         /\ NoLru(f) => NoLru(f)'
         /\ \A r \in ScanIds : r # s => scanRec'[r] = scanRec[r]
<1>1. /\ scanRec' = [r \in ScanIds |-> IF r = s THEN Blank ELSE scanRec[r]]
      /\ scanLive' = scanLive \ {s}
      /\ UNCHANGED <<scanTree, lruLive, lruRec, lruTree>>
  BY Zenon DEF FreeScan, TypeOK, lruVars
<1>2. Blank \notin Record /\ Blank.file = NULL
  BY Zenon, CacheAssumption DEF Blank, Record
<1>3. scanTree \subseteq ScanIds
  BY Zenon DEF TypeOK
<1>4. \A g \in Files : g # f => Same(g)
  BY Zenon, <1>1, <1>2, CacheAssumption DEF Same, ScanSame, LruSame
<1>5. ContentInv'
  BY Zenon, <1>1, <1>2, <1>3 DEF ContentInv
<1>6. Matched(f) => Matched(f)'
  BY Zenon, <1>1, <1>3 DEF Matched
<1>7. (NoScan(f) => NoScan(f)') /\ (NoLru(f) => NoLru(f)')
  BY Zenon, <1>1, <1>3 DEF NoScan, NoLru
<1>8. QED
  BY Zenon, <1>1, <1>4, <1>5, <1>6, <1>7

(* Leaving an operation: nothing is known of a process at rest. *)
LEMMA OwnLeave ==
  ASSUME TypeOK, TypeOK', NEW p \in Procs, NEW label \in Loops, Leave(p, label)
  PROVE  /\ \A q \in Procs : q # p => LocalSame(q)
         /\ pc'[p] = label /\ op'[p] = "none" /\ file'[p] = NULL
         /\ OwnAt(p)'
<1>1. \A q \in Procs : q # p => LocalSame(q)
  BY Zenon, LeaveFrame, TypeParts
<1>2. pc'[p] = label /\ op'[p] = "none" /\ file'[p] = NULL
  BY Zenon DEF Leave, Goto, TypeOK
<1>3. OwnAt(p)'
  BY Zenon, <1>2 DEF OwnAt, Replaced, Loops
<1>4. QED
  BY Zenon, <1>1, <1>2, <1>3

(* The replaced record is freed at the end of an update: it is in no tree. *)
LEMMA OwnFreeOld ==
  ASSUME TypeOK, TypeOK', RecordInv, OwnerInv, NEW t \in Procs, NEW f,
         Works(t, f), FreeOld(t)
  PROVE  OwnerInv'
<1>1. pc[t] = "free_old" /\ file[t] = f /\ f # NULL
  BY Zenon, Worker DEF FreeOld, At, Works
<1>2. op[t] = "update"
  BY Zenon, <1>1, Worker DEF OpAt
<1>3. old[t] # NULL /\ scanRec[old[t]].file = f /\ Matched(f) /\ ContentInv
  BY Zenon, <1>1, <1>2, Worker DEF OwnAt, Replaced
<1>4. old[t] \in ScanIds /\ old[t] \notin scanTree
  <2>1. old[t] \in ScanIds
    BY Zenon, <1>3 DEF TypeOK
  <2>2. ScanClaim(t, old[t])
    BY Zenon, <1>1, <1>2 DEF ScanClaim, Replaced
  <2>3. QED
    BY Zenon, <2>1, <2>2 DEF RecordInv, ScanRecordInv
<1>5. FreeScan(old[t]) /\ UNCHANGED <<scanTree, lruVars, fault>> /\ Leave(t, "idle")
  BY Zenon DEF FreeOld, Return
<1>6. (\A g \in Files : g # f => Same(g)) /\ ContentInv' /\ Matched(f)'
  BY Zenon, <1>1, <1>3, <1>4, <1>5, FreeScanFrame
<1>7. (\A q \in Procs : q # t => LocalSame(q)) /\ file'[t] = NULL /\ OwnAt(t)'
  BY Zenon, <1>5, OwnLeave DEF Loops
<1>8. QED
  BY Zenon, <1>5, <1>6, <1>7, WorkerFrame

(* Unlinking the LRU record of an operation. *)
LEMMA OwnLruRemove ==
  ASSUME TypeOK, TypeOK', RecordInv, OwnerInv, NEW t \in Procs, NEW f,
         Works(t, f), LruRemove(t)
  PROVE  OwnerInv'
<1>1. pc[t] = "lru_remove" /\ file[t] = f /\ f # NULL
  BY Zenon, Worker DEF LruRemove, At, Works
<1>2. /\ rec[t] \in scanTree /\ scanRec[rec[t]].file = f /\ ContentInv
      /\ op[t] = "update" => old[t] # NULL /\ scanRec[old[t]].file = f
      /\ lru[t] # NULL /\ lruRec[lru[t]].file = f
      /\ \A l \in lruTree : lruRec[l].file = f => l = lru[t]
  BY Zenon, <1>1, Worker DEF OwnAt, Replaced
<1>3. /\ pc' = [pc EXCEPT ![t] = "lru_free"]
      /\ lruTree' = lruTree \ {lru[t]}
      /\ UNCHANGED <<scanLive, scanRec, scanTree, lruLive, lruRec, op, file, rec,
                     old, lru, fault>>
  BY Zenon DEF LruRemove, Goto, args, ptrs, scanVars
<1>4. \A q \in Procs : q # t => LocalSame(q)
  BY Zenon, <1>3 DEF LocalSame, TypeOK
<1>5. \A g \in Files : g # f => Same(g)
  BY Zenon, <1>2, <1>3 DEF Same, ScanSame, LruSame
<1>6. ContentInv'
  BY Zenon, <1>2, <1>3 DEF ContentInv
<1>7. NoLru(f)'
  BY Zenon, <1>2, <1>3 DEF NoLru
<1>8. pc'[t] = "lru_free" /\ op'[t] = op[t] /\ file'[t] = f
  BY Zenon, <1>1, <1>3 DEF TypeOK
<1>9. op[t] # "purge"
  BY Zenon DEF Works
<1>10. OwnAt(t)'
  BY Zenon, <1>1, <1>2, <1>3, <1>7, <1>8, <1>9 DEF OwnAt, Replaced, Loops
<1>11. QED
  BY Zenon, <1>1, <1>3, <1>4, <1>5, <1>6, <1>8, <1>10, WorkerFrame

(* Freeing the LRU record of an operation. *)
LEMMA OwnLruFree ==
  ASSUME TypeOK, TypeOK', RecordInv, OwnerInv, NEW t \in Procs, NEW f,
         Works(t, f), LruFree(t)
  PROVE  OwnerInv'
<1>1. pc[t] = "lru_free" /\ file[t] = f /\ f # NULL /\ op[t] # "purge"
  BY Zenon, Worker DEF LruFree, At, Works
<1>2. /\ rec[t] \in scanTree /\ scanRec[rec[t]].file = f /\ ContentInv
      /\ op[t] = "update" => old[t] # NULL /\ scanRec[old[t]].file = f
      /\ lru[t] \in LruIds /\ lruRec[lru[t]].file = f /\ NoLru(f)
  <2>1. lru[t] # NULL /\ lruRec[lru[t]].file = f /\ NoLru(f) /\ ContentInv
    BY Zenon, <1>1, Worker DEF OwnAt
  <2>2. /\ rec[t] \in scanTree /\ scanRec[rec[t]].file = f
        /\ op[t] = "update" => old[t] # NULL /\ scanRec[old[t]].file = f
    BY Zenon, <1>1, Worker DEF OwnAt, Replaced
  <2>3. lru[t] \in LruIds
    BY Zenon, <2>1 DEF TypeOK
  <2> QED
    BY Zenon, <2>1, <2>2, <2>3
<1>3. /\ lruLive' = lruLive \ {lru[t]}
      /\ lruRec' = [l \in LruIds |-> IF l = lru[t] THEN Blank ELSE lruRec[l]]
      /\ UNCHANGED <<scanLive, scanRec, scanTree, lruTree, fault>>
  BY Zenon DEF LruFree, scanVars, TypeOK
<1>4. /\ \/ op[t] = "update" /\ pc' = [pc EXCEPT ![t] = "lru_alloc"]
         \/ op[t] \in {"remove", "evict"} /\ pc' = [pc EXCEPT ![t] = "scan_remove"]
      /\ lru' = [lru EXCEPT ![t] = NULL]
      /\ UNCHANGED <<op, file, rec, old>>
  BY Zenon, <1>1 DEF LruFree, Goto, args
<1>5. Blank \notin Record /\ Blank.file = NULL
  BY Zenon, CacheAssumption DEF Blank, Record
<1>6. lru[t] \notin lruTree
  BY Zenon, <1>2 DEF NoLru
<1>7. \A q \in Procs : q # t => LocalSame(q)
  BY Zenon, <1>4 DEF LocalSame, TypeOK
<1>8. \A g \in Files : g # f => Same(g)
  BY Zenon, <1>2, <1>3, <1>5, CacheAssumption DEF Same, ScanSame, LruSame
<1>9. ContentInv'
  BY Zenon, <1>2, <1>3, <1>5 DEF ContentInv
<1>10. NoLru(f)'
  BY Zenon, <1>2, <1>3, <1>6 DEF NoLru, TypeOK
<1>11. pc'[t] \in {"lru_alloc", "scan_remove"} /\ op'[t] = op[t] /\ file'[t] = f
       /\ (pc'[t] = "lru_alloc" => op[t] = "update")
  BY Zenon, <1>1, <1>4 DEF TypeOK
<1>12. OwnAt(t)'
  BY Zenon, <1>1, <1>2, <1>3, <1>4, <1>10, <1>11 DEF OwnAt, Replaced, Loops
<1>13. QED
  BY Zenon, <1>1, <1>3, <1>7, <1>8, <1>9, <1>11, <1>12, WorkerFrame

(* Unlinking the scan record of an operation. *)
LEMMA OwnScanRemove ==
  ASSUME TypeOK, TypeOK', RecordInv, OwnerInv, NEW t \in Procs, NEW f,
         Works(t, f), ScanRemove(t)
  PROVE  OwnerInv'
<1>1. pc[t] = "scan_remove" /\ file[t] = f /\ f # NULL /\ op[t] # "purge"
  BY Zenon, Worker DEF ScanRemove, At, Works
<1>2. /\ rec[t] \in scanTree /\ scanRec[rec[t]].file = f /\ ContentInv /\ NoLru(f)
      /\ op[t] = "update" => old[t] # NULL /\ scanRec[old[t]].file = f
      /\ rec[t] # NULL
  <2>1. /\ rec[t] \in scanTree /\ scanRec[rec[t]].file = f /\ ContentInv /\ NoLru(f)
        /\ op[t] = "update" => old[t] # NULL /\ scanRec[old[t]].file = f
    BY Zenon, <1>1, Worker DEF OwnAt, Replaced
  <2>2. rec[t] # NULL
    BY Zenon, <2>1, CacheAssumption DEF TypeOK
  <2> QED
    BY Zenon, <2>1, <2>2
<1>3. /\ pc' = [pc EXCEPT ![t] = "scan_free"]
      /\ scanTree' = scanTree \ {rec[t]}
      /\ UNCHANGED <<scanLive, scanRec, lruLive, lruTree, lruRec, op, file, rec,
                     old, lru, fault>>
  BY Zenon DEF ScanRemove, Goto, args, ptrs, lruVars
<1>4. \A q \in Procs : q # t => LocalSame(q)
  BY Zenon, <1>3 DEF LocalSame, TypeOK
<1>5. \A g \in Files : g # f => Same(g)
  BY Zenon, <1>2, <1>3 DEF Same, ScanSame, LruSame
<1>6. ContentInv'
  BY Zenon, <1>2, <1>3 DEF ContentInv
<1>7. NoLru(f)' /\ NoScan(f)'
  BY Zenon, <1>2, <1>3 DEF NoLru, NoScan, ContentInv
<1>8. pc'[t] = "scan_free" /\ op'[t] = op[t] /\ file'[t] = f
  BY Zenon, <1>1, <1>3 DEF TypeOK
<1>9. OwnAt(t)'
  BY Zenon, <1>1, <1>2, <1>3, <1>7, <1>8 DEF OwnAt, Replaced, Loops
<1>10. QED
  BY Zenon, <1>1, <1>3, <1>4, <1>5, <1>6, <1>8, <1>9, WorkerFrame

(* Freeing the scan record of an operation: nothing of the file is left. *)
LEMMA OwnScanFree ==
  ASSUME TypeOK, TypeOK', RecordInv, OwnerInv, NEW t \in Procs, NEW f,
         Works(t, f), ScanFree(t)
  PROVE  OwnerInv'
<1>1. pc[t] = "scan_free" /\ file[t] = f /\ f # NULL /\ op[t] # "purge"
  BY Zenon, Worker DEF ScanFree, At, Works
<1>2. /\ rec[t] # NULL /\ scanRec[rec[t]].file = f /\ ContentInv
      /\ op[t] = "update" => old[t] # NULL /\ scanRec[old[t]].file = f
      /\ NoLru(f) /\ NoScan(f)
  BY Zenon, <1>1, Worker DEF OwnAt, Replaced
<1>3. rec[t] \in ScanIds /\ rec[t] \notin scanTree
  BY Zenon, <1>2 DEF TypeOK, NoScan
<1>4. FreeScan(rec[t]) /\ UNCHANGED <<scanTree, lruVars, fault>>
  BY Zenon DEF ScanFree
<1>5. /\ \A g \in Files : g # f => Same(g)
      /\ ContentInv' /\ NoScan(f)' /\ NoLru(f)'
      /\ \A r \in ScanIds : r # rec[t] => scanRec'[r] = scanRec[r]
  BY Zenon, <1>1, <1>2, <1>3, <1>4, FreeScanFrame
<1>6. Matched(f)'
  BY Zenon, <1>5 DEF NoScan, NoLru, Matched
<1>7. CASE op[t] = "update"
  <2>1. /\ pc' = [pc EXCEPT ![t] = "free_old"]
        /\ rec' = [rec EXCEPT ![t] = NULL]
        /\ UNCHANGED <<op, file, old, lru>>
    BY Zenon, <1>7 DEF ScanFree, Goto, args
  <2>2. \A q \in Procs : q # t => LocalSame(q)
    BY Zenon, <2>1 DEF LocalSame, TypeOK
  <2>3. pc'[t] = "free_old" /\ op'[t] = "update" /\ file'[t] = f /\ old'[t] = old[t]
    BY Zenon, <1>1, <1>7, <2>1 DEF TypeOK
  <2>4. old[t] # rec[t]
    BY Zenon, <1>1, <1>7, Worker DEF OpAt
  <2>5. scanRec'[old[t]].file = f
    BY Zenon, <1>2, <1>5, <1>7, <2>4 DEF TypeOK
  <2>6. OwnAt(t)'
    BY Zenon, <1>1, <1>2, <1>6, <1>7, <2>3, <2>5 DEF OwnAt, Replaced, Loops
  <2>7. QED
    BY Zenon, <1>1, <1>4, <1>5, <1>6, <2>2, <2>3, <2>6, WorkerFrame
<1>8. CASE op[t] # "update"
  <2>1. PICK label \in Loops : Leave(t, label)
    BY Zenon, <1>1, <1>8 DEF ScanFree, Return, Loops
  <2>2. (\A q \in Procs : q # t => LocalSame(q)) /\ file'[t] = NULL /\ OwnAt(t)'
    BY Zenon, <2>1, OwnLeave
  <2>3. QED
    BY Zenon, <1>4, <1>5, <1>6, <2>2, WorkerFrame
<1>9. QED
  BY Zenon, <1>7, <1>8

-----------------------------------------------------------------------------
(* A step that changes only labels of processes at rest keeps the          *)
(* invariant.                                                              *)
LEMMA RestFrame ==
  ASSUME TypeOK, TypeOK', RecordInv, OwnerInv, NEW p \in Procs,
         \A q \in Procs : q # p => LocalSame(q) /\ op[q] # "purge",
         UNCHANGED <<scanVars, lruVars, file, fault>>,
         OwnAt(p)', Purging => Purging'
  PROVE  OwnerInv'
<1>1. \A g : Same(g)
  BY Zenon, Quiet
<1>2. ContentInv' /\ fault' = {}
  BY Zenon, Quiet DEF OwnerInv
<1>3. ASSUME NEW q \in Procs PROVE OwnAt(q)'
  <2>1. OwnAt(q)
    BY Zenon DEF OwnerInv
  <2>2. QED
    BY Zenon, <1>1, <2>1, OwnFrame
<1>4. DisjointInv'
  BY Zenon DEF OwnerInv, DisjointInv
<1>5. TreesAgree'
  <2> SUFFICES ASSUME ~Purging', NEW g \in Files, \A q \in Procs : file'[q] # g
               PROVE  Matched(g)'
    BY Zenon DEF TreesAgree
  <2>1. Matched(g)
    BY Zenon DEF OwnerInv, TreesAgree
  <2>2. QED
    BY Zenon, <1>1, <2>1, MatchedFrame
<1>6. QED
  BY Zenon, <1>2, <1>3, <1>4, <1>5 DEF OwnerInv

(* A thread never purges. *)
LEMMA ThreadOps ==
  ASSUME TypeOK, NEW t \in Threads
  PROVE  op[t] # "purge" /\ t \in Procs /\ t # Unloader
BY Zenon, CacheAssumption DEF TypeOK, CallOps, Procs

(* A call for a file finds no other process at work on it: this is where   *)
(* the serialisation of the callers is used.                               *)
LEMMA CallAlone ==
  ASSUME Exclusive, TypeOK, RecordInv, OwnerInv, NEW t \in Threads, NEW f \in Files,
         Called(t, f)
  PROVE  /\ t \in Procs /\ t \in Owner[f] /\ f # NULL
         /\ pc[t] = "idle" /\ file[t] = NULL /\ op[t] = "none"
         /\ \A q \in Procs : file[q] # f /\ op[q] # "purge"
         /\ ~Purging /\ Matched(f) /\ ContentInv /\ fault = {}
<1>1. /\ t \in Procs /\ t \in Owner[f] /\ f # NULL /\ pc[t] = "idle"
      /\ pc[Unloader] = "idle" /\ Unloader \in Procs
  BY Zenon, CacheAssumption DEF Called, At, Procs
<1>2. /\ file[t] = NULL /\ op[t] = "none"
      /\ file[Unloader] = NULL /\ op[Unloader] = "none"
  BY Zenon, <1>1 DEF OwnerInv, OwnAt, Loops
<1>3. \A q \in Procs : op[q] # "purge"
  BY Zenon, <1>2, ThreadOps DEF Procs
<1>4. \A q \in Threads : file[q] = f => q = t
  BY Zenon, <1>1 DEF OwnerInv, DisjointInv, Exclusive
<1>5. \A q \in Procs : file[q] # f
  BY Zenon, <1>1, <1>2, <1>4 DEF Procs
<1>6. ~Purging
  BY Zenon, <1>1, <1>2 DEF Purging
<1>7. QED
  BY Zenon, <1>1, <1>2, <1>3, <1>5, <1>6 DEF OwnerInv, TreesAgree

(* insert_scan_cache_record up to its first lock. *)
LEMMA OwnCallInsert ==
  ASSUME Exclusive, TypeOK, TypeOK', RecordInv, OwnerInv, NEW t \in Threads,
         NEW f \in Files, NEW g \in Gens, CallInsert(t, f, g)
  PROVE  OwnerInv'
<1>1. /\ t \in Procs /\ t \in Owner[f] /\ f # NULL
      /\ pc[t] = "idle" /\ file[t] = NULL /\ op[t] = "none"
      /\ \A q \in Procs : file[q] # f /\ op[q] # "purge"
      /\ ~Purging /\ Matched(f) /\ ContentInv /\ fault = {}
  BY Zenon, CallAlone DEF CallInsert
<1>2. PICK s \in ScanIds \ scanLive, now \in Times :
         /\ scanLive' = scanLive \cup {s}
         /\ scanRec' = [scanRec EXCEPT ![s] = [file |-> f, gen |-> g, time |-> now]]
         /\ rec' = [rec EXCEPT ![t] = s]
  BY Zenon DEF CallInsert
<1>3. /\ pc' = [pc EXCEPT ![t] = "insert"] /\ op' = [op EXCEPT ![t] = "insert"]
      /\ file' = [file EXCEPT ![t] = f]
      /\ UNCHANGED <<scanTree, lruLive, lruRec, lruTree, old, lru, fault>>
  BY Zenon DEF CallInsert, Goto, lruVars
<1>4. scanRec' = [r \in ScanIds |->
                     IF r = s THEN [file |-> f, gen |-> g, time |-> now] ELSE scanRec[r]]
  BY Zenon, <1>2 DEF TypeOK
<1>5. s \notin scanTree /\ scanTree \subseteq ScanIds
  BY Zenon, <1>2 DEF RecordInv, ScanRecordInv, TypeOK
<1>6. scanRec[s].file = NULL
  <2>1. scanRec[s] = Blank
    BY Zenon, <1>1, <1>2 DEF ContentInv, TypeOK
  <2> QED
    BY Zenon, <2>1, BlankFile
<1>7. /\ [file |-> f, gen |-> g, time |-> now] \in Record
      /\ [file |-> f, gen |-> g, time |-> now].file = f
  BY Zenon DEF Record
<1>8. \A q \in Procs : q # t => LocalSame(q)
  BY Zenon, <1>2, <1>3 DEF LocalSame, TypeOK
<1>9. \A h \in Files : h # f => Same(h)
  BY Zenon, <1>3, <1>4, <1>6, CacheAssumption DEF Same, ScanSame, LruSame
<1>10. ContentInv'
  <2>1. /\ \A r \in ScanIds : scanRec[r] \in Record <=> r \in scanLive
        /\ \A r, w \in scanTree : scanRec[r].file = scanRec[w].file => r = w
    BY Zenon, <1>1 DEF ContentInv
  <2>2. \A r \in ScanIds : scanRec'[r] \in Record <=> r \in scanLive'
    BY Zenon, <1>2, <1>4, <1>7, <2>1
  <2>3. \A l \in LruIds : lruRec'[l] \in Record <=> l \in lruLive'
    BY Zenon, <1>1, <1>3 DEF ContentInv
  <2>4. scanTree' = scanTree /\ \A r \in scanTree : scanRec'[r] = scanRec[r]
    BY Zenon, <1>3, <1>4, <1>5
  <2>5. \A r \in scanTree' : r \in scanTree /\ scanRec'[r].file = scanRec[r].file
    BY Zenon, <2>4
  <2>6. \A r, w \in scanTree' : scanRec'[r].file = scanRec'[w].file => r = w
    BY Zenon, <2>1, <2>5
  <2> QED
    BY Zenon, <2>2, <2>3, <2>6 DEF ContentInv
<1>11. Matched(f)'
  BY Zenon, <1>1, <1>3, <1>4, <1>5 DEF Matched
<1>12. /\ pc'[t] = "insert" /\ op'[t] = "insert" /\ file'[t] = f /\ rec'[t] = s
       /\ s # NULL /\ scanRec'[s].file = f
  <2>1. s # NULL
    BY Zenon, <1>2, CacheAssumption
  <2>2. scanRec'[s] = [file |-> f, gen |-> g, time |-> now]
    BY Zenon, <1>2, <1>4
  <2>3. scanRec'[s].file = f
    BY Zenon, <1>7, <2>2
  <2> QED
    BY Zenon, <1>1, <1>2, <1>3, <2>1, <2>3 DEF TypeOK
<1>13. OwnAt(t)'
  BY Zenon, <1>1, <1>11, <1>12 DEF OwnAt, Replaced, Loops
<1>14. fault' = {} /\ (Purging => Purging')
  BY Zenon, <1>1, <1>3
<1>15. QED
  BY Zenon, <1>1, <1>8, <1>9, <1>10, <1>12, <1>13, <1>14, StepFrame

(* find_remove_scan_cache_record up to its first lock. *)
LEMMA OwnCallRemove ==
  ASSUME Exclusive, TypeOK, TypeOK', RecordInv, OwnerInv, NEW t \in Threads,
         NEW f \in Files, NEW g \in Gens, CallRemove(t, f, g)
  PROVE  OwnerInv'
<1>1. /\ t \in Procs /\ t \in Owner[f] /\ f # NULL
      /\ pc[t] = "idle" /\ file[t] = NULL /\ op[t] = "none"
      /\ \A q \in Procs : file[q] # f /\ op[q] # "purge"
      /\ ~Purging /\ Matched(f) /\ ContentInv /\ fault = {}
  BY Zenon, CallAlone DEF CallRemove
<1>2. /\ pc' = [pc EXCEPT ![t] = "find"] /\ op' = [op EXCEPT ![t] = "remove"]
      /\ file' = [file EXCEPT ![t] = f]
      /\ UNCHANGED <<scanVars, lruVars, rec, old, lru, fault>>
  BY Zenon DEF CallRemove, Goto, ptrs
<1>3. \A q \in Procs : q # t => LocalSame(q)
  BY Zenon, <1>2 DEF LocalSame, TypeOK
<1>4. (\A h : Same(h)) /\ ContentInv' /\ Matched(f)'
  BY Zenon, <1>1, <1>2, Quiet
<1>5. pc'[t] = "find" /\ op'[t] = "remove" /\ file'[t] = f
  BY Zenon, <1>1, <1>2 DEF TypeOK
<1>6. OwnAt(t)'
  BY Zenon, <1>1, <1>4, <1>5 DEF OwnAt, Replaced, Loops
<1>7. fault' = {} /\ (Purging => Purging')
  BY Zenon, <1>1, <1>2
<1>8. QED
  BY Zenon, <1>1, <1>3, <1>4, <1>5, <1>6, <1>7, StepFrame

(* A step that changes none of the variables the invariant is about. *)
LEMMA OwnStutter ==
  ASSUME TypeOK, TypeOK', RecordInv, OwnerInv,
         UNCHANGED <<scanVars, lruVars, pc, op, file, rec, old, lru, fault>>
  PROVE  OwnerInv'
<1>1. UNCHANGED <<scanLive, scanRec, scanTree, lruLive, lruRec, lruTree, pc, op, file,
                  rec, old, lru, fault>>
  BY Zenon DEF scanVars, lruVars
<1>2. \A p \in Procs : OwnAt(p)'
  <2> SUFFICES ASSUME NEW p \in Procs PROVE OwnAt(p)'
    OBVIOUS
  <2>1. OwnAt(p)
    BY Zenon DEF OwnerInv
  <2>2. QED
    <3>1. LocalSame(p)
      BY Zenon, <1>1 DEF LocalSame
    <3>2. \A g : Same(g)
      BY Zenon, Quiet
    <3>3. CASE op[p] # "purge"
      BY Zenon, <2>1, <3>1, <3>2, <3>3, OwnFrame
    <3>4. CASE op[p] = "purge"
      BY Zenon, <1>1, <2>1, <3>4 DEF OwnAt
    <3> QED
      BY Zenon, <3>3, <3>4
<1>3. ContentInv' /\ DisjointInv' /\ fault' = {}
  <2>1. ContentInv /\ DisjointInv /\ fault = {}
    BY Zenon DEF OwnerInv
  <2>2. ContentInv'
    BY Zenon, <1>1, <2>1 DEF ContentInv
  <2>3. DisjointInv'
    BY Zenon, <1>1, <2>1 DEF DisjointInv
  <2>4. fault' = {}
    BY <1>1, <2>1
  <2>5. QED
    BY Zenon, <2>2, <2>3, <2>4
<1>4. TreesAgree'
  <2>1. \A f : Matched(f)' = Matched(f)
    BY Zenon, <1>1 DEF Matched
  <2>2. TreesAgree /\ Purging' = Purging
    BY Zenon, <1>1 DEF OwnerInv, Purging
  <2>3. QED
    BY Zenon, <1>1, <2>1, <2>2 DEF TreesAgree
<1>5. QED
  BY Zenon, <1>2, <1>3, <1>4 DEF OwnerInv

(* exit_scan_cache starts. *)
LEMMA OwnUnload ==
  ASSUME TypeOK, TypeOK', RecordInv, OwnerInv, Unload
  PROVE  OwnerInv'
<1>1. Unloader \in Procs /\ pc[Unloader] = "idle"
  BY Zenon DEF Unload, At, Procs
<1>2. file[Unloader] = NULL /\ op[Unloader] = "none"
  BY Zenon, <1>1 DEF OwnerInv, OwnAt, Loops
<1>3. /\ pc' = [pc EXCEPT ![Unloader] = "evict"]
      /\ UNCHANGED <<scanVars, lruVars, op, file, rec, old, lru, fault>>
  BY Zenon DEF Unload, Goto, args, ptrs
<1>4. \A q \in Procs : q # Unloader => LocalSame(q) /\ op[q] # "purge"
  BY Zenon, <1>3, ThreadOps DEF LocalSame, TypeOK, Procs
<1>5. pc'[Unloader] = "evict" /\ file'[Unloader] = NULL /\ op'[Unloader] = "none"
  BY Zenon, <1>2, <1>3 DEF TypeOK, Procs
<1>6. OwnAt(Unloader)'
  BY Zenon, <1>5 DEF OwnAt, Replaced, Loops
<1>7. Purging => Purging'
  BY Zenon, <1>1, <1>2 DEF Purging
<1>8. QED
  BY Zenon, <1>1, <1>3, <1>4, <1>6, <1>7, RestFrame

(* remove_cache_entry takes the oldest LRU record and its scan record. *)
LEMMA OwnEvict ==
  ASSUME TypeOK, TypeOK', RecordInv, OwnerInv, Evict
  PROVE  OwnerInv'
<1>1. Unloader \in Procs /\ pc[Unloader] = "evict"
  BY Zenon DEF Evict, At, Procs
<1>2. file[Unloader] = NULL /\ op[Unloader] = "none" /\ ContentInv /\ fault = {}
  BY Zenon, <1>1 DEF OwnerInv, OwnAt, Loops
<1>3. \A q \in Procs : file[q] = NULL /\ op[q] # "purge"
  <2>1. \A t \in Threads : pc[t] = "idle"
    BY Zenon, <1>1 DEF RecordInv, UnloadInv
  <2>2. \A t \in Threads : file[t] = NULL
    BY Zenon, <2>1 DEF OwnerInv, OwnAt, Loops, Procs
  <2>3. QED
    BY Zenon, <1>2, <2>2, ThreadOps DEF Procs
<1>4. PICK l \in lruTree : \E s \in ScanMatches(lruRec[l].file, lruRec[l].gen) :
         /\ lru' = [lru EXCEPT ![Unloader] = l]
         /\ rec' = [rec EXCEPT ![Unloader] = s]
         /\ file' = [file EXCEPT ![Unloader] = lruRec[l].file]
  BY Zenon DEF Evict, LruFirst
<1>5. PICK f : f = lruRec[l].file
  OBVIOUS
<1>6. PICK s \in scanTree :
         /\ scanRec[s].file = f
         /\ lru' = [lru EXCEPT ![Unloader] = l]
         /\ rec' = [rec EXCEPT ![Unloader] = s]
         /\ file' = [file EXCEPT ![Unloader] = f]
  BY Zenon, <1>4, <1>5 DEF ScanMatches, ScanNodes
<1>7. /\ pc' = [pc EXCEPT ![Unloader] = "lru_remove"]
      /\ op' = [op EXCEPT ![Unloader] = "evict"]
      /\ UNCHANGED <<scanVars, lruVars, old, fault>>
  BY Zenon DEF Evict, Goto
<1>8. lruRec[l] \in Record
  BY Zenon, <1>2 DEF ContentInv, RecordInv, LruRecordInv, TypeOK
<1>9. f \in Files /\ f # NULL /\ l # NULL
  <2>1. lruRec[l].file \in Files
    BY Zenon, <1>8 DEF Record
  <2>2. l # NULL
    BY Zenon, <1>5, CacheAssumption DEF TypeOK
  <2>3. QED
    BY Zenon, <1>5, <2>1, <2>2, CacheAssumption
<1>10. ~Purging /\ Matched(f)
  BY Zenon, <1>1, <1>2, <1>3, <1>9 DEF Purging, OwnerInv, TreesAgree
<1>11. lruRec[l] = scanRec[s] /\ \A m \in lruTree : lruRec[m].file = f => m = l
  <2>1. \A r \in scanTree : scanRec[r].file = f => r = s
    BY Zenon, <1>2, <1>6 DEF ContentInv
  <2>2. \A m \in lruTree : lruRec[m].file = f => lruRec[m] = scanRec[s]
    BY Zenon, <1>10, <2>1 DEF Matched
  <2>3. QED
    BY Zenon, <1>5, <2>2 DEF RecordInv, LruRecordInv, LruTimesUnique
<1>12. \A q \in Procs : q # Unloader => LocalSame(q)
  BY Zenon, <1>6, <1>7 DEF LocalSame, TypeOK
<1>13. (\A h : Same(h)) /\ ContentInv' /\ fault' = {}
  BY Zenon, <1>2, <1>7, Quiet
<1>14. /\ pc'[Unloader] = "lru_remove" /\ op'[Unloader] = "evict"
       /\ file'[Unloader] = f /\ rec'[Unloader] = s /\ lru'[Unloader] = l
  BY Zenon, <1>1, <1>6, <1>7 DEF TypeOK
<1>15. OwnAt(Unloader)'
  <2>1. /\ s \in scanTree' /\ scanRec'[s].file = f /\ l \in lruTree' /\ lruRec'[l].file = f
        /\ \A m \in lruTree' : lruRec'[m].file = f => m = l
        /\ lruRec'[l] = scanRec'[s]
    BY Zenon, <1>5, <1>6, <1>7, <1>11 DEF scanVars, lruVars
  <2>2. TimeKey(Unloader)' = s
    BY Zenon, <1>14 DEF TimeKey
  <2> QED
    BY Zenon, <1>9, <1>14, <2>1, <2>2 DEF OwnAt, Replaced, Loops
<1>16. QED
  BY Zenon, <1>1, <1>2, <1>3, <1>9, <1>10, <1>12, <1>13, <1>14, <1>15, CacheAssumption,
     StepFrame

-----------------------------------------------------------------------------
(* While exit_scan_cache runs no thread is in a call, so once it purges    *)
(* only its own state and the slabs matter.                                *)
LEMMA PurgeFrame ==
  ASSUME TypeOK, TypeOK', RecordInv, OwnerInv, pc[Unloader] # "idle",
         \A t \in Threads : LocalSame(t),
         file'[Unloader] = NULL, fault' = fault,
         OwnAt(Unloader)', ContentInv', Purging'
  PROVE  OwnerInv'
<1>1. \A t \in Threads : pc[t] = "idle"
  BY Zenon DEF RecordInv, UnloadInv
<1>2. \A t \in Threads : file[t] = NULL /\ op[t] = "none"
  BY Zenon, <1>1 DEF OwnerInv, OwnAt, Loops, Procs
<1>3. \A t \in Threads : file'[t] = NULL /\ op'[t] = "none" /\ pc'[t] = "idle"
  BY Zenon, <1>1, <1>2 DEF LocalSame
<1>4. \A t \in Threads : OwnAt(t)'
  BY Zenon, <1>3 DEF OwnAt, Replaced, Loops
<1>5. DisjointInv'
  BY Zenon, <1>3 DEF DisjointInv, Procs
<1>6. TreesAgree' /\ fault' = {}
  BY Zenon DEF TreesAgree, OwnerInv
<1>7. QED
  BY Zenon, <1>4, <1>5, <1>6 DEF OwnerInv, Procs

(* The steps of exit_scan_cache between removals. *)
LEMMA OwnPurgeBegins ==
  ASSUME TypeOK, TypeOK', RecordInv, OwnerInv,
         EvictEnds \/ PurgeScan \/ PurgeScanEnds \/ PurgeLru \/ Destroy
  PROVE  OwnerInv'
<1>1. Unloader \in Procs /\ pc[Unloader] \in {"evict", "purge_scan", "purge_lru"}
  BY Zenon DEF EvictEnds, PurgeScan, PurgeScanEnds, PurgeLru, Destroy, At, Procs
<1>2. file[Unloader] = NULL /\ op[Unloader] = "none" /\ ContentInv
  BY Zenon, <1>1 DEF OwnerInv, OwnAt, Loops
<1>3. UNCHANGED <<scanVars, lruVars, file, old, fault>>
  BY Zenon DEF EvictEnds, PurgeScan, PurgeScanEnds, PurgeLru, Destroy, args, ptrs
<1>4. ContentInv' /\ file'[Unloader] = NULL
  BY Zenon, <1>2, <1>3, Quiet
<1>5. CASE EvictEnds \/ PurgeScanEnds \/ Destroy
  <2>1. PICK label \in {"purge_scan", "purge_lru", "dead"} :
           pc' = [pc EXCEPT ![Unloader] = label] /\ UNCHANGED <<op, rec, lru>>
    BY Zenon, <1>5 DEF EvictEnds, PurgeScanEnds, Destroy, Goto, args, ptrs
  <2>2. \A t \in Threads : LocalSame(t)
    BY Zenon, <1>3, <2>1, ThreadOps DEF LocalSame, TypeOK
  <2>3. pc'[Unloader] \in {"purge_scan", "purge_lru", "dead"} /\ op'[Unloader] = "none"
    BY Zenon, <1>1, <1>2, <2>1 DEF TypeOK
  <2>4. OwnAt(Unloader)' /\ Purging'
    BY Zenon, <1>4, <2>3 DEF OwnAt, Replaced, Loops, Purging
  <2>5. QED
    BY Zenon, <1>1, <1>3, <1>4, <2>2, <2>4, PurgeFrame
<1>6. CASE PurgeScan
  <2>1. PICK s \in scanTree : rec' = [rec EXCEPT ![Unloader] = s]
    BY Zenon, <1>6 DEF PurgeScan, ScanFirst
  <2>2. /\ pc' = [pc EXCEPT ![Unloader] = "scan_remove"]
        /\ op' = [op EXCEPT ![Unloader] = "purge"] /\ lru' = lru
    BY Zenon, <1>6 DEF PurgeScan, Goto
  <2>3. \A t \in Threads : LocalSame(t)
    BY Zenon, <1>3, <2>1, <2>2, ThreadOps DEF LocalSame, TypeOK
  <2>4. /\ pc'[Unloader] = "scan_remove" /\ op'[Unloader] = "purge"
        /\ rec'[Unloader] \in scanTree' /\ rec'[Unloader] # NULL
    <3>1. s # NULL
      BY Zenon, CacheAssumption DEF TypeOK
    <3> QED
      BY Zenon, <1>1, <1>3, <2>1, <2>2, <3>1 DEF TypeOK, scanVars
  <2>5. OwnAt(Unloader)' /\ Purging'
    BY Zenon, <1>4, <2>4 DEF OwnAt, Replaced, Loops, Purging
  <2>6. QED
    BY Zenon, <1>1, <1>3, <1>4, <2>3, <2>5, PurgeFrame
<1>7. CASE PurgeLru
  <2>1. PICK l \in lruTree : lru' = [lru EXCEPT ![Unloader] = l]
    BY Zenon, <1>7 DEF PurgeLru, LruFirst
  <2>2. /\ pc' = [pc EXCEPT ![Unloader] = "lru_remove"]
        /\ op' = [op EXCEPT ![Unloader] = "purge"] /\ rec' = rec
    BY Zenon, <1>7 DEF PurgeLru, Goto
  <2>3. \A t \in Threads : LocalSame(t)
    BY Zenon, <1>3, <2>1, <2>2, ThreadOps DEF LocalSame, TypeOK
  <2>4. /\ pc'[Unloader] = "lru_remove" /\ op'[Unloader] = "purge"
        /\ lru'[Unloader] \in lruTree' /\ lru'[Unloader] # NULL
    <3>1. l # NULL
      BY Zenon, CacheAssumption DEF TypeOK
    <3> QED
      BY Zenon, <1>1, <1>3, <2>1, <2>2, <3>1 DEF TypeOK, lruVars
  <2>5. OwnAt(Unloader)' /\ Purging'
    BY Zenon, <1>4, <2>4 DEF OwnAt, Replaced, Loops, Purging
  <2>6. QED
    BY Zenon, <1>1, <1>3, <1>4, <2>3, <2>5, PurgeFrame
<1>8. QED
  BY Zenon, <1>5, <1>6, <1>7

(* remove_scan_cache_record and remove_lru_cache_record called by a purge. *)
LEMMA OwnPurges ==
  ASSUME TypeOK, TypeOK', RecordInv, OwnerInv, op[Unloader] = "purge",
         Removal(Unloader)
  PROVE  OwnerInv'
<1>0. Unloader \in Procs /\ Blank \notin Record
  BY Zenon, CacheAssumption DEF Procs, Blank, Record
<1>1. pc[Unloader] \in RemovalLabels
  BY Zenon DEF Removal, LruRemove, LruFree, ScanRemove, ScanFree, At, RemovalLabels
<1>2. /\ file[Unloader] = NULL /\ ContentInv /\ pc[Unloader] # "idle"
      /\ pc[Unloader] \in {"lru_remove", "lru_free"} => lru[Unloader] \in LruIds
      /\ pc[Unloader] \in {"scan_remove", "scan_free"} => rec[Unloader] \in ScanIds
  <2>1. OwnAt(Unloader) /\ ContentInv
    BY Zenon, <1>0 DEF OwnerInv
  <2>2. /\ file[Unloader] = NULL
        /\ pc[Unloader] \in {"lru_remove", "lru_free"} => lru[Unloader] # NULL
        /\ pc[Unloader] \in {"scan_remove", "scan_free"} => rec[Unloader] # NULL
    BY Zenon, <2>1 DEF OwnAt
  <2>3. lru[Unloader] \in LruIds \cup {NULL} /\ rec[Unloader] \in ScanIds \cup {NULL}
    BY Zenon, <1>0 DEF TypeOK
  <2>4. pc[Unloader] # "idle"
    BY Zenon, <1>1 DEF RemovalLabels
  <2> QED
    BY Zenon, <2>1, <2>2, <2>3, <2>4
<1>3. CASE LruRemove(Unloader)
  <2>1. /\ pc' = [pc EXCEPT ![Unloader] = "lru_free"]
        /\ lruTree' = lruTree \ {lru[Unloader]}
        /\ UNCHANGED <<scanLive, scanRec, scanTree, lruLive, lruRec, op, file, rec,
                       old, lru, fault>>
    BY Zenon, <1>3 DEF LruRemove, Goto, args, ptrs, scanVars
  <2>2. \A t \in Threads : LocalSame(t)
    BY Zenon, <2>1, ThreadOps DEF LocalSame, TypeOK
  <2>3. ContentInv'
    BY Zenon, <1>2, <2>1 DEF ContentInv
  <2>4. /\ pc'[Unloader] = "lru_free" /\ op'[Unloader] = "purge"
        /\ file'[Unloader] = NULL /\ lru'[Unloader] # NULL
    <3>1. pc[Unloader] = "lru_remove"
      BY Zenon, <1>3 DEF LruRemove, At
    <3>2. QED
      BY Zenon, <1>0, <1>2, <2>1, <3>1, CacheAssumption DEF TypeOK
  <2>5. OwnAt(Unloader)' /\ Purging'
    BY Zenon, <2>4 DEF OwnAt, Replaced, Loops, Purging
  <2>6. QED
    BY Zenon, <1>2, <2>1, <2>2, <2>3, <2>4, <2>5, PurgeFrame
<1>4. CASE ScanRemove(Unloader)
  <2>1. /\ pc' = [pc EXCEPT ![Unloader] = "scan_free"]
        /\ scanTree' = scanTree \ {rec[Unloader]}
        /\ UNCHANGED <<scanLive, scanRec, lruLive, lruRec, lruTree, op, file, rec,
                       old, lru, fault>>
    BY Zenon, <1>4 DEF ScanRemove, Goto, args, ptrs, lruVars
  <2>2. \A t \in Threads : LocalSame(t)
    BY Zenon, <2>1, ThreadOps DEF LocalSame, TypeOK
  <2>3. ContentInv'
    BY Zenon, <1>2, <2>1 DEF ContentInv
  <2>4. /\ pc'[Unloader] = "scan_free" /\ op'[Unloader] = "purge"
        /\ file'[Unloader] = NULL /\ rec'[Unloader] # NULL
    <3>1. pc[Unloader] = "scan_remove"
      BY Zenon, <1>4 DEF ScanRemove, At
    <3>2. QED
      BY Zenon, <1>0, <1>2, <2>1, <3>1, CacheAssumption DEF TypeOK
  <2>5. OwnAt(Unloader)' /\ Purging'
    BY Zenon, <2>4 DEF OwnAt, Replaced, Loops, Purging
  <2>6. QED
    BY Zenon, <1>2, <2>1, <2>2, <2>3, <2>4, <2>5, PurgeFrame
<1>5. CASE LruFree(Unloader)
  <2>1. lru[Unloader] \in LruIds
    BY Zenon, <1>2, <1>5 DEF LruFree, At
  <2>2. /\ lruLive' = lruLive \ {lru[Unloader]}
        /\ lruRec' = [l \in LruIds |-> IF l = lru[Unloader] THEN Blank ELSE lruRec[l]]
        /\ UNCHANGED <<scanLive, scanRec, scanTree, lruTree, fault>>
        /\ Leave(Unloader, "purge_lru")
    BY Zenon, <1>5 DEF LruFree, scanVars, TypeOK
  <2>3. ContentInv'
    BY Zenon, <1>0, <1>2, <2>1, <2>2 DEF ContentInv
  <2>4. /\ \A t \in Threads : LocalSame(t)
        /\ pc'[Unloader] = "purge_lru" /\ file'[Unloader] = NULL /\ OwnAt(Unloader)'
    BY Zenon, <1>0, <2>2, OwnLeave, ThreadOps DEF Loops
  <2>5. Purging'
    BY Zenon, <2>4 DEF Purging
  <2>6. QED
    BY Zenon, <1>2, <2>2, <2>3, <2>4, <2>5, PurgeFrame
<1>6. CASE ScanFree(Unloader)
  <2>1. rec[Unloader] \in ScanIds /\ rec[Unloader] \notin scanTree
    <3>1. pc[Unloader] = "scan_free"
      BY Zenon, <1>6 DEF ScanFree, At
    <3>2. QED
      BY Zenon, <1>0, <1>2, <3>1 DEF RecordInv, ScanRecordInv, ScanClaim
  <2>2. /\ scanLive' = scanLive \ {rec[Unloader]}
        /\ scanRec' = [s \in ScanIds |-> IF s = rec[Unloader] THEN Blank ELSE scanRec[s]]
        /\ UNCHANGED <<scanTree, lruLive, lruRec, lruTree, fault>>
        /\ Leave(Unloader, "purge_scan")
    BY Zenon, <1>6 DEF ScanFree, FreeScan, lruVars, TypeOK
  <2>3. ContentInv'
    <3>1. \A s \in ScanIds : scanRec'[s] \in Record <=> s \in scanLive'
      BY Zenon, <1>0, <1>2, <2>1, <2>2 DEF ContentInv
    <3>2. \A l \in LruIds : lruRec'[l] \in Record <=> l \in lruLive'
      BY Zenon, <1>2, <2>2 DEF ContentInv
    <3>3. \A s \in scanTree : s \in ScanIds /\ s # rec[Unloader]
      BY Zenon, <2>1 DEF TypeOK
    <3>4. \A s \in scanTree : scanRec'[s] = scanRec[s]
      BY Zenon, <2>2, <3>3
    <3>5. \A s, r \in scanTree' : scanRec'[s].file = scanRec'[r].file => s = r
      <4>1. \A s, r \in scanTree : scanRec[s].file = scanRec[r].file => s = r
        BY Zenon, <1>2 DEF ContentInv
      <4>2. scanTree' = scanTree
        BY Zenon, <2>2
      <4> QED
        BY <3>4, <4>1, <4>2
    <3> QED
      BY Zenon, <3>1, <3>2, <3>5 DEF ContentInv
  <2>4. /\ \A t \in Threads : LocalSame(t)
        /\ pc'[Unloader] = "purge_scan" /\ file'[Unloader] = NULL /\ OwnAt(Unloader)'
    BY Zenon, <1>0, <2>2, OwnLeave, ThreadOps DEF Loops
  <2>5. Purging'
    BY Zenon, <2>4 DEF Purging
  <2>6. QED
    BY Zenon, <1>2, <2>2, <2>3, <2>4, <2>5, PurgeFrame
<1>7. QED
  BY Zenon, <1>3, <1>4, <1>5, <1>6 DEF Removal

-----------------------------------------------------------------------------
(* Steps of calls. *)
LEMMA OwnerCallStep ==
  ASSUME TypeOK, TypeOK', RecordInv, OwnerInv, NEW t \in Threads, Step(t)
  PROVE  OwnerInv'
<1>1. t \in Procs /\ op[t] # "purge" /\ pc[t] \notin Loops
  BY Zenon, ThreadOps DEF Step, Insert, InsertDuplicate, FindOld, FindOldFails, Replace,
     FreeOld, Find, FindFails, LruFind, LruFindFails, LruAlloc, LruAllocFails,
     LruInsert, LruInsertDuplicate, At, Loops
<1>2. PICK f : f = file[t]
  OBVIOUS
<1>3. Works(t, f)
  BY Zenon, <1>1, <1>2 DEF Works
<1>4. QED
  BY Zenon, <1>1, <1>3, OwnInsert, OwnInsertDuplicate, OwnFindOld, OwnFindOldFails,
     OwnReplace, OwnFreeOld, OwnFind, OwnFindFails, OwnLruFind, OwnLruFindFails,
     OwnLruAlloc, OwnLruAllocFails, OwnLruInsert DEF Step

(* Unlinking and freeing, by a call, an eviction or a purge. *)
LEMMA OwnerRemoval ==
  ASSUME TypeOK, TypeOK', RecordInv, OwnerInv, NEW p \in Procs, Removal(p)
  PROVE  OwnerInv'
<1>1. CASE op[p] = "purge"
  BY Zenon, <1>1, OwnPurges, ThreadOps DEF Procs
<1>2. CASE op[p] # "purge"
  <2>1. pc[p] \notin Loops
    BY Zenon DEF Removal, LruRemove, LruFree, ScanRemove, ScanFree, At, Loops
  <2>2. PICK f : f = file[p]
    OBVIOUS
  <2>3. Works(p, f)
    BY Zenon, <1>2, <2>1, <2>2 DEF Works
  <2>4. QED
    BY Zenon, <2>3, OwnLruRemove, OwnLruFree, OwnScanRemove, OwnScanFree DEF Removal
<1>3. QED
  BY Zenon, <1>1, <1>2

(* The invariant of serialised callers is inductive, given that of the     *)
(* records.                                                                *)
LEMMA OwnerStep ==
  ASSUME Exclusive, TypeOK, TypeOK', RecordInv, OwnerInv, [Next]_vars
  PROVE  OwnerInv'
<1>1. ASSUME NEW t \in Threads, Call(t) PROVE OwnerInv'
  <2>1. ASSUME NEW f \in Files, CallInsertNoMem(t, f) PROVE OwnerInv'
    <3>1. UNCHANGED <<scanVars, lruVars, pc, op, file, rec, old, lru, fault>>
      BY Zenon, <2>1 DEF CallInsertNoMem, args, ptrs
    <3>2. QED
      BY Zenon, <3>1, OwnStutter
  <2>2. QED
    BY Zenon, <1>1, <2>1, OwnCallInsert, OwnCallRemove DEF Call
<1>2. ASSUME NEW p \in Procs, Wild(p) PROVE OwnerInv'
  BY Zenon, <1>2, NotWild
<1>3. CASE UnloadStep
  BY Zenon, <1>3, OwnEvict, OwnPurgeBegins DEF UnloadStep
<1>4. CASE UNCHANGED vars
  <2>1. UNCHANGED <<scanVars, lruVars, pc, op, file, rec, old, lru, fault>>
    BY Zenon, <1>4 DEF vars, scanVars, lruVars
  <2>2. QED
    BY Zenon, <2>1, OwnStutter
<1>5. QED
  BY Zenon, <1>1, <1>2, <1>3, <1>4, OwnerCallStep, OwnerRemoval, OwnUnload
     DEF Next, Halted, Wild

(* An empty cache satisfies it. *)
LEMMA OwnerInit ==
  ASSUME Init
  PROVE  OwnerInv
<1>1. \A p \in Procs : OwnAt(p)
  BY Zenon DEF Init, OwnAt, Loops, Replaced
<1>2. ContentInv
  <2>1. Blank \notin Record
    BY Zenon, CacheAssumption DEF Blank, Record
  <2>2. QED
    BY Zenon, <2>1 DEF Init, ContentInv
<1>3. DisjointInv
  BY Zenon DEF Init, DisjointInv, Procs
<1>4. TreesAgree
  BY Zenon DEF Init, TreesAgree, Matched
<1>5. QED
  BY Zenon, <1>1, <1>2, <1>3, <1>4 DEF OwnerInv, Init

(* Serialised callers keep the invariant for any number of threads, files, *)
(* records and time stamps, equal ones included.                           *)
THEOREM OwnerInvariant ==
  ASSUME Exclusive
  PROVE  Spec => []OwnerInv
<1>1. TypeOK /\ TypeOK' /\ RecordsSound /\ OwnerInv /\ [Next]_vars => OwnerInv'
  BY Zenon, OwnerStep DEF RecordsSound, OwnerInv
<1>2. QED
  BY <1>1, OwnerInit, RecordInvariant, PTL DEF Spec

(* When callers are serialised file by file, no critical section of        *)
(* cache.c uses a record freed or unlinked since its pointer was read.     *)
THEOREM SerialisedCallersAreSafe ==
  ASSUME Exclusive
  PROVE  Spec => []NoFault
<1>1. OwnerInv => NoFault
  BY Zenon DEF OwnerInv, NoFault
<1>2. QED
  BY <1>1, OwnerInvariant, PTL

(* When callers are serialised file by file, the scan tree and the LRU     *)
(* tree hold the same records, but for the files that are being worked on. *)
THEOREM SerialisedTreesAgree ==
  ASSUME Exclusive
  PROVE  Spec => []TreesAgree
<1>1. OwnerInv => TreesAgree
  BY Zenon DEF OwnerInv
<1>2. QED
  BY <1>1, OwnerInvariant, PTL

(* When callers are serialised file by file, the LRU record that is taken  *)
(* out with a scan record is its own: the search by the old time stamp     *)
(* never meets the record of another file.                                 *)
THEOREM SerialisedRemovalsMatch ==
  ASSUME Exclusive
  PROVE  Spec => []RemovedTogether
<1>1. OwnerInv => RemovedTogether
  BY Zenon DEF OwnerInv, OwnAt, Loops, RemovedTogether
<1>2. QED
  BY <1>1, OwnerInvariant, PTL

-----------------------------------------------------------------------------
(* What the callers of ScanCache see when they are serialised file by      *)
(* file: what a call returns is true, eviction takes the oldest record,    *)
(* and with a strict clock no LRU record is lost.                          *)
(*                                                                         *)
(* CallInv, the invariant established above, is given.  Each result adds   *)
(* an invariant of its own to it: ResultInv what a call in progress knows  *)
(* of its result, EvictInv that the chosen record stays the oldest until   *)
(* it is unlinked, TimeInv that nobody has the time stamp an LRU record is *)
(* still to be linked with, LruKept that no LRU record is dropped.         *)


\* Process p is on the way to link an LRU record for the scan record rec[p].
Pending(p) ==
    \/ pc[p] \in {"insert", "find_old", "replace", "lru_alloc", "lru_insert"}
    \/ op[p] = "update" /\ pc[p] \in {"lru_find", "lru_remove", "lru_free"}

\* What a call knows of its result.
KnowsAt(t) ==
    /\ Pending(t) => scanRec[rec[t]].gen = gen[t]
    /\ op[t] = "update" /\ pc[t] \in {"scan_remove", "scan_free"} => ret[t] # "ok"
    /\ pc[t] = "free_old" =>
          IF ret[t] = "ok"
          THEN \E s \in scanTree : scanRec[s].file = file[t] /\ scanRec[s].gen = gen[t]
          ELSE NoScan(file[t])
ResultInv == \A t \in Threads : KnowsAt(t)

\* The record remove_cache_entry is about to unlink is the oldest.
EvictInv ==
    op[Unloader] = "evict" /\ pc[Unloader] \in {"lru_remove", "lru_free", "scan_remove"} =>
       \A r \in scanTree : r # rec[Unloader] => scanRec[rec[Unloader]].time < scanRec[r].time

\* With a strict clock no LRU record has the time stamp of a record that is
\* still to get one.
TimeInv ==
    /\ \A s \in scanLive : scanRec[s].time <= clock
    /\ \A l \in lruLive : lruRec[l].time <= clock
    /\ \A s, r \in scanLive : scanRec[s].time = scanRec[r].time => s = r
    /\ \A t \in Threads : Pending(t) => \A l \in lruLive :
          lruRec[l].time = scanRec[rec[t]].time => l = lru[t] /\ pc[t] = "lru_insert"

\* So every LRU record is linked or claimed.
LruKept ==
    /\ \A l \in lruLive : l \in lruTree \/ \E p \in Procs : LruClaim(p, l)
    /\ pc[Unloader] = "dead" => lruTree = {}

\* What the invariants of the records and of serialised callers say together.
CallInv == TypeOK /\ RecordInv /\ OwnerInv

(* A step of p leaves the generation and the result of the others alone. *)
LEMMA LocalRest ==
  ASSUME TypeOK, NEW p \in Procs, NEW q \in Procs, q # p,
         \/ p \in Threads /\ (Call(p) \/ Step(p))
         \/ Removal(p)
         \/ p = Unloader /\ (Unload \/ UnloadStep)
  PROVE  gen'[q] = gen[q] /\ ret'[q] = ret[q]
<1>1. /\ \A x : gen' = [gen EXCEPT ![p] = x] => gen'[q] = gen[q]
      /\ \A x : ret' = [ret EXCEPT ![p] = x] => ret'[q] = ret[q]
  BY Zenon DEF TypeOK
<1> USE DEF args, Return, Leave
<1>2. CASE p \in Threads /\ Call(p)
  BY Zenon, <1>1, <1>2 DEF Call, CallInsertNoMem, CallInsert, CallRemove
<1>3. CASE Insert(p) \/ InsertDuplicate(p) \/ FindOld(p) \/ FindOldFails(p)
  BY Zenon, <1>1, <1>3 DEF Insert, InsertDuplicate, FindOld, FindOldFails
<1>4. CASE Replace(p) \/ FreeOld(p) \/ Find(p) \/ FindFails(p)
  BY Zenon, <1>1, <1>4 DEF Replace, FreeOld, Find, FindFails
<1>5. CASE LruFind(p) \/ LruFindFails(p) \/ LruAlloc(p) \/ LruAllocFails(p)
  BY Zenon, <1>1, <1>5 DEF LruFind, LruFindFails, LruAlloc, LruAllocFails
<1>6. CASE LruInsert(p) \/ LruInsertDuplicate(p)
  BY Zenon, <1>1, <1>6 DEF LruInsert, LruInsertDuplicate
<1>7. CASE LruRemove(p) \/ LruFree(p)
  BY Zenon, <1>1, <1>7 DEF LruRemove, LruFree
<1>8. CASE ScanRemove(p) \/ ScanFree(p)
  BY Zenon, <1>1, <1>8 DEF ScanRemove, ScanFree
<1>10. CASE p = Unloader /\ (Unload \/ UnloadStep)
  <2>1. CASE Unload \/ EvictEnds \/ PurgeScanEnds \/ Destroy
    BY Zenon, <2>1 DEF Unload, EvictEnds, PurgeScanEnds, Destroy
  <2>2. CASE Evict \/ PurgeScan \/ PurgeLru
    BY Zenon, <1>1, <1>10, <2>2 DEF Evict, PurgeScan, PurgeLru
  <2>3. QED
    BY Zenon, <1>10, <2>1, <2>2 DEF UnloadStep
<1>11. QED
  BY Zenon, <1>2, <1>3, <1>4, <1>5, <1>6, <1>7, <1>8, <1>10 DEF Step, Removal

\* A pending call has an allocated record of the file it works on.
PendingGood ==
    \A t \in Threads : Pending(t) =>
       /\ rec[t] \in scanLive /\ scanRec[rec[t]].file = file[t] /\ file[t] # NULL
       /\ \A u \in Threads : u # t => file[u] # file[t]

(* It follows from what a call knows. *)
LEMMA PendingFacts == CallInv => PendingGood
<1> SUFFICES ASSUME CallInv, NEW t \in Threads, Pending(t)
             PROVE  /\ rec[t] \in scanLive /\ scanRec[rec[t]].file = file[t] /\ file[t] # NULL
                    /\ \A u \in Threads : u # t => file[u] # file[t]
  BY Zenon DEF PendingGood
<1>1. t \in Procs /\ op[t] # "purge"
  BY Zenon DEF Procs, CallInv, TypeOK, CallOps
<1>2. OwnAt(t) /\ OpAt(t) /\ PointersGood(t)
  BY Zenon, <1>1, GoodPointers DEF CallInv, OwnerInv, RecordInv
<1>3. pc[t] \notin Loops
  BY Zenon DEF Pending, Loops
<1>4. file[t] # NULL
  BY Zenon, <1>1, <1>2, <1>3 DEF OwnAt
<1>5. scanRec[rec[t]].file = file[t]
  BY Zenon, <1>2, <1>4 DEF OwnAt, OpAt, Pending, Replaced
<1>6. rec[t] \in scanLive
  <2>1. pc[t] \in {"insert", "find_old", "replace", "lru_alloc"} => rec[t] \in scanLive
    BY Zenon, <1>2 DEF PointersGood
  <2>2. pc[t] \in {"lru_find", "lru_remove", "lru_free", "lru_insert"} => rec[t] \in scanTree
    BY Zenon, <1>2, <1>4 DEF OwnAt, Replaced
  <2>3. QED
    BY Zenon, <2>1, <2>2 DEF Pending, CallInv, RecordInv, ScanRecordInv
<1>7. \A u \in Threads : u # t => file[u] # file[t]
  BY Zenon, <1>1, <1>4 DEF CallInv, OwnerInv, DisjointInv, Procs
<1>8. QED
  BY Zenon, <1>4, <1>5, <1>6, <1>7

\* A step of p that allocates nothing.
Frugal(p) ==
    \/ p \in Threads /\ \E f \in Files : CallInsertNoMem(p, f) \/ \E g \in Gens : CallRemove(p, f, g)
    \/ p \in Threads /\ Step(p) /\ ~LruAlloc(p)
    \/ Removal(p)
    \/ p = Unloader /\ (Unload \/ UnloadStep)

(* Such a step leaves the clock alone, and the records it does not free. *)
LEMMA FrugalMemory ==
  ASSUME TypeOK, NEW p \in Procs, Frugal(p)
  PROVE  /\ clock' = clock
         /\ scanLive' \subseteq scanLive /\ \A s \in scanLive' : scanRec'[s] = scanRec[s]
         /\ lruLive' \subseteq lruLive /\ \A l \in lruLive' : lruRec'[l] = lruRec[l]
<1> USE DEF scanVars, lruVars
<1>0. scanLive \subseteq ScanIds /\ lruLive \subseteq LruIds
  BY Zenon DEF TypeOK
<1>1. ASSUME NEW r, FreeScan(r)
      PROVE  scanLive' \subseteq scanLive /\ \A s \in scanLive' : scanRec'[s] = scanRec[s]
  BY Zenon, <1>0, <1>1 DEF FreeScan, TypeOK
<1>2. CASE LruFree(p)
  <2>1. /\ UNCHANGED <<clock, scanLive, scanRec>> /\ lruLive' = lruLive \ {lru[p]}
        /\ lruRec' = [lruRec EXCEPT ![lru[p]] = Blank]
    BY Zenon, <1>2 DEF LruFree
  <2>2. QED
    BY Zenon, <1>0, <2>1 DEF TypeOK
<1>3. CASE \/ FreeOld(p) \/ FindOldFails(p) \/ ScanFree(p)
  BY Zenon, <1>1, <1>3 DEF FreeOld, FindOldFails, ScanFree
<1>4. CASE p \in Threads /\ \E f \in Files : CallInsertNoMem(p, f) \/ \E g \in Gens : CallRemove(p, f, g)
  BY Zenon, <1>4 DEF CallInsertNoMem, CallRemove
<1>5. CASE Insert(p) \/ InsertDuplicate(p) \/ FindOld(p) \/ Replace(p) \/ Find(p) \/ FindFails(p)
  BY Zenon, <1>5 DEF Insert, InsertDuplicate, FindOld, Replace, Find, FindFails
<1>6. CASE LruFind(p) \/ LruFindFails(p) \/ LruAllocFails(p) \/ LruInsert(p) \/ LruInsertDuplicate(p)
  BY Zenon, <1>6 DEF LruFind, LruFindFails, LruAllocFails, LruInsert, LruInsertDuplicate
<1>7. CASE LruRemove(p) \/ ScanRemove(p)
  BY Zenon, <1>7 DEF LruRemove, ScanRemove
<1>8. CASE Unload \/ UnloadStep
  BY Zenon, <1>8 DEF Unload, UnloadStep, Evict, EvictEnds, PurgeScan, PurgeScanEnds, PurgeLru,
     Destroy
<1>9. QED
  BY Zenon, <1>2, <1>3, <1>4, <1>5, <1>6, <1>7, <1>8 DEF Frugal, Step, Removal

(* A process that is pending after it was pending before, for the same     *)
(* record, and had not allocated its LRU record.                           *)
LEMMA FrugalPending ==
  ASSUME CallInv, NEW p \in Procs, Frugal(p), Pending(p)'
  PROVE  Pending(p) /\ rec'[p] = rec[p] /\ gen'[p] = gen[p] /\ pc[p] # "lru_insert"
<1> USE DEF args, ptrs
<1>1. TypeOK /\ OpAt(p) /\ OwnAt(p)
  BY Zenon DEF CallInv, RecordInv, OwnerInv
<1>2. \A b : (Goto(p, b) \/ Leave(p, b)) => pc'[p] = b
  BY Zenon, <1>1, GotoFrame, LeaveFrame, TypeParts
<1>3. /\ \A x : op' = [op EXCEPT ![p] = x] => op'[p] = x
      /\ \A x : pc'[p] = x /\ Pending(p)' => x \notin {"idle", "evict", "purge_scan", "purge_lru",
              "dead", "find", "free_old", "scan_remove", "scan_free"}
  BY Zenon, <1>1 DEF TypeOK, Pending
<1>4. CASE p \in Threads /\ \E f \in Files : CallInsertNoMem(p, f) \/ \E g \in Gens : CallRemove(p, f, g)
  BY Zenon, <1>2, <1>3, <1>4 DEF CallInsertNoMem, CallRemove, Called, At
<1>5. CASE Insert(p) \/ InsertDuplicate(p) \/ FindOld(p)
  BY Zenon, <1>5 DEF Insert, InsertDuplicate, FindOld, At, Pending
<1>6. CASE FindOldFails(p) \/ FreeOld(p) \/ FindFails(p)
  BY Zenon, <1>2, <1>3, <1>6 DEF FindOldFails, FreeOld, FindFails, Return
<1>7. CASE Replace(p)
  BY Zenon, <1>7 DEF Replace, At, Pending
<1>8. CASE Find(p)
  <2>1. pc'[p] = "lru_find" /\ op'[p] = "remove"
    BY Zenon, <1>1, <1>2, <1>8 DEF Find, At, OpAt
  <2>2. QED
    BY Zenon, <2>1 DEF Pending
<1>9. CASE LruFind(p)
  <2>1. pc'[p] = "lru_remove" /\ UNCHANGED <<op, rec, gen>> /\ pc[p] = "lru_find"
    BY Zenon, <1>2, <1>9 DEF LruFind, At
  <2>2. QED
    BY Zenon, <2>1 DEF Pending
<1>10. CASE LruFindFails(p) \/ LruAllocFails(p) \/ LruInsertDuplicate(p)
  BY Zenon, <1>2, <1>3, <1>10 DEF LruFindFails, LruAllocFails, LruInsertDuplicate
<1>11. CASE LruInsert(p)
  BY Zenon, <1>2, <1>3, <1>11 DEF LruInsert, Return
<1>12. CASE LruRemove(p)
  <2>1. pc'[p] = "lru_free" /\ UNCHANGED <<op, rec, gen>> /\ pc[p] = "lru_remove"
    BY Zenon, <1>2, <1>12 DEF LruRemove, At
  <2>2. QED
    BY Zenon, <2>1 DEF Pending
<1>13. CASE LruFree(p)
  BY Zenon, <1>2, <1>3, <1>13 DEF LruFree, At, Pending
<1>14. CASE ScanRemove(p) \/ ScanFree(p)
  BY Zenon, <1>2, <1>3, <1>14 DEF ScanRemove, ScanFree, Return
<1>15. CASE p = Unloader /\ (Unload \/ EvictEnds \/ PurgeScanEnds \/ Destroy)
  BY Zenon, <1>2, <1>3, <1>15 DEF Unload, EvictEnds, PurgeScanEnds, Destroy
<1>16. CASE p = Unloader /\ (Evict \/ PurgeLru \/ PurgeScan)
  <2>1. pc'[p] \in {"lru_remove", "scan_remove"} /\ op'[p] \in {"evict", "purge"}
    BY Zenon, <1>2, <1>3, <1>16 DEF Evict, PurgeLru, PurgeScan
  <2>2. QED
    BY Zenon, <2>1 DEF Pending
<1>17. QED
  BY Zenon, <1>4, <1>5, <1>6, <1>7, <1>8, <1>9, <1>10, <1>11, <1>12, <1>13, <1>14, <1>15,
     <1>16 DEF Frugal, Step, Removal, UnloadStep

\* A step that allocates a scan record, and one that allocates an LRU record.
Inserts(t) == \E f \in Files, g \in Gens : CallInsert(t, f, g)

(* Under the invariants every step is of one of the three kinds. *)
LEMMA StepKinds ==
  ASSUME CallInv, [Next]_vars
  PROVE  \/ UNCHANGED vars
         \/ \E p \in Procs : Frugal(p)
         \/ \E t \in Threads : Inserts(t) \/ LruAlloc(t)
<1>1. ASSUME NEW p \in Procs, Wild(p) PROVE FALSE
  BY Zenon, <1>1, NotWild DEF CallInv
<1>2. Unloader \in Procs /\ \A t \in Threads : t \in Procs
  BY Zenon DEF Procs
<1>3. ASSUME NEW t \in Threads, Call(t) \/ Step(t)
      PROVE  (\E p \in Procs : Frugal(p)) \/ Inserts(t) \/ LruAlloc(t)
  BY Zenon, <1>2, <1>3 DEF Frugal, Call, Inserts
<1>4. ASSUME NEW p \in Procs, Removal(p) PROVE Frugal(p)
  BY Zenon, <1>4 DEF Frugal
<1>5. Unload \/ UnloadStep => Frugal(Unloader)
  BY Zenon DEF Frugal
<1>6. QED
  BY Zenon, <1>1, <1>2, <1>3, <1>4, <1>5 DEF Next, Halted, Wild

(* A frugal step leaves the others where they are. *)
LEMMA FrugalLocal ==
  ASSUME TypeOK, NEW p \in Procs, Frugal(p), NEW q \in Procs, q # p
  PROVE  LocalSame(q) /\ gen'[q] = gen[q] /\ ret'[q] = ret[q]
<1>1. \/ p \in Threads /\ (Call(p) \/ Step(p))
      \/ Removal(p)
      \/ p = Unloader /\ (Unload \/ UnloadStep)
  BY Zenon DEF Frugal, Call
<1>2. QED
  BY Zenon, <1>1, LocalStep, LocalRest

-----------------------------------------------------------------------------
(* Steps that allocate nothing keep the time stamps apart. *)
LEMMA TimeFrugal ==
  ASSUME CallInv, PendingGood', TimeInv, NEW p \in Procs, Frugal(p)
  PROVE  TimeInv'
<1>1. /\ clock' = clock
      /\ scanLive' \subseteq scanLive /\ \A s \in scanLive' : scanRec'[s] = scanRec[s]
      /\ lruLive' \subseteq lruLive /\ \A l \in lruLive' : lruRec'[l] = lruRec[l]
  BY Zenon, FrugalMemory DEF CallInv
<1>2. ASSUME NEW t \in Threads, Pending(t)', NEW l \in lruLive',
             lruRec'[l].time = scanRec'[rec'[t]].time
      PROVE  l = lru'[t] /\ pc'[t] = "lru_insert"
  <2>1. t \in Procs /\ rec'[t] \in scanLive'
    BY Zenon, <1>2 DEF Procs, PendingGood
  <2>2. CASE t = p
    <3>1. Pending(t) /\ rec'[t] = rec[t] /\ pc[t] # "lru_insert"
      BY Zenon, <1>2, <2>2, FrugalPending
    <3>2. QED
      BY <1>1, <1>2, <2>1, <3>1 DEF TimeInv
  <2>3. CASE t # p
    <3>1. LocalSame(t)
      BY Zenon, <2>1, <2>3, FrugalLocal DEF CallInv
    <3>2. Pending(t) /\ rec'[t] = rec[t] /\ lru'[t] = lru[t] /\ pc'[t] = pc[t]
      BY Zenon, <1>2, <3>1 DEF LocalSame, Pending
    <3>3. QED
      BY <1>1, <1>2, <2>1, <3>2 DEF TimeInv
  <2>4. QED
    BY Zenon, <2>2, <2>3
<1>3. /\ \A s \in scanLive' : scanRec'[s].time <= clock'
      /\ \A l \in lruLive' : lruRec'[l].time <= clock'
      /\ \A s, r \in scanLive' : scanRec'[s].time = scanRec'[r].time => s = r
  BY Zenon, <1>1 DEF TimeInv
<1>4. QED
  BY Zenon, <1>2, <1>3 DEF TimeInv

(* A new LRU record has the time stamp of a scan record without one. *)
LEMMA TimeLruAlloc ==
  ASSUME CallInv, TypeOK', TimeInv, NEW t \in Threads, LruAlloc(t)
  PROVE  TimeInv'
<1>0. t \in Procs /\ \A u \in Threads : u \in Procs
  BY Zenon DEF Procs
<1>1. PICK l \in LruIds \ lruLive : /\ lruLive' = lruLive \cup {l}
                                    /\ lruRec' = [lruRec EXCEPT ![l] = scanRec[rec[t]]]
                                    /\ lru' = [lru EXCEPT ![t] = l]
  BY Zenon DEF LruAlloc
<1>2. UNCHANGED <<scanLive, scanRec, clock, rec, op>> /\ pc[t] = "lru_alloc" /\ Goto(t, "lru_insert")
  BY Zenon DEF LruAlloc, At, scanVars, args
<1>3. pc'[t] = "lru_insert" /\ \A u \in Threads : u # t => pc'[u] = pc[u]
  BY Zenon, <1>0, <1>2, GotoFrame, TypeParts DEF CallInv
<1>4. lruRec'[l] = scanRec[rec[t]] /\ (\A m \in lruLive : lruRec'[m] = lruRec[m])
      /\ lru'[t] = l /\ \A u \in Threads : u # t => lru'[u] = lru[u]
  BY Zenon, <1>0, <1>1 DEF CallInv, TypeOK
<1>5. PendingGood /\ Pending(t)
  BY Zenon, <1>2, PendingFacts DEF Pending
<1>6. rec[t] \in scanLive
  BY Zenon, <1>5 DEF PendingGood
<1>7. ASSUME NEW u \in Threads, Pending(u)', NEW m \in lruLive',
             lruRec'[m].time = scanRec'[rec'[u]].time
      PROVE  m = lru'[u] /\ pc'[u] = "lru_insert"
  <2>1. Pending(u)
    BY Zenon, <1>2, <1>3, <1>5, <1>7 DEF Pending
  <2>2. CASE m = l
    <3>1. rec[u] \in scanLive
      BY Zenon, <1>5, <2>1 DEF PendingGood
    <3>2. rec[u] = rec[t]
      BY <1>2, <1>4, <1>6, <1>7, <2>2, <3>1 DEF TimeInv
    <3>3. u = t
      BY Zenon, <1>5, <2>1, <3>2 DEF PendingGood
    <3>4. QED
      BY Zenon, <1>3, <1>4, <2>2, <3>3
  <2>3. CASE m # l
    <3>1. m \in lruLive /\ lruRec[m].time = scanRec[rec[u]].time
      BY Zenon, <1>1, <1>2, <1>4, <1>7, <2>3
    <3>2. m = lru[u] /\ pc[u] = "lru_insert"
      BY Zenon, <2>1, <3>1 DEF TimeInv
    <3>3. u # t
      BY Zenon, <1>2, <3>2
    <3>4. QED
      BY Zenon, <1>3, <1>4, <3>2, <3>3
  <2>4. QED
    BY Zenon, <2>2, <2>3
<1>8. \A m \in lruLive' : lruRec'[m].time <= clock'
  BY <1>1, <1>2, <1>4, <1>6 DEF TimeInv
<1>9. QED
  BY Zenon, <1>2, <1>7, <1>8 DEF TimeInv

(* A strict clock gives a new scan record a time stamp nobody has. *)
LEMMA TimeCallInsert ==
  ASSUME CallInv, StrictClock, TypeOK', PendingGood', TimeInv,
         NEW t \in Threads, NEW f \in Files, NEW g \in Gens, CallInsert(t, f, g)
  PROVE  TimeInv'
<1>0. t \in Procs /\ \A u \in Threads : u \in Procs
  BY Zenon DEF Procs
<1>1. PICK s \in ScanIds \ scanLive, now \in Times :
         /\ now > clock /\ clock' = now
         /\ scanLive' = scanLive \cup {s}
         /\ scanRec' = [scanRec EXCEPT ![s] = [file |-> f, gen |-> g, time |-> now]]
         /\ rec' = [rec EXCEPT ![t] = s]
  BY Zenon DEF CallInsert, Reads
<1>2. UNCHANGED <<lruLive, lruRec>> /\ Call(t)
  BY Zenon DEF CallInsert, lruVars, Call
<1>3. \A u \in Threads : u # t => LocalSame(u)
  BY Zenon, <1>0, <1>2, LocalStep DEF CallInv
<1>4. /\ scanRec'[s].time = now /\ rec'[t] = s
      /\ \A r \in scanLive : r # s /\ scanRec'[r] = scanRec[r]
  <2>1. scanLive \subseteq ScanIds /\ scanRec'[s] = [file |-> f, gen |-> g, time |-> now]
        /\ rec'[t] = s /\ \A r \in scanLive : r # s /\ scanRec'[r] = scanRec[r]
    BY Zenon, <1>0, <1>1 DEF CallInv, TypeOK
  <2>2. QED
    BY <2>1
<1>5. clock \in Int /\ now \in Int
  BY CacheAssumption DEF CallInv, TypeOK
<1>6. /\ \A r \in scanLive : scanRec[r].time \in Int
      /\ \A l \in lruLive : lruRec[l].time \in Int
  <2>1. \A x \in Record : x.time \in Times
    BY Zenon DEF Record
  <2>2. Times \subseteq Int
    BY CacheAssumption
  <2>3. /\ \A r \in scanLive : scanRec[r] \in Record
        /\ \A l \in lruLive : lruRec[l] \in Record
    BY Zenon DEF CallInv, OwnerInv, ContentInv, TypeOK
  <2>4. QED
    BY Zenon, <2>1, <2>2, <2>3
<1>7. \A r \in scanLive' : scanRec'[r].time <= clock'
  BY <1>1, <1>4, <1>5, <1>6 DEF TimeInv
<1>8. \A l \in lruLive' : lruRec'[l].time <= clock'
  BY <1>1, <1>2, <1>5, <1>6 DEF TimeInv
<1>9. \A r \in scanLive : scanRec[r].time # now
  <2>1. (\A r \in scanLive : scanRec[r].time <= clock) /\ now > clock
    BY Zenon, <1>1 DEF TimeInv
  <2>2. QED
    BY <1>5, <1>6, <2>1
<1>10. \A r, q \in scanLive' : scanRec'[r].time = scanRec'[q].time => r = q
  BY <1>1, <1>4, <1>9 DEF TimeInv
<1>11. ASSUME NEW u \in Threads, Pending(u)', NEW l \in lruLive',
              lruRec'[l].time = scanRec'[rec'[u]].time
       PROVE  l = lru'[u] /\ pc'[u] = "lru_insert"
  <2>1. u # t
    BY <1>1, <1>2, <1>4, <1>5, <1>6, <1>11 DEF TimeInv
  <2>2. LocalSame(u)
    BY Zenon, <1>3, <2>1
  <2>3. Pending(u) /\ rec'[u] = rec[u] /\ lru'[u] = lru[u] /\ pc'[u] = pc[u]
    BY Zenon, <1>11, <2>2 DEF LocalSame, Pending
  <2>4. rec[u] \in scanLive
    BY Zenon, <2>3, PendingFacts DEF PendingGood
  <2>5. QED
    BY <1>2, <1>4, <1>11, <2>3, <2>4 DEF TimeInv
<1>12. QED
  BY Zenon, <1>7, <1>8, <1>10, <1>11 DEF TimeInv

(* So every step keeps them apart. *)
LEMMA TimeStep ==
  ASSUME CallInv, StrictClock, TypeOK', PendingGood', TimeInv, [Next]_vars
  PROVE  TimeInv'
<1>1. CASE UNCHANGED vars
  BY Zenon, <1>1 DEF vars, TimeInv, Pending
<1>2. ASSUME NEW t \in Threads, Inserts(t) PROVE TimeInv'
  BY Zenon, <1>2, TimeCallInsert DEF Inserts
<1>3. QED
  BY Zenon, <1>1, <1>2, StepKinds, TimeFrugal, TimeLruAlloc

-----------------------------------------------------------------------------
(* A step of p keeps every LRU record linked or claimed if p drops none. *)
LEMMA LruKeeps ==
  ASSUME LruKept, NEW p \in Procs, \A q \in Procs : q # p => LocalSame(q),
         NEW l \in lruLive',
         l \in lruTree' \/ LruClaim(p, l)' \/ (l \in lruLive /\ l \notin lruTree /\ ~LruClaim(p, l))
  PROVE  l \in lruTree' \/ \E q \in Procs : LruClaim(q, l)'
  BY Zenon DEF LruKept, LocalSame, LruClaim

(* No time stamp is refused: insert_lru_cache_record links what it         *)
(* allocates.                                                              *)
LEMMA NeverRefused ==
  ASSUME CallInv, TimeInv, NEW t \in Threads, LruInsertDuplicate(t)
  PROVE  FALSE
<1>1. t \in Procs /\ pc[t] = "lru_insert" /\ LruNodes(lruRec[lru[t]].time) # {}
  BY Zenon DEF LruInsertDuplicate, At, Procs
<1>2. PICK l \in lruTree : lruRec[l].time = lruRec[lru[t]].time
  BY Zenon, <1>1 DEF LruNodes
<1>3. OwnAt(t) /\ file[t] # NULL
  BY Zenon, <1>1 DEF CallInv, OwnerInv, OwnAt, Loops, TypeOK, CallOps
<1>4. lruRec[lru[t]] = scanRec[rec[t]] /\ lru[t] # NULL /\ Pending(t)
  BY Zenon, <1>1, <1>3 DEF OwnAt, Pending
<1>5. l = lru[t]
  BY Zenon, <1>2, <1>4 DEF TimeInv, CallInv, RecordInv, LruRecordInv
<1>6. LruClaim(t, l) /\ l \in LruIds
  BY Zenon, <1>1, <1>5 DEF LruClaim, CallInv, TypeOK
<1>7. QED
  BY Zenon, <1>1, <1>6 DEF CallInv, RecordInv, LruRecordInv

(* Every step keeps every LRU record linked or claimed. *)
LEMMA LruKeptStep ==
  ASSUME CallInv, TypeOK', TimeInv, LruKept, [Next]_vars, NEW l \in lruLive'
  PROVE  l \in lruTree' \/ \E q \in Procs : LruClaim(q, l)'
<1> DEFINE Kept(p) == l \in lruTree' \/ LruClaim(p, l)' \/ (l \in lruLive /\ l \notin lruTree /\ ~LruClaim(p, l))
<1>0. Unloader \in Procs /\ (\A t \in Threads : t \in Procs) /\ TypeOK
  BY Zenon DEF Procs, CallInv
<1>1. \A p \in Procs : \A b : Goto(p, b) => pc'[p] = b
  BY Zenon, <1>0, GotoFrame, TypeParts
<1>2. ASSUME NEW p \in Procs, UNCHANGED lruVars, pc[p] \notin {"lru_insert", "lru_free"} PROVE Kept(p)
  BY Zenon, <1>2 DEF lruVars, LruClaim
<1>3. ASSUME NEW p \in Procs, LruAlloc(p) PROVE Kept(p)
  <2>1. PICK m \in LruIds \ lruLive : /\ lruLive' = lruLive \cup {m}
                                      /\ lru' = [lru EXCEPT ![p] = m]
    BY Zenon, <1>3 DEF LruAlloc
  <2>2. lruTree' = lruTree /\ pc[p] = "lru_alloc" /\ pc'[p] = "lru_insert" /\ lru'[p] = m
    BY Zenon, <1>0, <1>1, <1>3, <2>1 DEF LruAlloc, At, TypeOK
  <2>3. QED
    BY Zenon, <2>1, <2>2 DEF LruClaim
<1>4. ASSUME NEW p \in Procs, LruInsert(p) PROVE Kept(p)
  BY Zenon, <1>4 DEF LruInsert, At, LruClaim
<1>5. ASSUME NEW p \in Procs, LruRemove(p) PROVE Kept(p)
  BY Zenon, <1>1, <1>5 DEF LruRemove, At, LruClaim, ptrs
<1>6. ASSUME NEW p \in Procs, LruFree(p) PROVE Kept(p)
  BY Zenon, <1>6 DEF LruFree, At, LruClaim
<1>7. ASSUME NEW t \in Threads, Call(t) \/ Step(t) PROVE Kept(t)
  <2>1. CASE Call(t)
    BY Zenon, <1>0, <1>2, <2>1 DEF Call, CallInsertNoMem, CallInsert, CallRemove, Called, At
  <2>2. CASE Step(t) /\ ~LruAlloc(t) /\ ~LruInsert(t) /\ ~LruInsertDuplicate(t)
    <3>1. UNCHANGED lruVars /\ pc[t] \notin {"lru_insert", "lru_free"}
      BY Zenon, <2>2 DEF Step, Insert, InsertDuplicate, FindOld, FindOldFails, Replace,
         FreeOld, Find, FindFails, LruFind, LruFindFails, LruAllocFails, At
    <3>2. QED
      BY Zenon, <1>0, <1>2, <3>1
  <2>3. QED
    BY Zenon, <1>0, <1>3, <1>4, <1>7, <2>1, <2>2, NeverRefused
<1>8. ASSUME NEW p \in Procs, ScanRemove(p) \/ ScanFree(p) PROVE Kept(p)
  BY Zenon, <1>2, <1>8 DEF ScanRemove, ScanFree, At
<1>9. CASE Unload \/ UnloadStep
  <2>1. UNCHANGED lruVars
    BY Zenon, <1>9 DEF Unload, UnloadStep, Evict, EvictEnds, PurgeScan, PurgeScanEnds,
       PurgeLru, Destroy
  <2>2. pc[Unloader] \notin {"lru_insert", "lru_free"}
    BY Zenon, <1>0, <1>9 DEF Unload, UnloadStep, Evict, EvictEnds, PurgeScan, PurgeScanEnds,
       PurgeLru, Destroy, At
  <2>3. Kept(Unloader)
    BY Zenon, <1>0, <1>2, <2>1, <2>2
  <2>4. QED
    BY Zenon, <1>0, <1>9, <2>3, LocalStep, LruKeeps
<1>10. CASE UNCHANGED vars
  BY Zenon, <1>10 DEF vars, LruKept, LruClaim
<1>11. ASSUME NEW p \in Procs, Wild(p) PROVE FALSE
  BY Zenon, <1>11, NotWild DEF CallInv
<1>12. ASSUME NEW p \in Procs, Removal(p) PROVE l \in lruTree' \/ \E q \in Procs : LruClaim(q, l)'
  <2>1. Kept(p)
    BY Zenon, <1>5, <1>6, <1>8, <1>12 DEF Removal
  <2>2. QED
    BY Zenon, <1>0, <1>12, <2>1, LocalStep, LruKeeps
<1>13. ASSUME NEW t \in Threads, Call(t) \/ Step(t)
       PROVE  l \in lruTree' \/ \E q \in Procs : LruClaim(q, l)'
  BY Zenon, <1>0, <1>7, <1>13, LocalStep, LruKeeps
<1>14. QED
  BY Zenon, <1>9, <1>10, <1>11, <1>12, <1>13 DEF Next, Halted, Wild

(* Threads move only while exit_scan_cache does not run. *)
LEMMA UnloaderIdle ==
  ASSUME CallInv, NEW t \in Threads, Call(t) \/ Step(t) \/ Removal(t)
  PROVE  pc[Unloader] = "idle" /\ LocalSame(Unloader)
<1>1. Unloader \in Procs /\ Unloader \notin Threads /\ t \in Procs /\ TypeOK
  BY Zenon, CacheAssumption DEF Procs, CallInv
<1>2. LocalSame(Unloader)
  BY Zenon, <1>1, LocalStep
<1>3. Step(t) \/ Removal(t) => pc[t] # "idle"
  BY Zenon DEF Step, Insert, InsertDuplicate, FindOld, FindOldFails, Replace, FreeOld,
     Find, FindFails, LruFind, LruFindFails, LruAlloc, LruAllocFails, LruInsert,
     LruInsertDuplicate, Removal, LruRemove, LruFree, ScanRemove, ScanFree, At
<1>4. Call(t) => pc[Unloader] = "idle"
  BY Zenon DEF Call, CallInsertNoMem, CallInsert, CallRemove, Called
<1>5. QED
  BY Zenon, <1>2, <1>3, <1>4 DEF CallInv, RecordInv, UnloadInv

(* exit_scan_cache is over only when the LRU tree is empty. *)
LEMMA DeadStep ==
  ASSUME CallInv, TypeOK', LruKept, [Next]_vars, pc'[Unloader] = "dead"
  PROVE  lruTree' = {}
<1>0. Unloader \in Procs /\ Unloader \notin Threads /\ (\A t \in Threads : t \in Procs) /\ TypeOK
  BY Zenon, CacheAssumption DEF Procs, CallInv
<1>1. \A p \in Procs : \A b : (Goto(p, b) \/ Leave(p, b)) => pc'[p] = b
  BY Zenon, <1>0, GotoFrame, LeaveFrame, TypeParts
<1>2. CASE UNCHANGED <<lruTree, pc>>
  BY Zenon, <1>2 DEF LruKept
<1>3. CASE Destroy
  BY Zenon, <1>3 DEF Destroy, lruVars
<1>4. ASSUME Unload \/ UnloadStep, ~Destroy PROVE FALSE
  BY Zenon, <1>0, <1>1, <1>4 DEF Unload, UnloadStep, Evict, EvictEnds, PurgeScan, PurgeScanEnds, PurgeLru
<1>5. ASSUME Removal(Unloader) PROVE FALSE
  BY Zenon, <1>0, <1>1, <1>5 DEF Removal, LruRemove, LruFree, ScanRemove, ScanFree, Return
<1>6. ASSUME NEW t \in Threads, Call(t) \/ Step(t) \/ Removal(t) PROVE FALSE
  <2>1. pc[Unloader] = "idle" /\ LocalSame(Unloader)
    BY Zenon, <1>6, UnloaderIdle
  <2>2. QED
    BY Zenon, <2>1 DEF LocalSame
<1>7. ASSUME NEW p \in Procs, Wild(p) PROVE FALSE
  BY Zenon, <1>7, NotWild DEF CallInv
<1>8. CASE UNCHANGED vars
  BY Zenon, <1>2, <1>8 DEF vars
<1>9. QED
  BY Zenon, <1>3, <1>4, <1>5, <1>6, <1>7, <1>8 DEF Next, Halted, Procs, Wild

(* The invariants of serialised callers hold in every reachable state. *)
LEMMA CallInvariant ==
  ASSUME Exclusive
  PROVE  Spec => []CallInv
<1>1. TypeOK /\ RecordsSound /\ OwnerInv => CallInv
  BY Zenon DEF CallInv, RecordsSound, OwnerInv
<1>2. QED
  BY <1>1, OwnerInvariant, RecordInvariant, PTL

(* When callers are serialised file by file and no two clock readings are  *)
(* equal, no LRU record is lost: insert_lru_cache_record never meets the   *)
(* time stamp it inserts, the one case in which it leaves its record       *)
(* allocated.                                                              *)
THEOREM LruRecordsAccounted ==
  ASSUME Exclusive, StrictClock
  PROVE  Spec => []NoLruLeak
<1>1. Init => TimeInv /\ LruKept
  <2>1. ASSUME Init PROVE TimeInv /\ LruKept
    <3>1. /\ lruLive = {} /\ scanLive = {} /\ lruTree = {}
      BY Zenon, <2>1 DEF Init
    <3>2. QED
      BY Zenon, <3>1 DEF TimeInv, LruKept
  <2>2. QED
    BY Zenon, <2>1
<1>2. CallInv /\ CallInv' /\ PendingGood' /\ TimeInv /\ [Next]_vars => TimeInv'
  BY Zenon, TimeStep DEF CallInv
<1>3. CallInv /\ CallInv' /\ TimeInv /\ LruKept /\ [Next]_vars => LruKept'
  <2>1. ASSUME CallInv, TypeOK', TimeInv, LruKept, [Next]_vars PROVE LruKept'
    BY Zenon, <2>1, LruKeptStep, DeadStep DEF LruKept
  <2>2. QED
    BY Zenon, <2>1 DEF CallInv
<1>4. CallInv /\ LruKept => NoLruLeak
  <2>1. ASSUME CallInv, LruKept PROVE NoLruLeak
    <3>1. ASSUME AtRest PROVE lruLive = lruTree
      <4>1. \A p \in Procs : \A l : ~LruClaim(p, l)
        BY Zenon, <3>1 DEF AtRest, LruClaim
      <4>2. QED
        BY Zenon, <2>1, <4>1 DEF LruKept, CallInv, RecordInv, LruRecordInv
    <3>2. ASSUME pc[Unloader] = "dead" PROVE AtRest /\ lruTree = {}
      BY Zenon, <2>1, <3>2 DEF CallInv, RecordInv, UnloadInv, AtRest, Procs, LruKept
    <3>3. QED
      BY Zenon, <3>1, <3>2 DEF NoLruLeak
  <2>2. QED
    BY Zenon, <2>1
<1>5. QED
  BY <1>1, <1>2, <1>3, <1>4, PendingFacts, CallInvariant, PTL DEF Spec

-----------------------------------------------------------------------------
(* The record of the first LRU record is older than every other one. *)
LEMMA FirstIsOldest ==
  ASSUME CallInv, pc[Unloader] = "evict", NEW l \in LruFirst,
         NEW s \in ScanMatches(lruRec[l].file, lruRec[l].gen),
         NEW r \in scanTree, r # s
  PROVE  scanRec[s].time < scanRec[r].time
<1>1. Unloader \in Procs /\ TypeOK /\ ContentInv /\ TreesAgree /\ LruTimesUnique /\ fault = {}
  BY Zenon DEF Procs, CallInv, OwnerInv, RecordInv, LruRecordInv
<1>2. op[Unloader] = "none" /\ file[Unloader] = NULL
  BY Zenon, <1>1 DEF CallInv, OwnerInv, OwnAt, Loops
<1>3. \A t \in Threads : file[t] = NULL
  <2>1. \A t \in Threads : pc[t] = "idle"
    BY Zenon DEF CallInv, RecordInv, UnloadInv
  <2>2. QED
    BY Zenon, <2>1 DEF CallInv, OwnerInv, OwnAt, Loops, Procs
<1>4. ~Purging
  BY Zenon, <1>2 DEF Purging
<1>5. \A f \in Files : Matched(f)
  <2>1. NULL \notin Files
    BY Zenon, CacheAssumption
  <2>2. QED
    BY Zenon, <1>1, <1>2, <1>3, <1>4, <2>1 DEF TreesAgree, Procs
<1>6. l \in lruTree /\ s \in scanTree /\ scanRec[s].file = lruRec[l].file
  BY Zenon, <1>1 DEF LruFirst, ScanMatches, ScanNodes
<1>7. scanRec[s] \in Record /\ scanRec[r] \in Record
  BY Zenon, <1>1, <1>6 DEF ContentInv, CallInv, RecordInv, ScanRecordInv, TypeOK
<1>8. scanRec[s].file \in Files /\ scanRec[r].file \in Files
  BY Zenon, <1>7 DEF Record
<1>9. scanRec[s] = lruRec[l]
  <2>1. PICK x \in scanTree : scanRec[x] = lruRec[l]
    BY Zenon, <1>5, <1>6, <1>8 DEF Matched
  <2>2. QED
    BY Zenon, <1>1, <1>6, <2>1 DEF ContentInv
<1>10. PICK m \in lruTree : lruRec[m] = scanRec[r]
  BY Zenon, <1>5, <1>8 DEF Matched
<1>11. m # l
  BY Zenon, <1>1, <1>6, <1>9, <1>10 DEF ContentInv
<1>12. lruRec[l].time <= lruRec[m].time /\ lruRec[l].time # lruRec[m].time
  BY Zenon, <1>1, <1>6, <1>11 DEF LruFirst, LruTimesUnique
<1>13. scanRec[s].time \in Times /\ scanRec[r].time \in Times
  BY Zenon, <1>7 DEF Record
<1>14. \A x, y \in Times : x <= y /\ x # y => x < y
  <2>1. Times \subseteq Int
    BY CacheAssumption
  <2>2. QED
    BY <2>1
<1>15. scanRec[s].time <= scanRec[r].time /\ scanRec[s].time # scanRec[r].time
  BY Zenon, <1>9, <1>10, <1>12
<1>16. QED
  BY Zenon, <1>13, <1>14, <1>15

(* From the choice of the record to its removal, it stays the oldest. *)
LEMMA EvictStep ==
  ASSUME CallInv, TypeOK', EvictInv, [Next]_vars
  PROVE  EvictInv'
<1> SUFFICES ASSUME op'[Unloader] = "evict",
                    pc'[Unloader] \in {"lru_remove", "lru_free", "scan_remove"},
                    NEW r \in scanTree', r # rec'[Unloader]
             PROVE  scanRec'[rec'[Unloader]].time < scanRec'[r].time
  BY Zenon DEF EvictInv
<1>0. Unloader \in Procs /\ Unloader \notin Threads /\ (\A t \in Threads : t \in Procs) /\ TypeOK
  BY Zenon, CacheAssumption DEF Procs, CallInv
<1>1. \A p \in Procs : \A b : (Goto(p, b) \/ Leave(p, b)) => pc'[p] = b
  BY Zenon, <1>0, GotoFrame, LeaveFrame, TypeParts
<1>2. CASE /\ pc[Unloader] \in {"lru_remove", "lru_free", "scan_remove"} /\ op[Unloader] = "evict"
           /\ UNCHANGED <<scanRec, scanTree>> /\ rec'[Unloader] = rec[Unloader]
  BY Zenon, <1>2 DEF EvictInv
<1>3. CASE Evict
  <2>1. PICK l \in LruFirst : \E s \in ScanMatches(lruRec[l].file, lruRec[l].gen) :
           rec' = [rec EXCEPT ![Unloader] = s]
    BY Zenon, <1>3 DEF Evict
  <2>2. PICK s \in ScanMatches(lruRec[l].file, lruRec[l].gen) : rec' = [rec EXCEPT ![Unloader] = s]
    BY Zenon, <2>1
  <2>3. rec'[Unloader] = s /\ UNCHANGED <<scanRec, scanTree>> /\ pc[Unloader] = "evict"
    BY Zenon, <1>0, <1>3, <2>2 DEF Evict, At, scanVars, TypeOK
  <2>4. QED
    BY Zenon, <2>3, FirstIsOldest
<1>4. CASE PurgeScan \/ PurgeLru
  <2>1. op' = [op EXCEPT ![Unloader] = "purge"]
    BY Zenon, <1>4 DEF PurgeScan, PurgeLru
  <2>2. QED
    BY Zenon, <1>0, <2>1 DEF TypeOK
<1>5. CASE Unload \/ EvictEnds \/ PurgeScanEnds \/ Destroy
  BY Zenon, <1>0, <1>1, <1>5 DEF Unload, EvictEnds, PurgeScanEnds, Destroy
<1>6. CASE LruRemove(Unloader)
  <2>1. UNCHANGED <<scanRec, scanTree, rec, op>> /\ pc[Unloader] = "lru_remove"
    BY Zenon, <1>6 DEF LruRemove, At, scanVars, args, ptrs
  <2>2. QED
    BY Zenon, <1>2, <2>1
<1>7. CASE LruFree(Unloader)
  <2>1. UNCHANGED <<scanRec, scanTree>> /\ pc[Unloader] = "lru_free"
    BY Zenon, <1>7 DEF LruFree, At, scanVars
  <2>2. UNCHANGED <<op, rec>>
    BY Zenon, <1>0, <1>1, <1>7 DEF LruFree, args
  <2>3. QED
    BY Zenon, <1>2, <2>1, <2>2
<1>8. CASE ScanRemove(Unloader) \/ ScanFree(Unloader)
  BY Zenon, <1>0, <1>1, <1>8 DEF ScanRemove, ScanFree, Return
<1>9. ASSUME NEW t \in Threads, Call(t) \/ Step(t) \/ Removal(t) PROVE FALSE
  BY Zenon, <1>9, UnloaderIdle DEF LocalSame
<1>10. CASE UNCHANGED vars
  BY Zenon, <1>2, <1>10 DEF vars
<1>11. ASSUME NEW p \in Procs, Wild(p) PROVE FALSE
  BY Zenon, <1>11, NotWild DEF CallInv
<1>12. QED
  BY Zenon, <1>3, <1>4, <1>5, <1>6, <1>7, <1>8, <1>9, <1>10, <1>11
     DEF Next, Halted, Procs, Removal, UnloadStep, Wild

(* When callers are serialised file by file, remove_cache_entry evicts in  *)
(* order of age: every scan record that stays is younger than the evicted  *)
(* one, though the age is read from the other tree.                        *)
THEOREM OldestGoesFirst ==
  ASSUME Exclusive
  PROVE  Spec => EvictsOldest
<1>1. Init => EvictInv
  BY Zenon DEF Init, EvictInv, Procs
<1>2. CallInv /\ CallInv' /\ EvictInv /\ [Next]_vars => EvictInv'
  BY Zenon, EvictStep DEF CallInv
<1>3. ASSUME CallInv, EvictInv, [Next]_vars, NEW s \in scanTree \ scanTree',
             op[Unloader] = "evict", NEW r \in scanTree'
      PROVE  scanRec[s].time < scanRec[r].time
  <2>0. Unloader \in Procs /\ Unloader \notin Threads
    BY Zenon, CacheAssumption DEF Procs
  <2>1. pc[Unloader] \notin Loops
    BY Zenon, <1>3, <2>0 DEF CallInv, OwnerInv, OwnAt
  <2>2. CASE ScanRemove(Unloader)
    <3>1. pc[Unloader] = "scan_remove" /\ scanTree' = scanTree \ {rec[Unloader]}
      BY Zenon, <2>2 DEF ScanRemove, At
    <3>2. QED
      BY Zenon, <1>3, <3>1 DEF EvictInv
  <2>3. CASE UNCHANGED scanTree
    BY Zenon, <1>3, <2>3
  <2>4. CASE Unload \/ UnloadStep \/ LruRemove(Unloader) \/ LruFree(Unloader) \/ ScanFree(Unloader)
    BY Zenon, <2>3, <2>4 DEF Unload, UnloadStep, Evict, EvictEnds, PurgeScan, PurgeScanEnds,
       PurgeLru, Destroy, LruRemove, LruFree, ScanFree, scanVars
  <2>5. ASSUME NEW t \in Threads, Call(t) \/ Step(t) \/ Removal(t) PROVE FALSE
    BY Zenon, <1>3, <2>1, <2>5, UnloaderIdle DEF Loops
  <2>6. ASSUME NEW p \in Procs, Wild(p) PROVE FALSE
    BY Zenon, <1>3, <2>6, NotWild DEF CallInv
  <2>7. CASE UNCHANGED vars
    BY Zenon, <2>3, <2>7 DEF vars
  <2>8. QED
    BY Zenon, <1>3, <2>2, <2>4, <2>5, <2>6, <2>7 DEF Next, Halted, Procs, Removal, Wild
<1>4. CallInv /\ EvictInv /\ [Next]_vars =>
         [\A s \in scanTree \ scanTree' : op[Unloader] = "evict" =>
             \A r \in scanTree' : scanRec[s].time < scanRec[r].time]_vars
  BY Zenon, <1>3
<1>5. QED
  BY <1>1, <1>2, <1>4, CallInvariant, PTL DEF Spec, EvictsOldest

-----------------------------------------------------------------------------
\* A step of process p.
StepOf(p) ==
    \/ p \in Threads /\ (Call(p) \/ Step(p))
    \/ Removal(p)
    \/ p = Unloader /\ (Unload \/ UnloadStep)

(* Every step is somebody's. *)
LEMMA Steps ==
  ASSUME CallInv, [Next]_vars
  PROVE  UNCHANGED vars \/ \E p \in Procs : StepOf(p)
<1>1. ASSUME NEW p \in Procs, Wild(p) PROVE FALSE
  BY Zenon, <1>1, NotWild DEF CallInv
<1>2. Unloader \in Procs /\ \A t \in Threads : t \in Procs
  BY Zenon DEF Procs
<1>3. QED
  BY Zenon, <1>1, <1>2 DEF Next, Halted, StepOf, Wild

(* A step that touches the scan record r only leaves those of other files. *)
LEMMA OneRecord ==
  ASSUME NEW g, NEW r \in ScanIds, g # NULL, scanRec[r].file # g, scanRec'[r].file # g,
         \A s \in ScanIds : s # r => scanRec'[s] = scanRec[s] /\ (s \in scanTree' <=> s \in scanTree)
  PROVE  ScanSame(g)
  BY Zenon DEF ScanSame

(* A step of one process leaves the scan records of the file another       *)
(* works on.                                                               *)
LEMMA ScanOthers ==
  ASSUME CallInv, CallInv', NEW p \in Procs, StepOf(p),
         NEW q \in Threads, q # p, file[q] # NULL
  PROVE  ScanSame(file[q])
<1>0. q \in Procs /\ TypeOK /\ p # Unloader /\ p \in Threads
  <2>1. q \in Procs /\ TypeOK
    BY Zenon DEF Procs, CallInv
  <2>2. pc[q] # "idle"
    BY Zenon, <2>1 DEF CallInv, OwnerInv, OwnAt, Loops
  <2>3. pc[Unloader] = "idle"
    BY Zenon, <2>2 DEF CallInv, RecordInv, UnloadInv
  <2>4. ~(p = Unloader)
    <3>1. ASSUME Removal(Unloader) \/ Unload \/ UnloadStep PROVE FALSE
      BY Zenon, <2>1, <2>2, <2>3, <3>1 DEF Removal, LruRemove, LruFree, ScanRemove, ScanFree, At, Unload,
         UnloadStep, Evict, EvictEnds, PurgeScan, PurgeScanEnds, PurgeLru, Destroy
    <3>2. QED
      BY Zenon, <3>1, CacheAssumption DEF StepOf
  <2>5. QED
    BY Zenon, <2>1, <2>4 DEF Procs
<1>1. CASE UNCHANGED scanVars
  BY Zenon, <1>1 DEF scanVars, ScanSame
<1>2. /\ file[p] # NULL => file[p] # file[q]
      /\ file'[p] # NULL => file'[p] # file'[q]
      /\ file'[q] = file[q]
  <2>1. LocalSame(q)
    BY Zenon, <1>0, LocalStep DEF StepOf
  <2>2. DisjointInv /\ DisjointInv'
    BY Zenon DEF CallInv, OwnerInv
  <2>3. QED
    BY Zenon, <1>0, <2>1, <2>2 DEF DisjointInv, LocalSame
<1>3. OwnAt(p) /\ PointersGood(p) /\ OpAt(p)
  BY Zenon, GoodPointers DEF CallInv, OwnerInv, RecordInv
<1>4. Blank.file = NULL /\ scanRec \in [ScanIds -> Record \cup {Blank}]
      /\ scanTree \subseteq ScanIds /\ op[p] # "purge"
  BY Zenon, <1>0 DEF Blank, TypeOK, CallOps
<1>5. rec[p] # NULL => rec[p] \in ScanIds
  BY Zenon, <1>0 DEF TypeOK
<1>6. old[p] # NULL => old[p] \in ScanIds
  BY Zenon, <1>0 DEF TypeOK
<1>7. ASSUME NEW r \in ScanIds, FreeScan(r), UNCHANGED scanTree, scanRec[r].file # file[q]
      PROVE  ScanSame(file[q])
  <2>1. scanRec'[r] = Blank /\ \A s \in ScanIds : s # r => scanRec'[s] = scanRec[s]
    BY Zenon, <1>4, <1>7 DEF FreeScan
  <2>2. QED
    BY Zenon, <1>4, <1>7, <2>1, OneRecord
<1>8. ASSUME NEW f \in Files, NEW g \in Gens, CallInsert(p, f, g) PROVE ScanSame(file[q])
  <2>1. PICK s \in ScanIds \ scanLive, now \in Times :
           scanRec' = [scanRec EXCEPT ![s] = [file |-> f, gen |-> g, time |-> now]]
    BY Zenon, <1>8 DEF CallInsert
  <2>2. file' = [file EXCEPT ![p] = f] /\ UNCHANGED scanTree
    BY Zenon, <1>8 DEF CallInsert
  <2>3. file'[p] = f /\ f # NULL
    BY Zenon, <1>0, <2>2, CacheAssumption DEF TypeOK
  <2>4. scanRec'[s].file = f /\ \A r \in ScanIds : r # s => scanRec'[r] = scanRec[r]
    BY Zenon, <1>4, <2>1
  <2>5. scanRec[s] = Blank
    BY Zenon, <1>4 DEF CallInv, OwnerInv, ContentInv
  <2>6. QED
    BY Zenon, <1>2, <1>4, <2>2, <2>3, <2>4, <2>5, OneRecord
<1>9. pc[p] \in Replaced \cup {"insert", "find_old", "replace", "find"} => file[p] # NULL
  BY Zenon, <1>3, <1>4 DEF OwnAt, Loops, Replaced
<1>10. CASE Insert(p)
  <2>1. pc[p] = "insert" /\ scanTree' = scanTree \cup {rec[p]} /\ UNCHANGED scanRec
    BY Zenon, <1>10 DEF Insert, At
  <2>2. scanRec[rec[p]].file = file[p] /\ rec[p] \in ScanIds /\ file[p] # file[q]
    BY Zenon, <1>2, <1>3, <1>5, <1>9, <2>1 DEF OwnAt
  <2>3. QED
    BY Zenon, <2>1, <2>2, OneRecord
<1>11. CASE ScanRemove(p)
  <2>1. pc[p] = "scan_remove" /\ scanTree' = scanTree \ {rec[p]} /\ UNCHANGED scanRec
    BY Zenon, <1>11 DEF ScanRemove, At
  <2>2. scanRec[rec[p]].file = file[p] /\ rec[p] \in ScanIds /\ file[p] # file[q]
    BY Zenon, <1>2, <1>3, <1>4, <1>9, <2>1 DEF OwnAt, Replaced
  <2>3. QED
    BY Zenon, <2>1, <2>2, OneRecord
<1>12. CASE Replace(p)
  <2>1. pc[p] = "replace" /\ scanTree' = (scanTree \ {old[p]}) \cup {rec[p]} /\ UNCHANGED scanRec
    BY Zenon, <1>12 DEF Replace, At
  <2>2. /\ scanRec[rec[p]].file = file[p] /\ rec[p] \in ScanIds /\ file[p] # file[q]
        /\ scanRec[old[p]].file = file[p] /\ old[p] \in ScanIds
    BY Zenon, <1>2, <1>3, <1>5, <1>6, <1>9, <2>1 DEF OwnAt
  <2>3. QED
    BY Zenon, <2>1, <2>2 DEF ScanSame
<1>13. CASE ScanFree(p) \/ FindOldFails(p)
  <2>1. pc[p] \in {"scan_free", "find_old"} /\ FreeScan(rec[p]) /\ UNCHANGED scanTree
    BY Zenon, <1>13 DEF ScanFree, FindOldFails, At
  <2>2. scanRec[rec[p]].file = file[p] /\ rec[p] \in ScanIds /\ file[p] # file[q]
    BY Zenon, <1>2, <1>3, <1>5, <1>9, <2>1 DEF OwnAt, Replaced
  <2>3. QED
    BY Zenon, <1>7, <2>1, <2>2
<1>14. CASE FreeOld(p)
  <2>1. pc[p] = "free_old" /\ FreeScan(old[p]) /\ UNCHANGED scanTree
    BY Zenon, <1>14 DEF FreeOld, At
  <2>2. scanRec[old[p]].file = file[p] /\ old[p] \in ScanIds /\ file[p] # file[q]
    BY Zenon, <1>2, <1>3, <1>6, <1>9, <2>1 DEF OwnAt, OpAt, Replaced
  <2>3. QED
    BY Zenon, <1>7, <2>1, <2>2
<1>15. CASE Call(p)
  BY Zenon, <1>1, <1>8, <1>15 DEF Call, CallInsertNoMem, CallRemove
<1>16. CASE Step(p) /\ ~(Insert(p) \/ Replace(p) \/ FindOldFails(p) \/ FreeOld(p))
  BY Zenon, <1>1, <1>16 DEF Step, InsertDuplicate, FindOld, Find, FindFails, LruFind,
     LruFindFails, LruAlloc, LruAllocFails, LruInsert, LruInsertDuplicate
<1>17. CASE LruRemove(p) \/ LruFree(p)
  BY Zenon, <1>1, <1>17 DEF LruRemove, LruFree
<1>18. QED
  BY Zenon, <1>0, <1>10, <1>11, <1>12, <1>13, <1>14, <1>15, <1>16, <1>17 DEF StepOf, Removal

(* What a call knows of its result survives the steps of the others. *)
LEMMA KnowsOthers ==
  ASSUME CallInv, CallInv', NEW p \in Procs, StepOf(p),
         NEW q \in Threads, q # p, KnowsAt(q)
  PROVE  KnowsAt(q)'
<1>0. q \in Procs /\ TypeOK /\ TypeOK'
  BY Zenon DEF Procs, CallInv
<1>1. LocalSame(q) /\ gen'[q] = gen[q] /\ ret'[q] = ret[q]
  BY Zenon, <1>0, LocalStep, LocalRest DEF StepOf
<1>2. CASE file[q] = NULL
  <2>1. pc[q] \in Loops
    BY Zenon, <1>0, <1>2 DEF CallInv, OwnerInv, OwnAt, TypeOK, CallOps
  <2>2. pc'[q] \in Loops
    BY Zenon, <1>1, <2>1 DEF LocalSame
  <2>3. QED
    BY Zenon, <2>2 DEF KnowsAt, Pending, Loops
<1>3. CASE file[q] # NULL
  <2>1. ScanSame(file[q])
    BY Zenon, <1>3, ScanOthers
  <2>2. UNCHANGED <<pc[q], op[q], file[q], rec[q]>>
    BY Zenon, <1>1 DEF LocalSame
  <2>3. Pending(q) => scanRec'[rec[q]] = scanRec[rec[q]]
    <3>1. Pending(q) => rec[q] \in ScanIds /\ scanRec[rec[q]].file = file[q]
      BY Zenon, <1>0, PendingFacts DEF PendingGood, TypeOK
    <3>2. QED
      BY Zenon, <2>1, <3>1 DEF ScanSame
  <2>4. Pending(q)' => Pending(q)
    BY Zenon, <2>2 DEF Pending
  <2>5. ASSUME NEW s \in scanTree, scanRec[s].file = file[q], scanRec[s].gen = gen[q]
        PROVE  s \in scanTree' /\ scanRec'[s].file = file[q] /\ scanRec'[s].gen = gen[q]
    BY Zenon, <1>0, <2>1, <2>5 DEF ScanSame, TypeOK
  <2>6. NoScan(file[q]) => \A s \in scanTree' : scanRec'[s].file # file[q]
    BY Zenon, <1>0, <2>1 DEF ScanSame, TypeOK, NoScan
  <2>7. Pending(q)' => scanRec'[rec'[q]].gen = gen'[q]
    BY Zenon, <1>1, <2>2, <2>3, <2>4 DEF KnowsAt
  <2>8. op'[q] = "update" /\ pc'[q] \in {"scan_remove", "scan_free"} => ret'[q] # "ok"
    BY Zenon, <1>1, <2>2 DEF KnowsAt
  <2>9. CASE ret[q] = "ok"
    BY Zenon, <1>1, <2>2, <2>5, <2>7, <2>8, <2>9 DEF KnowsAt
  <2>10. CASE ret[q] # "ok"
    BY Zenon, <1>1, <2>2, <2>6, <2>7, <2>8, <2>10 DEF KnowsAt, NoScan
  <2>11. QED
    BY Zenon, <2>9, <2>10
<1>4. QED
  BY Zenon, <1>2, <1>3

(* The record a pending call will link has the generation of its argument. *)
LEMMA GenStep ==
  ASSUME CallInv, CallInv', PendingGood', NEW t \in Threads, StepOf(t), KnowsAt(t), Pending(t)'
  PROVE  scanRec'[rec'[t]].gen = gen'[t]
<1>0. t \in Procs /\ TypeOK /\ t # Unloader
  BY Zenon, CacheAssumption DEF Procs, CallInv
<1>1. CASE Inserts(t)
  <2>1. PICK f \in Files, g \in Gens : CallInsert(t, f, g)
    BY Zenon, <1>1 DEF Inserts
  <2>2. PICK s \in ScanIds, now \in Times :
           /\ scanRec' = [scanRec EXCEPT ![s] = [file |-> f, gen |-> g, time |-> now]]
           /\ rec' = [rec EXCEPT ![t] = s]
    BY Zenon, <2>1 DEF CallInsert
  <2>3. gen' = [gen EXCEPT ![t] = g]
    BY Zenon, <2>1 DEF CallInsert
  <2>4. rec'[t] = s /\ gen'[t] = g
    BY Zenon, <1>0, <2>2, <2>3 DEF TypeOK
  <2>5. scanRec'[s].gen = g
    BY Zenon, <1>0, <2>2 DEF TypeOK
  <2>6. QED
    BY Zenon, <2>4, <2>5
<1>2. CASE LruAlloc(t)
  <2>1. UNCHANGED <<scanRec, rec, gen>> /\ Pending(t)
    BY Zenon, <1>2 DEF LruAlloc, scanVars, args, At, Pending
  <2>2. QED
    BY Zenon, <2>1 DEF KnowsAt
<1>3. CASE Frugal(t)
  <2>1. Pending(t) /\ rec'[t] = rec[t] /\ gen'[t] = gen[t]
    BY Zenon, <1>0, <1>3, FrugalPending
  <2>2. rec'[t] \in scanLive'
    BY Zenon DEF PendingGood
  <2>3. scanRec'[rec'[t]] = scanRec[rec'[t]]
    BY Zenon, <1>0, <1>3, <2>2, FrugalMemory
  <2>4. QED
    BY Zenon, <2>1, <2>3 DEF KnowsAt
<1>4. QED
  BY Zenon, <1>0, <1>1, <1>2, <1>3 DEF StepOf, Frugal, Call, Inserts

(* A step of the call itself: a failed update has its result before it     *)
(* unlinks the record, and a call that is about to free the replaced       *)
(* record has left what its result says.                                   *)
LEMMA KnowsOwn ==
  ASSUME CallInv, CallInv', PendingGood', NEW t \in Threads, StepOf(t), KnowsAt(t)
  PROVE  KnowsAt(t)'
<1> DEFINE New == pc'[t] \in {"scan_remove", "scan_free", "free_old"}
<1>0. t \in Procs /\ TypeOK /\ TypeOK' /\ OwnAt(t) /\ OpAt(t) /\ t # Unloader
  BY Zenon, CacheAssumption DEF Procs, CallInv, OwnerInv, RecordInv
<1>1. \A b : (Goto(t, b) \/ Leave(t, b)) => pc'[t] = b
  BY Zenon, <1>0, GotoFrame, LeaveFrame, TypeParts
<1>2. \A x : ret' = [ret EXCEPT ![t] = x] => ret'[t] = x
  BY Zenon, <1>0 DEF TypeOK
<1>3. ASSUME ret'[t] = "fail", pc'[t] = "scan_remove" PROVE KnowsAt(t)'
  BY Zenon, <1>3, GenStep DEF KnowsAt
<1>4. CASE ~New
  BY Zenon, <1>4, GenStep DEF KnowsAt
<1>5. CASE Call(t)
  BY Zenon, <1>1, <1>4, <1>5 DEF Call, CallInsertNoMem, CallInsert, CallRemove, Called, At
<1>6. CASE \/ Insert(t) \/ InsertDuplicate(t) \/ FindOld(t) \/ FindOldFails(t) \/ Replace(t)
           \/ FreeOld(t) \/ Find(t) \/ FindFails(t) \/ LruFind(t) \/ LruAlloc(t) \/ LruRemove(t)
  BY Zenon, <1>1, <1>4, <1>6 DEF Insert, InsertDuplicate, FindOld, FindOldFails, Replace, FreeOld,
     Find, FindFails, LruFind, LruAlloc, LruRemove, Return
<1>7. CASE LruAllocFails(t) \/ LruInsertDuplicate(t)
  BY Zenon, <1>1, <1>2, <1>3, <1>7 DEF LruAllocFails, LruInsertDuplicate
<1>8. CASE LruFindFails(t)
  <2>1. pc'[t] = "scan_remove" /\ UNCHANGED op
    BY Zenon, <1>1, <1>8 DEF LruFindFails, args
  <2>2. op[t] = "update" => ret'[t] = "fail"
    BY Zenon, <1>0, <1>8 DEF LruFindFails, TypeOK
  <2>3. QED
    BY Zenon, <2>1, <2>2, GenStep DEF KnowsAt
<1>9. CASE LruFree(t)
  <2>1. CASE op[t] = "update"
    BY Zenon, <1>1, <1>4, <1>9, <2>1 DEF LruFree
  <2>2. CASE op[t] # "update"
    <3>1. pc'[t] = "scan_remove" /\ op'[t] = op[t]
      BY Zenon, <1>0, <1>1, <1>9, <2>2 DEF LruFree, args, TypeOK, CallOps
    <3>2. QED
      BY Zenon, <2>2, <3>1, GenStep DEF KnowsAt
  <2>3. QED
    BY Zenon, <2>1, <2>2
<1>10. CASE ScanRemove(t)
  <2>1. pc[t] = "scan_remove" /\ pc'[t] = "scan_free" /\ UNCHANGED <<op, ret>>
    BY Zenon, <1>1, <1>10 DEF ScanRemove, At, args
  <2>2. QED
    BY Zenon, <2>1, GenStep DEF KnowsAt
<1>11. CASE LruInsert(t)
  <2>1. CASE op[t] # "update"
    BY Zenon, <1>1, <1>4, <1>11, <2>1 DEF LruInsert, Return
  <2>2. CASE op[t] = "update"
    <3>1. /\ pc[t] = "lru_insert" /\ pc'[t] = "free_old" /\ ret'[t] = "ok"
          /\ UNCHANGED <<scanRec, scanTree, file, gen>>
      BY Zenon, <1>1, <1>2, <1>11, <2>2 DEF LruInsert, At, scanVars, args
    <3>2. file[t] # NULL /\ Pending(t)
      BY Zenon, <1>0, <2>2, <3>1 DEF OwnAt, Loops, Pending
    <3>3. rec[t] \in scanTree /\ scanRec[rec[t]].file = file[t] /\ scanRec[rec[t]].gen = gen[t]
      BY Zenon, <1>0, <3>1, <3>2 DEF OwnAt, Replaced, KnowsAt
    <3>4. QED
      BY Zenon, <3>1, <3>3 DEF KnowsAt, Pending
  <2>3. QED
    BY Zenon, <2>1, <2>2
<1>12. CASE ScanFree(t)
  <2>1. CASE op[t] # "update"
    BY Zenon, <1>1, <1>4, <1>12, <2>1 DEF ScanFree, Return
  <2>2. CASE op[t] = "update"
    <3>1. /\ pc[t] = "scan_free" /\ pc'[t] = "free_old" /\ FreeScan(rec[t])
          /\ UNCHANGED <<scanTree, file, ret>>
      BY Zenon, <1>1, <1>12, <2>2 DEF ScanFree, At, args
    <3>2. ret[t] # "ok" /\ file[t] # NULL
      BY Zenon, <1>0, <2>2, <3>1 DEF KnowsAt, OwnAt, Loops
    <3>3. NoScan(file[t])
      BY Zenon, <1>0, <3>1, <3>2 DEF OwnAt
    <3>4. \A s \in scanTree : scanRec'[s] = scanRec[s] \/ scanRec'[s].file = NULL
      BY Zenon, <1>0, <3>1 DEF FreeScan, TypeOK, Blank
    <3>5. NoScan(file[t])'
      BY Zenon, <3>1, <3>2, <3>3, <3>4 DEF NoScan
    <3>6. QED
      BY Zenon, <3>1, <3>2, <3>5 DEF KnowsAt, Pending
  <2>3. QED
    BY Zenon, <2>1, <2>2
<1>13. QED
  BY Zenon, <1>0, <1>5, <1>6, <1>7, <1>8, <1>9, <1>10, <1>11, <1>12 DEF StepOf, Step, Removal

(* Calls keep what they know of their results. *)
LEMMA ResultStep ==
  ASSUME CallInv, CallInv', PendingGood', ResultInv, [Next]_vars
  PROVE  ResultInv'
<1>1. CASE UNCHANGED vars
  BY Zenon, <1>1 DEF vars, ResultInv, KnowsAt, Pending, NoScan
<1>2. ASSUME NEW p \in Procs, StepOf(p) PROVE ResultInv'
  BY Zenon, <1>2, KnowsOthers, KnowsOwn DEF ResultInv
<1>3. QED
  BY Zenon, <1>1, <1>2, Steps

-----------------------------------------------------------------------------
\* What the call of t returns is true of the trees.
Truthful(t) ==
    LET scans == {scanRec'[s] : s \in scanTree'}
        lrus  == {lruRec'[l] : l \in lruTree'}
    IN  IF op[t] # "remove" /\ ret'[t] = "ok"
        THEN \E r \in scans \cap lrus : r.file = file[t] /\ r.gen = gen[t]
        ELSE \A r \in scans \cup lrus : r.file = file[t] =>
                op[t] = "remove" /\ ret'[t] = "fail" /\ r.gen # gen[t]

(* A call is over by one of four steps. *)
LEMMA LastStep ==
  ASSUME CallInv, NEW p \in Procs, StepOf(p), NEW t \in Threads, pc[t] # "idle", pc'[t] = "idle"
  PROVE  p = t /\ (LruInsert(t) \/ ScanFree(t) \/ FreeOld(t) \/ FindFails(t))
<1>0. t \in Procs /\ TypeOK /\ t # Unloader
  BY Zenon, CacheAssumption DEF Procs, CallInv
<1>1. p = t
  <2>1. p # t => LocalSame(t)
    BY Zenon, <1>0, LocalStep DEF StepOf
  <2>2. QED
    BY Zenon, <2>1 DEF LocalSame
<1>2. \A b : Goto(t, b) => b = "idle"
  BY Zenon, <1>0, GotoFrame, TypeParts
<1>3. ~Call(t)
  BY Zenon DEF Call, CallInsertNoMem, CallInsert, CallRemove, Called, At
<1>4. ~FindOldFails(t)
  <2>1. ASSUME FindOldFails(t) PROVE FALSE
    <3>1. pc[t] = "find_old" /\ ScanNodes(scanRec[rec[t]].file) = {}
      BY Zenon, <2>1 DEF FindOldFails, At
    <3>2. OwnAt(t) /\ file[t] # NULL
      BY Zenon, <1>0, <3>1 DEF CallInv, OwnerInv, OwnAt, Loops, TypeOK, CallOps
    <3>3. scanRec[rec[t]].file = file[t] /\ ~NoScan(file[t])
      BY Zenon, <3>1, <3>2 DEF OwnAt
    <3>4. QED
      BY Zenon, <3>1, <3>3 DEF ScanNodes, NoScan
  <2>2. QED
    BY Zenon, <2>1
<1>5. ~(Insert(t) \/ InsertDuplicate(t) \/ FindOld(t) \/ Replace(t) \/ Find(t) \/ LruFind(t))
  BY Zenon, <1>2 DEF Insert, InsertDuplicate, FindOld, Replace, Find, LruFind
<1>6. ~(LruFindFails(t) \/ LruAlloc(t) \/ LruAllocFails(t) \/ LruInsertDuplicate(t))
  BY Zenon, <1>2 DEF LruFindFails, LruAlloc, LruAllocFails, LruInsertDuplicate
<1>7. ~(LruRemove(t) \/ ScanRemove(t))
  BY Zenon, <1>2 DEF LruRemove, ScanRemove
<1>8. ~LruFree(t)
  <2>1. op[t] # "purge"
    BY Zenon, <1>0 DEF TypeOK, CallOps
  <2>2. QED
    BY Zenon, <1>2, <2>1 DEF LruFree
<1>9. QED
  BY Zenon, <1>0, <1>1, <1>3, <1>4, <1>5, <1>6, <1>7, <1>8 DEF StepOf, Step, Removal

(* An insertion that linked its LRU record returns 0: both trees have it. *)
LEMMA InsertTruthful ==
  ASSUME CallInv, NEW t \in Threads, KnowsAt(t), LruInsert(t), pc'[t] = "idle"
  PROVE  Truthful(t)
<1>0. t \in Procs /\ TypeOK /\ OwnAt(t)
  BY Zenon DEF Procs, CallInv, OwnerInv
<1>1. \A b : Goto(t, b) => b = "idle"
  BY Zenon, <1>0, GotoFrame, TypeParts
<1>2. op[t] = "insert" /\ ret' = [ret EXCEPT ![t] = "ok"]
  BY Zenon, <1>1 DEF LruInsert, Return
<1>3. ret'[t] = "ok"
  BY Zenon, <1>0, <1>2 DEF TypeOK
<1>4. /\ pc[t] = "lru_insert" /\ UNCHANGED <<scanRec, scanTree, lruRec>>
      /\ lruTree' = lruTree \cup {lru[t]}
  BY Zenon DEF LruInsert, At, scanVars
<1>5. file[t] # NULL /\ Pending(t)
  BY Zenon, <1>0, <1>2, <1>4 DEF OwnAt, Loops, Pending
<1>6. /\ rec[t] \in scanTree /\ scanRec[rec[t]].file = file[t] /\ scanRec[rec[t]].gen = gen[t]
      /\ lruRec[lru[t]] = scanRec[rec[t]]
  BY Zenon, <1>0, <1>4, <1>5 DEF OwnAt, Replaced, KnowsAt
<1>7. /\ scanRec[rec[t]] \in {scanRec'[s] : s \in scanTree'}
      /\ scanRec[rec[t]] \in {lruRec'[l] : l \in lruTree'}
  BY Zenon, <1>4, <1>6
<1>8. QED
  BY Zenon, <1>2, <1>3, <1>6, <1>7 DEF Truthful

(* A failed insertion and a removal have freed the record of the file. *)
LEMMA FreeTruthful ==
  ASSUME CallInv, NEW t \in Threads, ScanFree(t), pc'[t] = "idle"
  PROVE  Truthful(t)
<1>0. t \in Procs /\ TypeOK /\ OwnAt(t)
  BY Zenon DEF Procs, CallInv, OwnerInv
<1>1. \A b : (Goto(t, b) \/ Leave(t, b)) => b = "idle"
  BY Zenon, <1>0, GotoFrame, LeaveFrame, TypeParts
<1>2. /\ op[t] \in {"insert", "remove"}
      /\ ret' = [ret EXCEPT ![t] = IF op[t] = "insert" THEN "fail" ELSE "ok"]
  BY Zenon, <1>1 DEF ScanFree, Return
<1>3. op[t] = "remove" \/ ret'[t] # "ok"
  BY Zenon, <1>0, <1>2 DEF TypeOK
<1>4. pc[t] = "scan_free" /\ FreeScan(rec[t]) /\ UNCHANGED <<scanTree, lruRec, lruTree>>
  BY Zenon DEF ScanFree, At, lruVars
<1>5. file[t] # NULL /\ NoScan(file[t]) /\ NoLru(file[t])
  BY Zenon, <1>0, <1>2, <1>4 DEF OwnAt, Loops
<1>6. \A s \in scanTree : scanRec'[s] = scanRec[s] \/ scanRec'[s].file = NULL
  BY Zenon, <1>0, <1>4 DEF FreeScan, TypeOK, Blank
<1>7. /\ \A r \in {scanRec'[s] : s \in scanTree'} : r.file # file[t]
      /\ \A r \in {lruRec'[l] : l \in lruTree'} : r.file # file[t]
  BY Zenon, <1>4, <1>5, <1>6 DEF NoScan, NoLru
<1>8. QED
  BY Zenon, <1>3, <1>7 DEF Truthful

(* A removal that finds no record of the generation leaves others alone. *)
LEMMA FindTruthful ==
  ASSUME CallInv, NEW t \in Threads, FindFails(t)
  PROVE  Truthful(t)
<1>0. t \in Procs /\ TypeOK /\ OwnAt(t) /\ OpAt(t)
  BY Zenon DEF Procs, CallInv, OwnerInv, RecordInv
<1>1. /\ pc[t] = "find" /\ ScanMatches(file[t], gen[t]) = {}
      /\ ret' = [ret EXCEPT ![t] = "fail"]
      /\ UNCHANGED <<scanRec, scanTree, lruRec, lruTree>>
  BY Zenon DEF FindFails, At, Return, scanVars, lruVars
<1>2. op[t] = "remove" /\ ret'[t] = "fail" /\ Matched(file[t])
  BY Zenon, <1>0, <1>1 DEF OpAt, OwnAt, Loops, TypeOK
<1>3. \A s \in scanTree : scanRec[s].file = file[t] => scanRec[s].gen # gen[t]
  BY Zenon, <1>1 DEF ScanMatches, ScanNodes
<1>4. \A l \in lruTree : lruRec[l].file = file[t] => lruRec[l].gen # gen[t]
  BY Zenon, <1>2, <1>3 DEF Matched
<1>5. \A r \in {scanRec'[s] : s \in scanTree'} \cup {lruRec'[l] : l \in lruTree'} :
         r.file = file[t] => r.gen # gen[t]
  BY Zenon, <1>1, <1>3, <1>4
<1>6. QED
  BY Zenon, <1>2, <1>5 DEF Truthful

(* An update has left the new record, or nothing, before it frees the old. *)
LEMMA UpdateTruthful ==
  ASSUME CallInv, NEW t \in Threads, KnowsAt(t), FreeOld(t)
  PROVE  Truthful(t)
<1>0. t \in Procs /\ TypeOK /\ OwnAt(t) /\ OpAt(t)
  BY Zenon DEF Procs, CallInv, OwnerInv, RecordInv
<1>1. /\ pc[t] = "free_old" /\ FreeScan(old[t]) /\ ret' = [ret EXCEPT ![t] = ret[t]]
      /\ UNCHANGED <<scanTree, lruRec, lruTree>>
  BY Zenon DEF FreeOld, At, Return, lruVars
<1>2. op[t] = "update" /\ file[t] # NULL /\ Matched(file[t]) /\ ret'[t] = ret[t]
  BY Zenon, <1>0, <1>1 DEF OpAt, OwnAt, Loops, TypeOK
<1>3. old[t] \notin scanTree /\ old[t] \in ScanIds
  <2>1. old[t] # NULL
    BY Zenon, <1>0, <1>1, <1>2 DEF OwnAt, Replaced
  <2>2. old[t] \in ScanIds /\ ScanClaim(t, old[t])
    BY Zenon, <1>0, <1>1, <1>2, <2>1 DEF TypeOK, ScanClaim, Replaced
  <2>3. QED
    BY Zenon, <1>0, <2>2 DEF CallInv, RecordInv, ScanRecordInv
<1>4. \A s \in scanTree : scanRec'[s] = scanRec[s]
  BY Zenon, <1>0, <1>1, <1>3 DEF FreeScan, TypeOK
<1>5. CASE ret[t] = "ok"
  <2>1. PICK s \in scanTree : scanRec[s].file = file[t] /\ scanRec[s].gen = gen[t]
    BY Zenon, <1>1, <1>5 DEF KnowsAt
  <2>2. PICK l \in lruTree : lruRec[l] = scanRec[s]
    BY Zenon, <1>2, <2>1 DEF Matched
  <2>3. /\ scanRec[s] \in {scanRec'[x] : x \in scanTree'}
        /\ scanRec[s] \in {lruRec'[x] : x \in lruTree'}
    BY Zenon, <1>1, <1>4, <2>1, <2>2
  <2>4. QED
    BY Zenon, <1>2, <1>5, <2>1, <2>3 DEF Truthful
<1>6. CASE ret[t] # "ok"
  <2>1. NoScan(file[t])
    BY Zenon, <1>1, <1>6 DEF KnowsAt
  <2>2. NoLru(file[t])
    BY Zenon, <1>2, <2>1 DEF NoScan, NoLru, Matched
  <2>3. /\ \A r \in {scanRec'[s] : s \in scanTree'} : r.file # file[t]
        /\ \A r \in {lruRec'[l] : l \in lruTree'} : r.file # file[t]
    BY Zenon, <1>1, <1>4, <2>1, <2>2 DEF NoScan, NoLru
  <2>4. QED
    BY Zenon, <1>2, <1>6, <2>3 DEF Truthful
<1>7. QED
  BY Zenon, <1>5, <1>6

(* When callers are serialised file by file, what insert and find_remove   *)
(* return is true of both trees when they return, after failed             *)
(* allocations, equal time stamps and updates included.                    *)
THEOREM CallsTellTheTruth ==
  ASSUME Exclusive
  PROVE  Spec => ResultsAreTrue
<1>1. Init => ResultInv
  BY Zenon DEF Init, ResultInv, KnowsAt, Pending, Procs
<1>2. CallInv /\ CallInv' /\ PendingGood' /\ ResultInv /\ [Next]_vars => ResultInv'
  BY Zenon, ResultStep
<1>3. ASSUME CallInv, ResultInv, [Next]_vars, NEW t \in Threads, pc[t] # "idle", pc'[t] = "idle"
      PROVE  Truthful(t)
  <2>1. CASE UNCHANGED vars
    BY Zenon, <1>3, <2>1 DEF vars
  <2>2. ASSUME NEW p \in Procs, StepOf(p) PROVE Truthful(t)
    <3>1. LruInsert(t) \/ ScanFree(t) \/ FreeOld(t) \/ FindFails(t)
      BY Zenon, <1>3, <2>2, LastStep
    <3>2. QED
      BY Zenon, <1>3, <3>1, InsertTruthful, FreeTruthful, FindTruthful, UpdateTruthful DEF ResultInv
  <2>3. QED
    BY Zenon, <1>3, <2>1, <2>2, Steps
<1>4. CallInv /\ ResultInv /\ [Next]_vars =>
         [\A t \in Threads : pc[t] # "idle" /\ pc'[t] = "idle" =>
             LET scans == {scanRec'[s] : s \in scanTree'}
                 lrus  == {lruRec'[l] : l \in lruTree'}
             IN  IF op[t] # "remove" /\ ret'[t] = "ok"
                 THEN \E r \in scans \cap lrus : r.file = file[t] /\ r.gen = gen[t]
                 ELSE \A r \in scans \cup lrus : r.file = file[t] =>
                         op[t] = "remove" /\ ret'[t] = "fail" /\ r.gen # gen[t]]_vars
  BY Zenon, <1>3 DEF Truthful
<1>5. QED
  BY <1>1, <1>2, <1>4, PendingFacts, CallInvariant, PTL DEF Spec, ResultsAreTrue
=============================================================================
