---------------------------- MODULE ListTheorems ----------------------------
(***************************************************************************)
(* The invariant of ListUse: the list in memory is the caller's list and   *)
(* every loop is in step with it, for any set of entries.                  *)
(***************************************************************************)
EXTENDS ListUse, ListProofs

\* Only the families without back pointers search, and only two run backwards.
SearchingKind == /\ mode = "remove" => kind \in {"SLIST", "STAILQ"}
                 /\ mode = "reverse" => kind \in {"TAILQ", "CIRCLEQ"}

ListInv == TypeOK /\ ListIsChained /\ LoopsAreInStep /\ SearchingKind

\* An empty list of any family is the chain of no entries.
LEMMA EmptyIsChained ==
  ASSUME NEW k \in Kinds
  PROVE  Empty(k) \in Memory /\ Chained(k, Empty(k), <<>>)
<1>1. /\ Empty(k) \in Memory
      /\ Empty(k).next[ListHead] = End(k)
      /\ HasTail(k) => Empty(k).prev[ListHead] = ListHead
  BY QueueAssumption DEF Empty, SLIST_INIT, STAILQ_INIT, DLIST_INIT, TAILQ_INIT,
       CIRCLEQ_INIT, Kinds, Memory, Cells, Words, End, HasTail
<1> QED
  BY <1>1 DEF Chained, Node

\* Every state the program starts in satisfies the invariant.
LEMMA ListInitInv == Init => ListInv
<1> SUFFICES ASSUME Init PROVE ListInv
  OBVIOUS
<1>1. TypeOK
  BY EmptyIsChained DEF Init, TypeOK, Words
<1>2. ListIsChained
  BY EmptyIsChained DEF Init, ListIsChained
<1> QED
  BY <1>1, <1>2 DEF ListInv, LoopsAreInStep, SearchingKind, Init

\* A macro that puts an entry in keeps the invariant.
LEMMA InsertKeeps ==
  ASSUME ListInv, Idle, NEW e \in Elems, e \notin Linked(q), NEW i \in 0..Len(q),
         mem' \in Memory, PutsAfter(kind, mem, q, i, e, mem'), q' = InsertedAfter(q, i, e)
  PROVE  ListInv'
<1>1. kind \in Kinds /\ mem \in Memory /\ q \in Seq(Elems) /\ Chained(kind, mem, q)
  BY DEF ListInv, TypeOK, ListIsChained
<1>2. Chained(kind, mem', q') /\ q' \in Seq(Elems)
  BY <1>1, ChainInsert, InsertFacts
<1>3. TypeOK' /\ ListIsChained'
  BY <1>2 DEF ListInv, TypeOK, ListIsChained, Idle
<1> QED
  BY <1>3 DEF ListInv, LoopsAreInStep, SearchingKind, Idle

\* A macro that takes entries out keeps the invariant.
LEMMA RemoveKeeps ==
  ASSUME ListInv, NEW i \in 1..Len(q), NEW n \in 1..Len(q) - i + 1, mem' \in Memory,
         TakesOut(kind, mem, q, i, n, mem'), q' = Without(q, i, n),
         kind' = kind, mode' = "idle", cur' \in Words,
         target' \in Elems \cup {NULL}, at' \in Nat
  PROVE  ListInv'
<1>1. kind \in Kinds /\ mem \in Memory /\ q \in Seq(Elems) /\ Chained(kind, mem, q)
  BY DEF ListInv, TypeOK, ListIsChained
<1>2. Chained(kind, mem', q') /\ q' \in Seq(Elems)
  BY <1>1, ChainRemove, WithoutFacts
<1>3. TypeOK' /\ ListIsChained'
  BY <1>1, <1>2 DEF TypeOK, ListIsChained
<1> QED
  BY <1>3 DEF ListInv, LoopsAreInStep, SearchingKind

\* A step of a loop leaves the list alone.
LEMMA LoopKeeps ==
  ASSUME ListInv, UNCHANGED <<kind, mem, q>>, mode' \in {"idle", "remove", "forward", "reverse"},
         cur' \in Words, target' \in Elems \cup {NULL}, at' \in Nat, LoopsAreInStep', SearchingKind'
  PROVE  ListInv'
BY DEF ListInv, TypeOK, ListIsChained

-----------------------------------------------------------------------------
\* *_INSERT_HEAD of the five families.
LEMMA InsertHeadKeeps ==
  ASSUME ListInv, NEW e \in Elems, InsertHead(e)
  PROVE  ListInv'
<1>1. /\ kind \in Kinds /\ mem \in Memory /\ q \in Seq(Elems) /\ Chained(kind, mem, q)
      /\ e \notin Linked(q) /\ Idle /\ q' = InsertedAfter(q, 0, e) /\ 0 \in 0..Len(q)
  BY DEF ListInv, TypeOK, ListIsChained, InsertHead
<1>2. Node(kind, q, 0) = ListHead
  BY DEF Node
<1>3. mem' \in Memory /\ PutsAfter(kind, mem, q, 0, e, mem')
  <2>1. CASE kind = "SLIST"
    <3>1. mem' = SLIST_INSERT_AFTER(mem, Node(kind, q, 0), e)
      BY <1>2, <2>1 DEF InsertHead, SLIST_INSERT_HEAD
    <3> QED
      BY <1>1, <2>1, <3>1, SlistInsert
  <2>2. CASE kind = "STAILQ"
    <3>1. mem' = STAILQ_INSERT_AFTER(mem, Node(kind, q, 0), e)
      BY <1>2, <2>2 DEF InsertHead, STAILQ_INSERT_HEAD
    <3> QED
      BY <1>1, <2>2, <3>1, StailqInsert
  <2>3. CASE kind = "DLIST"
    <3>1. mem' = DLIST_INSERT_AFTER(mem, Node(kind, q, 0), e)
      BY <1>2, <2>3 DEF InsertHead, DLIST_INSERT_HEAD
    <3> QED
      BY <1>1, <2>3, <3>1, DlistInsert
  <2>4. CASE kind = "TAILQ"
    <3>1. mem' = TAILQ_INSERT_AFTER(mem, Node(kind, q, 0), e)
      BY <1>2, <2>4 DEF InsertHead, TAILQ_INSERT_HEAD
    <3> QED
      BY <1>1, <2>4, <3>1, TailqInsert
  <2>5. CASE kind = "CIRCLEQ"
    <3>1. mem' = CIRCLEQ_INSERT_HEAD(mem, e)
      BY <2>5 DEF InsertHead
    <3> DEFINE c == Node("CIRCLEQ", q, 0)
               x == Node("CIRCLEQ", q, 0 + 1)
               m2 == [next |-> [mem.next EXCEPT ![e] = x, ![c] = e],
                      prev |-> [mem.prev EXCEPT ![e] = c, ![x] = e]]
    <3>2. /\ m2 \in Memory /\ PutsAfter("CIRCLEQ", mem, q, 0, e, m2)
          /\ m2 = CIRCLEQ_INSERT_HEAD(mem, e)
      BY <1>1, <2>5, CircleqInsert, ZenonT(60)
    <3> QED
      BY <2>5, <3>1, <3>2, Zenon
  <2> QED
    BY <1>1, <2>1, <2>2, <2>3, <2>4, <2>5 DEF Kinds
<1> QED
  BY <1>1, <1>3, InsertKeeps

\* *_INSERT_TAIL of the three families with a last pointer.
LEMMA InsertTailKeeps ==
  ASSUME ListInv, NEW e \in Elems, InsertTail(e)
  PROVE  ListInv'
<1>1. /\ kind \in Kinds /\ mem \in Memory /\ q \in Seq(Elems) /\ Chained(kind, mem, q)
      /\ e \notin Linked(q) /\ Idle /\ q' = InsertedAfter(q, Len(q), e)
      /\ Len(q) \in 0..Len(q) /\ HasTail(kind)
  BY DEF ListInv, TypeOK, ListIsChained, InsertTail
<1>2. mem' \in Memory /\ PutsAfter(kind, mem, q, Len(q), e, mem')
  <2>1. CASE kind = "STAILQ"
    <3>1. mem' = STAILQ_INSERT_TAIL(mem, e)
      BY <2>1 DEF InsertTail
    <3> QED
      BY <1>1, <2>1, <3>1, StailqInsertTail
  <2>2. CASE kind = "TAILQ"
    <3>1. mem' = TAILQ_INSERT_TAIL(mem, e)
      BY <2>2 DEF InsertTail
    <3> QED
      BY <1>1, <2>2, <3>1, TailqInsertTail
  <2>3. CASE kind = "CIRCLEQ"
    <3>1. mem' = CIRCLEQ_INSERT_TAIL(mem, e)
      BY <2>3 DEF InsertTail
    <3> DEFINE c == Node("CIRCLEQ", q, Len(q))
               x == Node("CIRCLEQ", q, Len(q) + 1)
               m2 == [next |-> [mem.next EXCEPT ![e] = x, ![c] = e],
                      prev |-> [mem.prev EXCEPT ![e] = c, ![x] = e]]
    <3>2. /\ m2 \in Memory /\ PutsAfter("CIRCLEQ", mem, q, Len(q), e, m2)
          /\ m2 = CIRCLEQ_INSERT_TAIL(mem, e)
      BY <1>1, <2>3, CircleqInsert, ZenonT(60)
    <3> QED
      BY <2>3, <3>1, <3>2, Zenon
  <2> QED
    BY <1>1, <2>1, <2>2, <2>3 DEF HasTail
<1> QED
  BY <1>1, <1>2, InsertKeeps

\* *_INSERT_AFTER of the five families.
LEMMA InsertAfterKeeps ==
  ASSUME ListInv, NEW i \in 1..Len(q), NEW e \in Elems, InsertAfter(i, e)
  PROVE  ListInv'
<1>1. /\ kind \in Kinds /\ mem \in Memory /\ q \in Seq(Elems) /\ Chained(kind, mem, q)
      /\ e \notin Linked(q) /\ Idle /\ q' = InsertedAfter(q, i, e)
      /\ i \in 0..Len(q) /\ i # 0
  BY DEF ListInv, TypeOK, ListIsChained, InsertAfter
<1>2. Node(kind, q, i) = q[i]
  BY <1>1, NodeFacts
<1>3. mem' \in Memory /\ PutsAfter(kind, mem, q, i, e, mem')
  <2>1. CASE kind = "SLIST"
    <3>1. mem' = SLIST_INSERT_AFTER(mem, Node(kind, q, i), e)
      BY <1>2, <2>1 DEF InsertAfter
    <3> QED
      BY <1>1, <2>1, <3>1, SlistInsert
  <2>2. CASE kind = "STAILQ"
    <3>1. mem' = STAILQ_INSERT_AFTER(mem, Node(kind, q, i), e)
      BY <1>2, <2>2 DEF InsertAfter
    <3> QED
      BY <1>1, <2>2, <3>1, StailqInsert
  <2>3. CASE kind = "DLIST"
    <3>1. mem' = DLIST_INSERT_AFTER(mem, Node(kind, q, i), e)
      BY <1>2, <2>3 DEF InsertAfter
    <3> QED
      BY <1>1, <2>3, <3>1, DlistInsert
  <2>4. CASE kind = "TAILQ"
    <3>1. mem' = TAILQ_INSERT_AFTER(mem, Node(kind, q, i), e)
      BY <1>2, <2>4 DEF InsertAfter
    <3> QED
      BY <1>1, <2>4, <3>1, TailqInsert
  <2>5. CASE kind = "CIRCLEQ"
    <3>1. mem' = CIRCLEQ_INSERT_AFTER(mem, Node(kind, q, i), e)
      BY <1>2, <2>5 DEF InsertAfter
    <3> DEFINE c == Node("CIRCLEQ", q, i)
               x == Node("CIRCLEQ", q, i + 1)
               m2 == [next |-> [mem.next EXCEPT ![e] = x, ![c] = e],
                      prev |-> [mem.prev EXCEPT ![e] = c, ![x] = e]]
    <3>2. /\ m2 \in Memory /\ PutsAfter("CIRCLEQ", mem, q, i, e, m2)
          /\ m2 = CIRCLEQ_INSERT_AFTER(mem, c, e)
      BY <1>1, <2>5, CircleqInsert, ZenonT(60)
    <3> QED
      BY <2>5, <3>1, <3>2, Zenon
  <2> QED
    BY <1>1, <2>1, <2>2, <2>3, <2>4, <2>5 DEF Kinds
<1> QED
  BY <1>1, <1>3, InsertKeeps

\* *_INSERT_BEFORE of the three families with back pointers.
LEMMA InsertBeforeKeeps ==
  ASSUME ListInv, NEW i \in 1..Len(q), NEW e \in Elems, InsertBefore(i, e)
  PROVE  ListInv'
<1>1. /\ kind \in Kinds /\ mem \in Memory /\ q \in Seq(Elems) /\ Chained(kind, mem, q)
      /\ e \notin Linked(q) /\ Idle /\ q' = InsertedAfter(q, i - 1, e)
      /\ i - 1 \in 0..Len(q) /\ i - 1 # Len(q) /\ (i - 1) + 1 = i /\ HasBack(kind)
  BY DEF ListInv, TypeOK, ListIsChained, InsertBefore
<1>2. Node(kind, q, i) = q[i]
  BY <1>1, NodeFacts
<1>3. mem' \in Memory /\ PutsAfter(kind, mem, q, i - 1, e, mem')
  <2>1. CASE kind \in {"DLIST", "TAILQ"}
    <3>1. mem' = DLIST_INSERT_BEFORE(mem, Node(kind, q, i), e)
      BY <1>2, <2>1 DEF InsertBefore, TAILQ_INSERT_BEFORE
    <3> QED
      BY <1>1, <2>1, <3>1, InsertBeforeEntry
  <2>2. CASE kind = "CIRCLEQ"
    <3>1. mem' = CIRCLEQ_INSERT_BEFORE(mem, Node(kind, q, (i - 1) + 1), e)
      BY <1>1, <1>2, <2>2 DEF InsertBefore
    <3> DEFINE c == Node("CIRCLEQ", q, i - 1)
               x == Node("CIRCLEQ", q, (i - 1) + 1)
               m2 == [next |-> [mem.next EXCEPT ![e] = x, ![c] = e],
                      prev |-> [mem.prev EXCEPT ![e] = c, ![x] = e]]
    <3>2. /\ m2 \in Memory /\ PutsAfter("CIRCLEQ", mem, q, i - 1, e, m2)
          /\ m2 = CIRCLEQ_INSERT_BEFORE(mem, x, e)
      BY <1>1, <2>2, CircleqInsert, ZenonT(60)
    <3> QED
      BY <2>2, <3>1, <3>2, Zenon
  <2> QED
    BY <1>1, <2>1, <2>2 DEF HasBack
<1> QED
  BY <1>1, <1>3, InsertKeeps

\* *_REMOVE of the three families with back pointers.
LEMMA RemoveEntryKeeps ==
  ASSUME ListInv, NEW i \in 1..Len(q), Remove(i)
  PROVE  ListInv'
<1>1. /\ kind \in Kinds /\ mem \in Memory /\ q \in Seq(Elems) /\ Chained(kind, mem, q)
      /\ Idle /\ q' = Without(q, i, 1) /\ HasBack(kind) /\ 1 \in 1..Len(q) - i + 1
      /\ cur \in Words /\ target \in Elems \cup {NULL} /\ at \in Nat
  BY DEF ListInv, TypeOK, ListIsChained, Remove
<1>2. Node(kind, q, i) = q[i]
  BY <1>1, NodeFacts
<1>3. mem' \in Memory /\ TakesOut(kind, mem, q, i, 1, mem')
  BY <1>1, <1>2, DoubleRemove DEF Remove
<1> QED
  BY <1>1, <1>3, RemoveKeeps DEF Idle

\* *_REMOVE_HEAD and STAILQ_REMOVE_HEAD_UNTIL.
LEMMA RemoveHeadKeeps ==
  ASSUME ListInv, RemoveHead \/ \E i \in 1..Len(q) : RemoveHeadUntil(i)
  PROVE  ListInv'
<1>1. /\ kind \in Kinds /\ mem \in Memory /\ q \in Seq(Elems) /\ Chained(kind, mem, q)
      /\ cur \in Words /\ target \in Elems \cup {NULL} /\ at \in Nat /\ Idle
  BY DEF ListInv, TypeOK, ListIsChained, RemoveHead, RemoveHeadUntil
<1>2. Node(kind, q, 0) = ListHead /\ 0 \in 0..Len(q) /\ 1 - 1 = 0
  BY <1>1 DEF Node
<1>3. CASE RemoveHead
  <2>1. /\ 1 \in 1..Len(q) /\ 1 \in 0..Len(q) /\ 1 \in 1..Len(q) - 1 + 1
        /\ q' = Without(q, 1, 1)
    BY <1>1, <1>3, EmptySeq DEF RemoveHead
  <2>2. mem.next[mem.next[ListHead]] = Node(kind, q, 1 + 1)
    BY <1>1, <1>2, <2>1, CellFacts
  <2>3. mem' \in Memory /\ TakesOut(kind, mem, q, 1, 1, mem')
    <3>1. CASE kind = "SLIST"
      <4>1. mem' = SLIST_REMOVE_AFTER(mem, Node(kind, q, 1 - 1))
        BY <1>2, <1>3, <3>1 DEF RemoveHead, SLIST_REMOVE_HEAD, SLIST_REMOVE_AFTER
      <4> QED
        BY <1>1, <2>1, <3>1, <4>1, SlistRemove
    <3>2. CASE kind = "STAILQ"
      <4>1. mem' = STAILQ_CUT(mem, Node(kind, q, 1 - 1), Node(kind, q, 1 + 1))
        BY <1>2, <1>3, <2>2, <3>2 DEF RemoveHead, STAILQ_REMOVE_HEAD
      <4> QED
        BY <1>1, <2>1, <3>2, <4>1, StailqCut
    <3> QED
      BY <1>1, <1>3, <3>1, <3>2 DEF RemoveHead, HasBack, Kinds
  <2> QED
    BY <1>1, <2>1, <2>3, RemoveKeeps DEF Idle
<1>4. ASSUME NEW i \in 1..Len(q), RemoveHeadUntil(i)
      PROVE  ListInv'
  <2>1. /\ 1 \in 1..Len(q) /\ i \in 0..Len(q) /\ i \in 1..Len(q) - 1 + 1 /\ 1 + i = i + 1
        /\ q' = Without(q, 1, i) /\ kind = "STAILQ"
    BY <1>1, <1>4 DEF RemoveHeadUntil
  <2>2. mem.next[q[i]] = Node(kind, q, 1 + i)
    BY <1>1, <2>1, CellFacts, NodeFacts
  <2>3. mem' = STAILQ_CUT(mem, Node(kind, q, 1 - 1), Node(kind, q, 1 + i))
    BY <1>2, <1>4, <2>2 DEF RemoveHeadUntil, STAILQ_REMOVE_HEAD_UNTIL
  <2>4. mem' \in Memory /\ TakesOut(kind, mem, q, 1, i, mem')
    BY <1>1, <2>1, <2>3, StailqCut
  <2> QED
    BY <1>1, <2>1, <2>4, RemoveKeeps DEF Idle
<1> QED
  BY <1>3, <1>4

\* The search of SLIST_REMOVE and STAILQ_REMOVE and the removal at its end.
LEMMA SearchKeeps ==
  ASSUME ListInv,
         RemoveSearch \/ RemoveFound \/ \E i \in 1..Len(q) : RemoveStart(i)
  PROVE  ListInv'
<1>1. /\ kind \in Kinds /\ mem \in Memory /\ q \in Seq(Elems) /\ Chained(kind, mem, q)
      /\ TypeOK /\ LoopsAreInStep /\ Len(q) \in Nat
  BY DEF ListInv, TypeOK, ListIsChained
<1>2. \A i \in 1..Len(q) : q[i] \in Elems /\ Node(kind, q, i) = q[i]
  BY <1>1, NodeFacts
<1>3. \A i \in 0..Len(q) : mem.next[Node(kind, q, i)] = Node(kind, q, i + 1)
  BY <1>1 DEF Chained
<1>4. \A i, j \in 1..Len(q) : q[i] = q[j] => i = j
  BY <1>1 DEF Chained
<1>5. Elems \subseteq Words /\ NULL \in Words
  BY DEF Words, Cells
<1>6. ASSUME NEW i \in 1..Len(q), RemoveStart(i)
      PROVE  ListInv'
  <2>1. mem.next[ListHead] = q[1]
    <3>1. 0 \in 0..Len(q) /\ 1 \in 1..Len(q) /\ 0 + 1 = 1 /\ Node(kind, q, 0) = ListHead
      BY <1>1 DEF Node
    <3> QED
      BY <1>2, <1>3, <3>1
  <2>2. q[1] # q[i] /\ 1 \in 1..Len(q) - 1 /\ i \in 1 + 1..Len(q)
    BY <1>1, <1>6, <2>1 DEF RemoveStart
  <2>3. LoopsAreInStep'
    BY <1>6, <2>1, <2>2 DEF LoopsAreInStep, RemoveStart
  <2>9. SearchingKind'
    BY <1>6 DEF RemoveStart, SearchingKind, ListInv, HasBack, TypeOK, Kinds
  <2> QED
    BY <1>1, <1>2, <1>5, <1>6, <2>1, <2>2, <2>3, <2>9, LoopKeeps DEF RemoveStart
<1>7. CASE RemoveSearch
  <2>1. at \in 1..Len(q) - 1 /\ cur = q[at]
    BY <1>1, <1>7 DEF LoopsAreInStep, RemoveSearch
  <2>2. PICK i \in at + 1..Len(q) : target = q[i]
    BY <1>1, <1>7 DEF LoopsAreInStep, RemoveSearch
  <2>3. mem.next[cur] = q[at + 1]
    BY SMTT(30), <1>1, <1>2, <1>3, <2>1
  <2>4. i # at + 1
    BY <1>7, <2>2, <2>3 DEF RemoveSearch
  <2>5. at + 1 \in 1..Len(q) - 1 /\ i \in (at + 1) + 1..Len(q) /\ at + 1 \in 1..Len(q)
    BY <1>1, <2>1, <2>2, <2>4
  <2>6. LoopsAreInStep'
    BY <1>7, <2>2, <2>3, <2>5 DEF LoopsAreInStep, RemoveSearch
  <2>9. SearchingKind'
    BY <1>7 DEF RemoveSearch, SearchingKind, ListInv, HasBack, TypeOK, Kinds
  <2> QED
    BY <1>1, <1>2, <1>5, <1>7, <2>3, <2>5, <2>6, <2>9, LoopKeeps DEF RemoveSearch, TypeOK
<1>8. CASE RemoveFound
  <2>1. at \in 1..Len(q) - 1 /\ cur = q[at]
    BY <1>1, <1>8 DEF LoopsAreInStep, RemoveFound
  <2>2. /\ at + 1 \in 1..Len(q) /\ 1 \in 1..Len(q) - (at + 1) + 1 /\ (at + 1) - 1 = at
        /\ at \in 1..Len(q) /\ at \in 0..Len(q) /\ at + 1 \in 0..Len(q)
    BY <1>1, <2>1
  <2>3. mem.next[mem.next[cur]] = Node(kind, q, (at + 1) + 1)
    BY <1>2, <1>3, <2>1, <2>2
  <2>4. mem' \in Memory /\ TakesOut(kind, mem, q, at + 1, 1, mem')
    <3>1. CASE kind = "SLIST"
      <4>1. mem' = SLIST_REMOVE_AFTER(mem, Node(kind, q, (at + 1) - 1))
        BY <1>2, <1>8, <2>1, <2>2, <3>1 DEF RemoveFound
      <4> QED
        BY <1>1, <2>2, <3>1, <4>1, SlistRemove
    <3>2. CASE kind = "STAILQ"
      <4>1. mem' = STAILQ_CUT(mem, Node(kind, q, (at + 1) - 1), Node(kind, q, (at + 1) + 1))
        BY <1>2, <1>8, <2>1, <2>2, <2>3, <3>2 DEF RemoveFound, STAILQ_REMOVE_AFTER
      <4> QED
        BY <1>1, <2>2, <3>2, <4>1, StailqCut
    <3>3. kind \in {"SLIST", "STAILQ"}
      BY <1>8 DEF RemoveFound, ListInv, SearchingKind
    <3> QED
      BY <3>1, <3>2, <3>3
  <2>5. q' = Without(q, at + 1, 1)
    BY <1>8 DEF RemoveFound
  <2> QED
    BY <1>5, <1>8, <2>2, <2>4, <2>5, RemoveKeeps DEF RemoveFound
<1> QED
  BY <1>6, <1>7, <1>8

\* The loops that visit the list.
LEMMA ForeachKeeps ==
  ASSUME ListInv,
         ForeachStart \/ ForeachNext \/ ReverseStart \/ ReverseNext \/ ForeachEnd
  PROVE  ListInv'
<1>1. /\ kind \in Kinds /\ mem \in Memory /\ q \in Seq(Elems) /\ Chained(kind, mem, q)
      /\ TypeOK /\ LoopsAreInStep /\ Len(q) \in Nat
  BY DEF ListInv, TypeOK, ListIsChained
<1>2. /\ \A i \in 0..Len(q) : mem.next[Node(kind, q, i)] = Node(kind, q, i + 1)
      /\ HasBack(kind) => \A i \in 1..Len(q) : mem.prev[Node(kind, q, i)] = Node(kind, q, i - 1)
      /\ HasTail(kind) => mem.prev[ListHead] = Node(kind, q, Len(q))
  BY <1>1 DEF Chained
<1>3. /\ \A i \in 1..Len(q) : q[i] \in Elems /\ Node(kind, q, i) = q[i]
      /\ \A i \in 0..Len(q) + 1 : Node(kind, q, i) \in Words
      /\ Node(kind, q, 0) = ListHead
      /\ Node(kind, q, Len(q) + 1) = End(kind)
      /\ End(kind) \in Words
  BY <1>1, NodeFacts
<1>4. CASE ForeachStart
  <2>1. mem.next[ListHead] = Node(kind, q, 1) /\ 1 \in 0..Len(q) + 1 /\ 1 \in 1..Len(q) + 1
    <3>1. 0 \in 0..Len(q) /\ 0 + 1 = 1 /\ 1 \in 0..Len(q) + 1 /\ 1 \in 1..Len(q) + 1
      BY <1>1
    <3> QED
      BY <1>2, <1>3, <3>1
  <2>2. LoopsAreInStep'
    BY <1>4, <2>1 DEF LoopsAreInStep, ForeachStart
  <2>9. SearchingKind'
    BY <1>4 DEF ForeachStart, SearchingKind, ListInv
  <2> QED
    BY <1>1, <1>3, <1>4, <2>1, <2>2, <2>9, LoopKeeps DEF ForeachStart, TypeOK
<1>5. CASE ForeachNext
  <2>1. at \in 1..Len(q) + 1 /\ cur = Node(kind, q, at)
    BY <1>1, <1>5 DEF LoopsAreInStep, ForeachNext
  <2>2. at # Len(q) + 1
    BY <1>3, <1>5, <2>1 DEF ForeachNext
  <2>3. /\ mem.next[cur] = Node(kind, q, at + 1)
        /\ at + 1 \in 1..Len(q) + 1 /\ at + 1 \in 0..Len(q) + 1 /\ at + 1 \in Nat
    BY <1>1, <1>2, <2>1, <2>2
  <2>4. LoopsAreInStep'
    BY <1>5, <2>3 DEF LoopsAreInStep, ForeachNext
  <2>9. SearchingKind'
    BY <1>5 DEF ForeachNext, SearchingKind, ListInv
  <2> QED
    BY <1>1, <1>3, <1>5, <2>3, <2>4, <2>9, LoopKeeps DEF ForeachNext, TypeOK
<1>6. \A i \in 0..Len(q) : Behind(kind, q, i) \in Words
  BY <1>3 DEF Behind, Words, Cells
\* TAILQ_LAST, when c is the last cell, and TAILQ_PREV of an entry, when c is
\* the cell before it.
<1>7. ASSUME kind = "TAILQ", NEW i \in 0..Len(q), NEW c, c = Node(kind, q, i)
      PROVE  mem.next[mem.prev[c]] = Behind(kind, q, i)
  <2>1. HasBack(kind) /\ HasTail(kind)
    BY <1>7 DEF HasBack, HasTail
  <2>2. CASE i = 0
    <3>1. mem.prev[c] = Node(kind, q, Len(q)) /\ Len(q) \in 0..Len(q)
      BY <1>1, <1>2, <1>3, <1>7, <2>1, <2>2
    <3> QED
      BY <1>2, <1>3, <2>2, <3>1 DEF Behind
  <2>3. CASE i # 0
    <3>1. mem.prev[c] = Node(kind, q, i - 1) /\ i - 1 \in 0..Len(q) /\ (i - 1) + 1 = i
      BY <1>1, <1>2, <1>7, <2>1, <2>3
    <3>2. mem.next[mem.prev[c]] = Node(kind, q, i)
      BY <1>2, <3>1
    <3> QED
      BY <1>3, <2>3, <3>2 DEF Behind
  <2> QED
    BY <2>2, <2>3
<1>8. CASE ReverseStart
  <2>1. Len(q) \in 0..Len(q) /\ cur' = Behind(kind, q, Len(q))
    <3>1. HasTail(kind) /\ HasBack(kind) /\ Len(q) \in 0..Len(q)
      BY <1>1, <1>8 DEF ReverseStart, HasTail, HasBack
    <3>2. mem.prev[ListHead] = Node(kind, q, Len(q))
      BY <1>2, <3>1
    <3>3. CASE kind = "TAILQ"
      BY <1>7, <1>8, <3>1, <3>2, <3>3 DEF ReverseStart, TAILQ_LAST
    <3>4. CASE kind = "CIRCLEQ"
      BY <1>3, <1>8, <3>1, <3>2, <3>4 DEF ReverseStart, Behind, End
    <3> QED
      BY <1>8, <3>1, <3>3, <3>4 DEF ReverseStart
  <2>2. LoopsAreInStep'
    BY <1>8, <2>1 DEF LoopsAreInStep, ReverseStart
  <2>9. SearchingKind'
    BY <1>8 DEF ReverseStart, SearchingKind, ListInv
  <2> QED
    BY <1>1, <1>6, <1>8, <2>1, <2>2, <2>9, LoopKeeps DEF ReverseStart, TypeOK
<1>9. CASE ReverseNext
  <2>1. at \in 0..Len(q) /\ cur = Behind(kind, q, at)
    BY <1>1, <1>9 DEF LoopsAreInStep, ReverseNext
  <2>2. at # 0 /\ cur = q[at]
    BY <1>9, <2>1 DEF ReverseNext, Behind
  <2>3. at \in 1..Len(q) /\ at - 1 \in 0..Len(q) /\ at - 1 \in Nat
    BY <1>1, <2>1, <2>2
  <2>4. cur' = Behind(kind, q, at - 1)
    <3>1. HasBack(kind) /\ kind \in {"TAILQ", "CIRCLEQ"}
      BY <1>9 DEF ReverseNext, ListInv, SearchingKind, HasBack
    <3>2. mem.prev[cur] = Node(kind, q, at - 1)
      BY <1>2, <1>3, <2>2, <2>3, <3>1
    <3>3. CASE kind = "TAILQ"
      BY <1>7, <1>9, <2>3, <3>2, <3>3 DEF ReverseNext, TAILQ_PREV
    <3>4. CASE kind = "CIRCLEQ"
      BY <1>3, <1>9, <2>3, <3>2, <3>4 DEF ReverseNext, Behind, End
    <3> QED
      BY <3>1, <3>3, <3>4
  <2>5. LoopsAreInStep'
    BY <1>9, <2>3, <2>4 DEF LoopsAreInStep, ReverseNext
  <2>9. SearchingKind'
    BY <1>9 DEF ReverseNext, SearchingKind, ListInv
  <2> QED
    BY <1>1, <1>6, <1>9, <2>3, <2>4, <2>5, <2>9, LoopKeeps DEF ReverseNext, TypeOK
<1>10. CASE ForeachEnd
  <2>1. LoopsAreInStep'
    BY <1>10 DEF LoopsAreInStep, ForeachEnd
  <2>9. SearchingKind'
    BY <1>10 DEF ForeachEnd, SearchingKind, ListInv
  <2> QED
    BY <1>1, <1>10, <2>1, <2>9, LoopKeeps DEF ForeachEnd, TypeOK, Words
<1> QED
  BY <1>4, <1>5, <1>8, <1>9, <1>10

-----------------------------------------------------------------------------
\* Every step keeps the invariant.
LEMMA ListNextInv == ListInv /\ [Next]_vars => ListInv'
<1> SUFFICES ASSUME ListInv, [Next]_vars PROVE ListInv'
  OBVIOUS
<1>1. CASE \E e \in Elems : InsertHead(e) \/ InsertTail(e)
  BY <1>1, InsertHeadKeeps, InsertTailKeeps
<1>2. CASE \E i \in 1..Len(q), e \in Elems : InsertAfter(i, e) \/ InsertBefore(i, e)
  BY <1>2, InsertAfterKeeps, InsertBeforeKeeps
<1>3. CASE \E i \in 1..Len(q) : Remove(i) \/ RemoveHeadUntil(i) \/ RemoveStart(i)
  BY <1>3, RemoveEntryKeeps, RemoveHeadKeeps, SearchKeeps
<1>4. CASE RemoveHead \/ RemoveSearch \/ RemoveFound
  BY <1>4, RemoveHeadKeeps, SearchKeeps
<1>5. CASE ForeachStart \/ ForeachNext \/ ReverseStart \/ ReverseNext \/ ForeachEnd
  BY <1>5, ForeachKeeps
<1>6. CASE UNCHANGED vars
  BY <1>6 DEF ListInv, TypeOK, ListIsChained, LoopsAreInStep, SearchingKind, vars
<1> QED
  BY <1>1, <1>2, <1>3, <1>4, <1>5, <1>6 DEF Next

\* The memory and the loops of a program that uses queue.h have their types.
THEOREM ListTypes == Spec => []TypeOK
<1>1. ListInv => TypeOK
  BY DEF ListInv
<1> QED
  BY <1>1, ListInitInv, ListNextInv, PTL DEF Spec

\* queue.h is right: whatever macros a program calls within their contract, in
\* whatever order and on however many entries, the memory holds exactly the list
\* the program means.
THEOREM ListsAreRight == Spec => []ListIsChained
<1>1. ListInv => ListIsChained
  BY DEF ListInv
<1> QED
  BY <1>1, ListInitInv, ListNextInv, PTL DEF Spec

\* Every FOREACH, FOREACH_REVERSE and REMOVE loop of queue.h is at the entry
\* whose turn it is, so it visits every entry once and stops.
THEOREM LoopsAreRight == Spec => []LoopsAreInStep
<1>1. ListInv => LoopsAreInStep
  BY DEF ListInv
<1> QED
  BY <1>1, ListInitInv, ListNextInv, PTL DEF Spec
=============================================================================
