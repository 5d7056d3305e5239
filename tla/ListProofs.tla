----------------------------- MODULE ListProofs -----------------------------
(***************************************************************************)
(* The lists of queue.h are right for any number of entries: every macro   *)
(* leaves the chain of the list its caller means, and every loop visits    *)
(* that list in order.                                                     *)
(*                                                                         *)
(* Whatever the family, a macro that inserts makes one and the same change *)
(* to the words that matter, and so does one that removes: PutsAfter and   *)
(* TakesOut state that change in terms of positions, ChainInsert and       *)
(* ChainRemove show that it leaves a chain.  The second part shows that    *)
(* the assignments of every macro amount to it.                            *)
(***************************************************************************)
EXTENDS ListOrder, TLAPS, SequenceTheorems

-----------------------------------------------------------------------------
(* What inserting into a chain and removing from it come to, for a list of *)
(* any length.                                                             *)

\* What a position of the list is: the head, an entry, or the end mark, and an
\* entry is at one position only.
LEMMA NodeFacts ==
  ASSUME NEW k \in Kinds, NEW s \in Seq(Elems)
  PROVE  /\ Len(s) \in Nat
         /\ Node(k, s, 0) = ListHead
         /\ \A i \in 1..Len(s) : Node(k, s, i) = s[i] /\ s[i] \in Elems
         /\ Node(k, s, Len(s) + 1) = End(k)
         /\ \A i \in 0..Len(s) : Node(k, s, i) \in Cells
         /\ \A i \in 0..Len(s) + 1 : Node(k, s, i) \in Words
         /\ End(k) \in Words
         /\ End(k) \notin Elems
         /\ \A i \in 1..Len(s) : Node(k, s, i) # ListHead /\ Node(k, s, i) # NULL
BY QueueAssumption DEF Node, Cells, Words, End, Kinds

\* Insertion into a sequence, by positions.
LEMMA InsertFacts ==
  ASSUME NEW k \in Kinds, NEW s \in Seq(Elems), NEW e \in Elems,
         NEW i \in 0..Len(s)
  PROVE  /\ InsertedAfter(s, i, e) \in Seq(Elems)
         /\ Len(InsertedAfter(s, i, e)) = Len(s) + 1
         /\ \A j \in 0..Len(s) + 2 :
              Node(k, InsertedAfter(s, i, e), j) =
                 IF j <= i THEN Node(k, s, j)
                 ELSE IF j = i + 1 THEN e ELSE Node(k, s, j - 1)
<1> DEFINE t == InsertedAfter(s, i, e)
<1>1. Len(s) \in Nat
  OBVIOUS
<1>2. t \in Seq(Elems) /\ Len(t) = Len(s) + 1
  <2>1. \A j \in 1..Len(s) + 1 : t[j] \in Elems
    BY <1>1 DEF InsertedAfter
  <2> QED
    BY <1>1, <2>1 DEF InsertedAfter
<1>3. \A j \in 1..Len(s) + 1 :
        t[j] = IF j <= i THEN s[j] ELSE IF j = i + 1 THEN e ELSE s[j - 1]
  BY <1>1 DEF InsertedAfter
<1>4. ASSUME NEW j \in 0..Len(s) + 2
      PROVE  Node(k, t, j) = IF j <= i THEN Node(k, s, j)
                             ELSE IF j = i + 1 THEN e ELSE Node(k, s, j - 1)
  BY <1>1, <1>2, <1>3 DEF Node
<1> QED
  BY <1>2, <1>4

\* Removal of n entries from position i on.
LEMMA WithoutFacts ==
  ASSUME NEW k \in Kinds, NEW s \in Seq(Elems),
         NEW i \in 1..Len(s), NEW n \in 1..Len(s) - i + 1
  PROVE  /\ Without(s, i, n) \in Seq(Elems)
         /\ Len(Without(s, i, n)) = Len(s) - n
         /\ \A j \in 0..Len(s) - n + 1 :
              Node(k, Without(s, i, n), j) =
                 IF j < i THEN Node(k, s, j) ELSE Node(k, s, j + n)
<1> DEFINE t == Without(s, i, n)
<1>1. Len(s) \in Nat /\ Len(s) - n \in Nat
  OBVIOUS
<1>2. t \in Seq(Elems) /\ Len(t) = Len(s) - n
  <2>1. \A j \in 1..Len(s) - n : t[j] \in Elems
    BY <1>1 DEF Without
  <2> QED
    BY <1>1, <2>1 DEF Without
<1>3. \A j \in 1..Len(s) - n : t[j] = IF j < i THEN s[j] ELSE s[j + n]
  BY <1>1 DEF Without
<1>4. ASSUME NEW j \in 0..Len(s) - n + 1
      PROVE  Node(k, t, j) = IF j < i THEN Node(k, s, j) ELSE Node(k, s, j + n)
  BY <1>1, <1>2, <1>3 DEF Node
<1> QED
  BY <1>2, <1>4

\* In a chain different positions are different cells, and an entry that is not
\* linked is at none of them.
LEMMA NodesDiffer ==
  ASSUME NEW k \in Kinds, NEW m, NEW s \in Seq(Elems), Chained(k, m, s)
  PROVE  /\ \A i, j \in 0..Len(s) : Node(k, s, i) = Node(k, s, j) => i = j
         /\ \A i \in 1..Len(s) : Node(k, s, i) # Node(k, s, Len(s) + 1)
         /\ \A e \in Elems : e \notin Linked(s) =>
                \A i \in 0..Len(s) + 1 : Node(k, s, i) # e
<1>1. \A i, j \in 1..Len(s) : s[i] = s[j] => i = j
  BY DEF Chained
<1>2. \A i, j \in 0..Len(s) : Node(k, s, i) = Node(k, s, j) => i = j
  BY <1>1, NodeFacts
<1>3. \A i \in 1..Len(s) : Node(k, s, i) # Node(k, s, Len(s) + 1)
  BY NodeFacts
<1>4. ASSUME NEW e \in Elems, e \notin Linked(s), NEW i \in 0..Len(s) + 1
      PROVE  Node(k, s, i) # e
  BY <1>4, NodeFacts, QueueAssumption DEF Linked
<1> QED
  BY <1>2, <1>3, <1>4

-----------------------------------------------------------------------------
\* What a macro that puts e between positions i and i + 1 does to the words
\* that matter: next of the cell at i leads to e and next of e to what followed;
\* the back pointers and the last pointer follow, where the family has them.
PutsAfter(k, m, s, i, e, m2) ==
  /\ m2.next = [m.next EXCEPT ![e] = Node(k, s, i + 1), ![Node(k, s, i)] = e]
  /\ HasBack(k) => /\ m2.prev[e] = Node(k, s, i)
                   /\ \A c \in Elems \ {e} :
                        m2.prev[c] = IF c = Node(k, s, i + 1) THEN e ELSE m.prev[c]
  /\ HasTail(k) => m2.prev[ListHead] = IF i = Len(s) THEN e ELSE m.prev[ListHead]

\* What a macro that takes out the n entries from position i on does: next of
\* the cell before leads to the one after; n is 1 where there are back pointers.
TakesOut(k, m, s, i, n, m2) ==
  /\ m2.next = [m.next EXCEPT ![Node(k, s, i - 1)] = Node(k, s, i + n)]
  /\ HasBack(k) => /\ n = 1
                   /\ \A c \in Elems : m2.prev[c] = IF c = Node(k, s, i + 1)
                                                    THEN Node(k, s, i - 1)
                                                    ELSE m.prev[c]
  /\ HasTail(k) => m2.prev[ListHead] = IF i + n = Len(s) + 1 THEN Node(k, s, i - 1)
                                                             ELSE m.prev[ListHead]

\* A chain with e put in is the chain of the list with e put in.
LEMMA ChainInsert ==
  ASSUME NEW k \in Kinds, NEW m \in Memory, NEW s \in Seq(Elems), Chained(k, m, s),
         NEW e \in Elems, e \notin Linked(s), NEW i \in 0..Len(s), NEW m2 \in Memory,
         PutsAfter(k, m, s, i, e, m2)
  PROVE  Chained(k, m2, InsertedAfter(s, i, e))
<1> DEFINE t == InsertedAfter(s, i, e)
           N(j) == Node(k, s, j)
           M(j) == Node(k, t, j)
<1>1. /\ Len(s) \in Nat /\ t \in Seq(Elems) /\ Len(t) = Len(s) + 1
      /\ \A j \in 0..Len(s) + 2 :
           M(j) = IF j <= i THEN N(j) ELSE IF j = i + 1 THEN e ELSE N(j - 1)
  <2>1. Len(s) \in Nat
    OBVIOUS
  <2> QED
    BY <2>1, InsertFacts
<1>2. /\ \A a, b \in 0..Len(s) : N(a) = N(b) => a = b
      /\ \A a \in 1..Len(s) : N(a) # N(Len(s) + 1)
      /\ \A a \in 0..Len(s) + 1 : N(a) # e
  BY NodesDiffer
<1>3. /\ \A a \in 0..Len(s) : m.next[N(a)] = N(a + 1) /\ N(a) \in Cells
      /\ HasBack(k) => \A a \in 1..Len(s) : m.prev[N(a)] = N(a - 1)
      /\ HasTail(k) => m.prev[ListHead] = N(Len(s))
      /\ \A a \in 1..Len(s) : N(a) \in Elems /\ N(a) # ListHead
      /\ N(0) = ListHead
  <2>1. /\ \A a \in 0..Len(s) : m.next[N(a)] = N(a + 1)
        /\ HasBack(k) => \A a \in 1..Len(s) : m.prev[N(a)] = N(a - 1)
        /\ HasTail(k) => m.prev[ListHead] = N(Len(s))
    BY DEF Chained
  <2>2. /\ \A a \in 0..Len(s) : N(a) \in Cells
        /\ \A a \in 1..Len(s) : N(a) \in Elems /\ N(a) # ListHead
        /\ N(0) = ListHead
    BY NodeFacts
  <2> QED
    BY <2>1, <2>2
<1> HIDE DEF t, N, M
<1>4. m.next \in [Cells -> Words] /\ e \in Cells
  BY DEF Memory, Cells
<1>5. \A a, b \in 1..Len(t) : t[a] = t[b] => a = b
  <2>1. \A a, b \in 1..Len(t) : M(a) = M(b) => a = b
    <3> SUFFICES ASSUME NEW a \in 1..Len(t), NEW b \in 1..Len(t), M(a) = M(b)
                 PROVE  a = b
      OBVIOUS
    <3>1. /\ a \in 0..Len(s) + 2 /\ b \in 0..Len(s) + 2
          /\ a <= Len(s) + 1 /\ b <= Len(s) + 1
      BY <1>1
    <3> QED
      BY SMTT(30), <1>1, <1>2, <3>1
  <2>2. \A a \in 1..Len(t) : M(a) = t[a]
    BY <1>1, NodeFacts DEF M
  <2> QED
    BY <2>1, <2>2
<1>6. ASSUME NEW j \in 0..Len(t)
      PROVE  m2.next[M(j)] = M(j + 1)
  <2>1. m2.next[e] = N(i + 1) /\ m2.next[N(i)] = e
    BY <1>1, <1>2, <1>3, <1>4 DEF N, PutsAfter
  <2>2. \A a \in 0..Len(s) : a # i => m2.next[N(a)] = m.next[N(a)]
    BY <1>1, <1>2, <1>3, <1>4 DEF N, PutsAfter
  <2>3. CASE j < i
    <3>1. M(j) = N(j) /\ M(j + 1) = N(j + 1)
      BY <1>1, <2>3
    <3> QED
      BY <1>1, <1>3, <2>2, <2>3, <3>1
  <2>4. CASE j = i
    <3>1. M(j) = N(i) /\ M(j + 1) = e
      BY <1>1, <2>4
    <3> QED
      BY <2>1, <3>1
  <2>5. CASE j = i + 1
    <3>1. M(j) = e /\ M(j + 1) = N(i + 1)
      BY <1>1, <2>5
    <3> QED
      BY <2>1, <3>1
  <2>6. CASE j > i + 1
    <3>1. M(j) = N(j - 1) /\ M(j + 1) = N(j) /\ j - 1 \in 0..Len(s) /\ j - 1 # i
      BY <1>1, <2>6
    <3>2. m.next[N(j - 1)] = N((j - 1) + 1)
      BY <1>3, <3>1
    <3>3. (j - 1) + 1 = j
      BY <1>1
    <3> QED
      BY <2>2, <3>1, <3>2, <3>3
  <2> QED
    BY <1>1, <2>3, <2>4, <2>5, <2>6
<1>7. ASSUME HasBack(k), NEW j \in 1..Len(t)
      PROVE  m2.prev[M(j)] = M(j - 1)
  <2>1. m2.prev[e] = N(i)
    BY <1>7 DEF N, PutsAfter
  <2>2. \A a \in 1..Len(s) : m2.prev[N(a)] = IF N(a) = N(i + 1) THEN e ELSE m.prev[N(a)]
    BY <1>2, <1>3, <1>7, <1>1 DEF N, PutsAfter
  <2>3. \A a \in 1..Len(s) : N(a) = N(i + 1) <=> a = i + 1
    BY <1>1, <1>2
  <2>4. CASE j <= i
    <3>1. M(j) = N(j) /\ M(j - 1) = N(j - 1) /\ j \in 1..Len(s) /\ j # i + 1
      BY <1>1, <2>4
    <3> QED
      BY <1>3, <1>7, <2>2, <2>3, <3>1
  <2>5. CASE j = i + 1
    <3>1. M(j) = e /\ M(j - 1) = N(i)
      BY <1>1, <2>5
    <3> QED
      BY <2>1, <3>1
  <2>6. CASE j = i + 2
    <3>1. M(j) = N(i + 1) /\ M(j - 1) = e /\ i + 1 \in 1..Len(s)
      BY <1>1, <2>6
    <3> QED
      BY <2>2, <3>1
  <2>7. CASE j > i + 2
    <3>1. /\ M(j) = N(j - 1) /\ M(j - 1) = N((j - 1) - 1)
          /\ j - 1 \in 1..Len(s) /\ j - 1 # i + 1
      BY <1>1, <2>7
    <3> QED
      BY <1>3, <1>7, <2>2, <2>3, <3>1
  <2> QED
    BY <1>1, <2>4, <2>5, <2>6, <2>7
<1>8. HasTail(k) => m2.prev[ListHead] = M(Len(t))
  BY <1>1, <1>3 DEF PutsAfter
<1> QED
  BY <1>5, <1>6, <1>7, <1>8 DEF Chained, t, M

\* A chain with entries taken out is the chain of the list without them.
LEMMA ChainRemove ==
  ASSUME NEW k \in Kinds, NEW m \in Memory, NEW s \in Seq(Elems), Chained(k, m, s),
         NEW i \in 1..Len(s), NEW n \in 1..Len(s) - i + 1, NEW m2 \in Memory,
         TakesOut(k, m, s, i, n, m2)
  PROVE  Chained(k, m2, Without(s, i, n))
<1> DEFINE t == Without(s, i, n)
           N(j) == Node(k, s, j)
           M(j) == Node(k, t, j)
<1>1. /\ Len(s) \in Nat /\ t \in Seq(Elems) /\ Len(t) = Len(s) - n
      /\ \A j \in 0..Len(s) - n + 1 : M(j) = IF j < i THEN N(j) ELSE N(j + n)
  BY WithoutFacts
<1>2. /\ \A a, b \in 0..Len(s) : N(a) = N(b) => a = b
      /\ \A a \in 1..Len(s) : N(a) # N(Len(s) + 1)
  BY NodesDiffer
<1>3. /\ \A a \in 0..Len(s) : m.next[N(a)] = N(a + 1) /\ N(a) \in Cells
      /\ HasBack(k) => \A a \in 1..Len(s) : m.prev[N(a)] = N(a - 1)
      /\ HasTail(k) => m.prev[ListHead] = N(Len(s))
      /\ \A a \in 1..Len(s) : N(a) \in Elems /\ N(a) # ListHead
      /\ N(0) = ListHead
  <2>1. /\ \A a \in 0..Len(s) : m.next[N(a)] = N(a + 1)
        /\ HasBack(k) => \A a \in 1..Len(s) : m.prev[N(a)] = N(a - 1)
        /\ HasTail(k) => m.prev[ListHead] = N(Len(s))
    BY DEF Chained
  <2>2. /\ \A a \in 0..Len(s) : N(a) \in Cells
        /\ \A a \in 1..Len(s) : N(a) \in Elems /\ N(a) # ListHead
        /\ N(0) = ListHead
    BY NodeFacts
  <2> QED
    BY <2>1, <2>2
<1> HIDE DEF t, N, M
<1>4. m.next \in [Cells -> Words]
  BY DEF Memory
<1>5. \A a, b \in 1..Len(t) : t[a] = t[b] => a = b
  <2>1. \A a, b \in 1..Len(t) : M(a) = M(b) => a = b
    <3> SUFFICES ASSUME NEW a \in 1..Len(t), NEW b \in 1..Len(t), M(a) = M(b)
                 PROVE  a = b
      OBVIOUS
    <3>1. /\ a \in 0..Len(s) - n + 1 /\ b \in 0..Len(s) - n + 1
          /\ a <= Len(s) - n /\ b <= Len(s) - n
      BY <1>1
    <3> DEFINE p(x) == IF x < i THEN x ELSE x + n
    <3>2. /\ M(a) = N(p(a)) /\ M(b) = N(p(b))
          /\ p(a) \in 0..Len(s) /\ p(b) \in 0..Len(s)
      BY <1>1, <3>1
    <3>3. p(a) = p(b)
      BY <1>2, <3>2
    <3> QED
      BY <1>1, <3>3
  <2>2. \A a \in 1..Len(t) : M(a) = t[a]
    BY <1>1, NodeFacts DEF M
  <2> QED
    BY <2>1, <2>2
<1>6. ASSUME NEW j \in 0..Len(t)
      PROVE  m2.next[M(j)] = M(j + 1)
  <2>1. m2.next[N(i - 1)] = N(i + n)
    BY <1>1, <1>3, <1>4 DEF N, TakesOut
  <2>2. \A a \in 0..Len(s) : a # i - 1 => m2.next[N(a)] = m.next[N(a)]
    BY <1>1, <1>2, <1>3, <1>4 DEF N, TakesOut
  <2>3. CASE j < i - 1
    <3>1. M(j) = N(j) /\ M(j + 1) = N(j + 1) /\ j \in 0..Len(s) /\ j # i - 1
      BY <1>1, <2>3
    <3> QED
      BY <1>3, <2>2, <3>1
  <2>4. CASE j = i - 1
    <3>1. M(j) = N(i - 1) /\ M(j + 1) = N(i + n)
      BY <1>1, <2>4
    <3> QED
      BY <2>1, <3>1
  <2>5. CASE j > i - 1
    <3>1. M(j) = N(j + n) /\ M(j + 1) = N(j + 1 + n) /\ j + n \in 0..Len(s) /\ j + n # i - 1
      BY <1>1, <2>5
    <3>2. m.next[N(j + n)] = N((j + n) + 1)
      BY <1>3, <3>1
    <3>3. (j + n) + 1 = j + 1 + n
      BY <1>1
    <3> QED
      BY <2>2, <3>1, <3>2, <3>3
  <2> QED
    BY <1>1, <2>3, <2>4, <2>5
<1>7. ASSUME HasBack(k), NEW j \in 1..Len(t)
      PROVE  m2.prev[M(j)] = M(j - 1)
  <2>1. \A a \in 1..Len(s) :
           m2.prev[N(a)] = IF N(a) = N(i + 1) THEN N(i - 1) ELSE m.prev[N(a)]
    BY <1>3, <1>7, <1>1 DEF N, TakesOut
  <2>2. \A a \in 1..Len(s) : N(a) = N(i + 1) <=> a = i + 1
    <3>1. i + 1 \in 0..Len(s) \/ i + 1 = Len(s) + 1
      BY SMTT(30), <1>1
    <3>2. CASE i + 1 = Len(s) + 1
      BY <1>1, <1>2, <3>2
    <3>3. CASE i + 1 \in 0..Len(s)
      BY <1>1, <1>2, <3>3
    <3> QED
      BY <3>1, <3>2, <3>3
  <2>3. n = 1
    BY <1>7 DEF TakesOut
  <2>4. CASE j < i
    <3>1. M(j) = N(j) /\ M(j - 1) = N(j - 1) /\ j \in 1..Len(s) /\ j # i + 1
      BY <1>1, <2>3, <2>4
    <3> QED
      BY <1>3, <1>7, <2>1, <2>2, <3>1
  <2>5. CASE j = i
    <3>1. M(j) = N(i + 1) /\ M(j - 1) = N(i - 1) /\ i + 1 \in 1..Len(s)
      BY <1>1, <2>3, <2>5
    <3> QED
      BY <2>1, <3>1
  <2>6. CASE j > i
    <3>1. /\ M(j) = N(j + 1) /\ M(j - 1) = N((j + 1) - 1)
          /\ j + 1 \in 1..Len(s) /\ j + 1 # i + 1
      BY <1>1, <2>3, <2>6
    <3> QED
      BY <1>3, <1>7, <2>1, <2>2, <3>1
  <2> QED
    BY <1>1, <2>4, <2>5, <2>6
<1>8. ASSUME HasTail(k)
      PROVE  m2.prev[ListHead] = M(Len(t))
  <2>1. CASE i + n = Len(s) + 1
    <3>1. Len(t) = i - 1 /\ M(Len(t)) = N(i - 1)
      BY <1>1, <2>1
    <3> QED
      BY <1>8, <2>1, <3>1 DEF N, TakesOut
  <2>2. CASE i + n < Len(s) + 1
    <3>1. M(Len(t)) = N(Len(t) + n) /\ Len(t) + n = Len(s)
      BY <1>1, <2>2
    <3>2. m2.prev[ListHead] = m.prev[ListHead]
      BY <1>1, <1>8, <2>2 DEF TakesOut
    <3> QED
      BY <1>3, <1>8, <3>1, <3>2
  <2>3. i + n <= Len(s) + 1
    OBVIOUS
  <2> QED
    BY <2>1, <2>2, <2>3
<1> QED
  BY <1>5, <1>6, <1>7, <1>8 DEF Chained, t, M

-----------------------------------------------------------------------------
(* The macros and the loops.                                               *)

\* The words found at a position of a chain.
LEMMA CellFacts ==
  ASSUME NEW k \in Kinds, NEW m \in Memory, NEW s \in Seq(Elems), Chained(k, m, s),
         NEW i \in 0..Len(s)
  PROVE  /\ m.next[Node(k, s, i)] = Node(k, s, i + 1)
         /\ Node(k, s, i) \in Cells
         /\ Node(k, s, i + 1) \in Words
         /\ i = Len(s) => Node(k, s, i + 1) = End(k)
         /\ i # Len(s) => Node(k, s, i + 1) \in Elems
         /\ HasBack(k) /\ i # 0 => m.prev[Node(k, s, i)] = Node(k, s, i - 1)
         /\ HasTail(k) => m.prev[ListHead] = Node(k, s, Len(s))
<1>1. /\ m.next[Node(k, s, i)] = Node(k, s, i + 1)
      /\ HasBack(k) /\ i # 0 => m.prev[Node(k, s, i)] = Node(k, s, i - 1)
      /\ HasTail(k) => m.prev[ListHead] = Node(k, s, Len(s))
  BY DEF Chained
<1>2. /\ Node(k, s, i) \in Cells
      /\ Node(k, s, i + 1) \in Words
      /\ i = Len(s) => Node(k, s, i + 1) = End(k)
      /\ i # Len(s) => Node(k, s, i + 1) \in Elems
  BY NodeFacts
<1> QED
  BY <1>1, <1>2

-----------------------------------------------------------------------------
\* SLIST_INSERT_AFTER puts the entry after the cell it is given; at position 0
\* that is SLIST_INSERT_HEAD.
LEMMA SlistInsert ==
  ASSUME NEW m \in Memory, NEW s \in Seq(Elems), Chained("SLIST", m, s),
         NEW e \in Elems, e \notin Linked(s), NEW i \in 0..Len(s)
  PROVE  LET m2 == SLIST_INSERT_AFTER(m, Node("SLIST", s, i), e)
         IN  m2 \in Memory /\ PutsAfter("SLIST", m, s, i, e, m2)
<1>1. "SLIST" \in Kinds /\ ~HasBack("SLIST") /\ ~HasTail("SLIST")
  BY DEF Kinds, HasBack, HasTail
<1> DEFINE c == Node("SLIST", s, i)
<1>2. m.next[c] = Node("SLIST", s, i + 1) /\ c \in Cells /\ m.next[c] \in Words
  BY <1>1, CellFacts
<1> QED
  BY <1>1, <1>2 DEF SLIST_INSERT_AFTER, PutsAfter, Memory, Cells, Words

\* STAILQ_INSERT_AFTER, likewise.
LEMMA StailqInsert ==
  ASSUME NEW m \in Memory, NEW s \in Seq(Elems), Chained("STAILQ", m, s),
         NEW e \in Elems, e \notin Linked(s), NEW i \in 0..Len(s)
  PROVE  LET m2 == STAILQ_INSERT_AFTER(m, Node("STAILQ", s, i), e)
         IN  m2 \in Memory /\ PutsAfter("STAILQ", m, s, i, e, m2)
<1>1. "STAILQ" \in Kinds /\ ~HasBack("STAILQ") /\ End("STAILQ") = NULL
  BY DEF Kinds, HasBack, End
<1> DEFINE c == Node("STAILQ", s, i)
<1>2. /\ m.next[c] = Node("STAILQ", s, i + 1) /\ c \in Cells /\ m.next[c] \in Words
      /\ m.next[c] = NULL <=> i = Len(s)
  BY <1>1, CellFacts, QueueAssumption
<1> QED
  BY <1>1, <1>2 DEF STAILQ_INSERT_AFTER, PutsAfter, Memory, Cells, Words

\* STAILQ_INSERT_TAIL puts the entry after the last cell.
LEMMA StailqInsertTail ==
  ASSUME NEW m \in Memory, NEW s \in Seq(Elems), Chained("STAILQ", m, s),
         NEW e \in Elems, e \notin Linked(s)
  PROVE  LET m2 == STAILQ_INSERT_TAIL(m, e)
         IN  m2 \in Memory /\ PutsAfter("STAILQ", m, s, Len(s), e, m2)
<1>1. /\ "STAILQ" \in Kinds /\ ~HasBack("STAILQ") /\ HasTail("STAILQ")
      /\ End("STAILQ") = NULL /\ Len(s) \in 0..Len(s)
  BY DEF Kinds, HasBack, HasTail, End
<1> DEFINE c == Node("STAILQ", s, Len(s))
<1>2. /\ c \in Cells /\ m.prev[ListHead] = c /\ NULL = Node("STAILQ", s, Len(s) + 1)
  BY <1>1, CellFacts
<1> QED
  BY <1>1, <1>2 DEF STAILQ_INSERT_TAIL, PutsAfter, Memory, Cells, Words

\* DLIST_INSERT_AFTER, likewise.
LEMMA DlistInsert ==
  ASSUME NEW m \in Memory, NEW s \in Seq(Elems), Chained("DLIST", m, s),
         NEW e \in Elems, e \notin Linked(s), NEW i \in 0..Len(s)
  PROVE  LET m2 == DLIST_INSERT_AFTER(m, Node("DLIST", s, i), e)
         IN  m2 \in Memory /\ PutsAfter("DLIST", m, s, i, e, m2)
<1>1. "DLIST" \in Kinds /\ ~HasTail("DLIST") /\ End("DLIST") = NULL
  BY DEF Kinds, HasTail, End
<1> DEFINE c == Node("DLIST", s, i)
           x == Node("DLIST", s, i + 1)
<1>2. /\ m.next[c] = x /\ c \in Cells /\ x \in Words
      /\ x = NULL \/ x \in Elems
  BY <1>1, CellFacts, QueueAssumption
<1>3. c # e /\ x # e
  BY <1>1, NodesDiffer
<1> HIDE DEF c, x
<1>4. PICK p : /\ p = IF x # NULL THEN [m.prev EXCEPT ![x] = e] ELSE m.prev
               /\ DLIST_INSERT_AFTER(m, c, e)
                    = [next |-> [m.next EXCEPT ![e] = x, ![c] = e],
                       prev |-> [p EXCEPT ![e] = c]]
  BY <1>2 DEF DLIST_INSERT_AFTER
<1>5. /\ m.prev \in [Cells -> Words] /\ m.next \in [Cells -> Words] /\ e \in Cells
      /\ e \in Words /\ c \in Words
  BY <1>2 DEF Memory, Cells, Words
<1>6. p \in [Cells -> Words]
  BY <1>2, <1>4, <1>5
<1>7. DLIST_INSERT_AFTER(m, c, e) \in Memory
  BY <1>2, <1>4, <1>5, <1>6 DEF Memory
<1>8. \A y \in Elems \ {e} :
        [p EXCEPT ![e] = c][y] = IF y = x THEN e ELSE m.prev[y]
  BY <1>2, <1>3, <1>4, <1>5, <1>6, QueueAssumption DEF Cells
<1> DEFINE m2 == DLIST_INSERT_AFTER(m, c, e)
<1>9. /\ m2.next = [m.next EXCEPT ![e] = x, ![c] = e]
      /\ m2.prev[e] = c
      /\ \A y \in Elems \ {e} : m2.prev[y] = IF y = x THEN e ELSE m.prev[y]
  BY <1>4, <1>5, <1>6, <1>8
<1> HIDE DEF m2
<1>10. PutsAfter("DLIST", m, s, i, e, m2)
  BY <1>1, <1>9 DEF PutsAfter, c, x
<1> QED
  BY <1>7, <1>10 DEF m2, c

-----------------------------------------------------------------------------
\* The change of an insertion into a list with back pointers, from what it
\* leaves in the second words.
LEMMA DoubleInsert ==
  ASSUME NEW k \in Kinds, NEW m \in Memory, NEW s \in Seq(Elems), Chained(k, m, s),
         NEW e \in Elems, NEW i \in 0..Len(s), NEW p \in [Cells -> Words],
         p[e] = Node(k, s, i),
         \A y \in Elems \ {e} : p[y] = IF y = Node(k, s, i + 1) THEN e ELSE m.prev[y],
         HasTail(k) => p[ListHead] = IF i = Len(s) THEN e ELSE m.prev[ListHead]
  PROVE  LET m2 == [next |-> [m.next EXCEPT ![e] = Node(k, s, i + 1),
                                            ![Node(k, s, i)] = e],
                    prev |-> p]
         IN  m2 \in Memory /\ PutsAfter(k, m, s, i, e, m2)
<1> DEFINE n == [m.next EXCEPT ![e] = Node(k, s, i + 1), ![Node(k, s, i)] = e]
           m2 == [next |-> n, prev |-> p]
<1>1. Node(k, s, i) \in Cells /\ Node(k, s, i + 1) \in Words
  BY CellFacts
<1>2. n \in [Cells -> Words]
  BY <1>1 DEF Memory, Cells, Words
<1>3. m2 \in Memory
  BY <1>2 DEF Memory
<1>4. m2.next = n /\ m2.prev = p
  OBVIOUS
<1> HIDE DEF m2
<1>5. PutsAfter(k, m, s, i, e, m2)
  BY <1>4 DEF PutsAfter
<1> QED
  BY <1>3, <1>5 DEF m2

\* TAILQ_INSERT_AFTER, and TAILQ_INSERT_HEAD at position 0.
LEMMA TailqInsert ==
  ASSUME NEW m \in Memory, NEW s \in Seq(Elems), Chained("TAILQ", m, s),
         NEW e \in Elems, e \notin Linked(s), NEW i \in 0..Len(s)
  PROVE  LET m2 == TAILQ_INSERT_AFTER(m, Node("TAILQ", s, i), e)
         IN  m2 \in Memory /\ PutsAfter("TAILQ", m, s, i, e, m2)
<1>1. "TAILQ" \in Kinds /\ End("TAILQ") = NULL
  BY DEF Kinds, End
<1> DEFINE c == Node("TAILQ", s, i)
           x == Node("TAILQ", s, i + 1)
           r == IF x # NULL THEN [m.prev EXCEPT ![x] = e]
                            ELSE [m.prev EXCEPT ![ListHead] = e]
           p == [r EXCEPT ![e] = c]
<1>2. /\ m.next[c] = x /\ c \in Cells
      /\ i = Len(s) => x = NULL
      /\ i # Len(s) => x \in Elems /\ x # NULL /\ x # ListHead
      /\ c # e /\ x # e
  BY <1>1, CellFacts, NodesDiffer, QueueAssumption
<1>3. TAILQ_INSERT_AFTER(m, c, e) = [next |-> [m.next EXCEPT ![e] = x, ![c] = e], prev |-> p]
  BY <1>2 DEF TAILQ_INSERT_AFTER
<1>4. /\ m.prev \in [Cells -> Words] /\ e \in Cells /\ e \in Words /\ c \in Words
      /\ ListHead \in Cells /\ e # ListHead /\ Elems \subseteq Cells
  BY <1>2, QueueAssumption DEF Memory, Cells, Words
<1> HIDE DEF c, x
<1>5. p \in [Cells -> Words]
  BY <1>2, <1>4
<1>6. p[e] = c
  BY <1>2, <1>4
<1>7. \A y \in Elems \ {e} : p[y] = IF y = x THEN e ELSE m.prev[y]
  BY <1>2, <1>4, QueueAssumption
<1>8. p[ListHead] = IF i = Len(s) THEN e ELSE m.prev[ListHead]
  BY <1>2, <1>4
<1> HIDE DEF p
<1> QED
  BY <1>1, <1>3, <1>5, <1>6, <1>7, <1>8, DoubleInsert DEF c, x

\* DLIST_INSERT_BEFORE and TAILQ_INSERT_BEFORE put the entry after the cell
\* before the one they are given.
LEMMA InsertBeforeEntry ==
  ASSUME NEW k \in {"DLIST", "TAILQ"}, NEW m \in Memory, NEW s \in Seq(Elems),
         Chained(k, m, s), NEW e \in Elems, e \notin Linked(s), NEW i \in 1..Len(s)
  PROVE  LET m2 == DLIST_INSERT_BEFORE(m, Node(k, s, i), e)
         IN  m2 \in Memory /\ PutsAfter(k, m, s, i - 1, e, m2)
<1>1. k \in Kinds /\ HasBack(k) /\ i - 1 \in 0..Len(s) /\ i - 1 # Len(s) /\ (i - 1) + 1 = i
  BY DEF Kinds, HasBack
<1> DEFINE c == Node(k, s, i - 1)
           x == Node(k, s, i)
           p == [m.prev EXCEPT ![e] = c, ![x] = e]
<1>2. /\ m.prev[x] = c /\ c \in Cells /\ x \in Elems
      /\ c # e /\ x # e
  BY <1>1, CellFacts, NodesDiffer
<1>3. DLIST_INSERT_BEFORE(m, x, e) = [next |-> [m.next EXCEPT ![e] = x, ![c] = e], prev |-> p]
  BY <1>2 DEF DLIST_INSERT_BEFORE
<1>4. /\ m.prev \in [Cells -> Words] /\ e \in Cells /\ e \in Words /\ c \in Words
      /\ ListHead \in Cells /\ e # ListHead /\ x # ListHead /\ Elems \subseteq Cells
  BY <1>2, QueueAssumption DEF Memory, Cells, Words
<1> HIDE DEF c, x
<1>5. p \in [Cells -> Words] /\ p[e] = c
  BY <1>2, <1>4
<1>6. \A y \in Elems \ {e} : p[y] = IF y = x THEN e ELSE m.prev[y]
  BY <1>2, <1>4
<1>7. p[ListHead] = m.prev[ListHead]
  BY <1>4
<1> HIDE DEF p
<1>8. Node(k, s, (i - 1) + 1) = x
  BY <1>1 DEF x
<1> QED
  BY <1>1, <1>3, <1>5, <1>6, <1>7, <1>8, DoubleInsert DEF c, x

\* TAILQ_INSERT_TAIL puts the entry after the last cell.
LEMMA TailqInsertTail ==
  ASSUME NEW m \in Memory, NEW s \in Seq(Elems), Chained("TAILQ", m, s),
         NEW e \in Elems, e \notin Linked(s)
  PROVE  LET m2 == TAILQ_INSERT_TAIL(m, e)
         IN  m2 \in Memory /\ PutsAfter("TAILQ", m, s, Len(s), e, m2)
<1>1. /\ "TAILQ" \in Kinds /\ HasTail("TAILQ") /\ End("TAILQ") = NULL
      /\ Len(s) \in 0..Len(s)
  BY DEF Kinds, End, HasTail
<1> DEFINE c == Node("TAILQ", s, Len(s))
           x == Node("TAILQ", s, Len(s) + 1)
           p == [m.prev EXCEPT ![e] = c, ![ListHead] = e]
<1>2. x = NULL /\ c \in Cells /\ m.prev[ListHead] = c
  BY <1>1, CellFacts
<1>3. TAILQ_INSERT_TAIL(m, e) = [next |-> [m.next EXCEPT ![e] = x, ![c] = e], prev |-> p]
  BY SMTT(30), <1>2 DEF TAILQ_INSERT_TAIL
<1>4. /\ m.prev \in [Cells -> Words] /\ e \in Cells /\ e \in Words /\ c \in Words
      /\ ListHead \in Cells /\ e # ListHead /\ Elems \subseteq Cells /\ x \notin Elems
  BY <1>2, QueueAssumption DEF Memory, Cells, Words
<1> HIDE DEF c, x
<1>5. p \in [Cells -> Words] /\ p[e] = c /\ p[ListHead] = e
  BY <1>4
<1>6. \A y \in Elems \ {e} : p[y] = IF y = x THEN e ELSE m.prev[y]
  BY <1>4, QueueAssumption
<1> HIDE DEF p
<1> QED
  BY <1>1, <1>3, <1>5, <1>6, DoubleInsert DEF c, x

-----------------------------------------------------------------------------
\* CIRCLEQ_INSERT_AFTER, CIRCLEQ_INSERT_BEFORE, CIRCLEQ_INSERT_HEAD and
\* CIRCLEQ_INSERT_TAIL differ in the test that tells the head from an entry;
\* in a chain each test is right, so they all put the entry between the cells
\* c and x at positions i and i + 1.
LEMMA CircleqInsert ==
  ASSUME NEW m \in Memory, NEW s \in Seq(Elems), Chained("CIRCLEQ", m, s),
         NEW e \in Elems, e \notin Linked(s), NEW i \in 0..Len(s)
  PROVE  LET c == Node("CIRCLEQ", s, i)
             x == Node("CIRCLEQ", s, i + 1)
             m2 == [next |-> [m.next EXCEPT ![e] = x, ![c] = e],
                    prev |-> [m.prev EXCEPT ![e] = c, ![x] = e]]
         IN  /\ m2 \in Memory
             /\ PutsAfter("CIRCLEQ", m, s, i, e, m2)
             /\ i # 0 => m2 = CIRCLEQ_INSERT_AFTER(m, c, e)
             /\ i # Len(s) => m2 = CIRCLEQ_INSERT_BEFORE(m, x, e)
             /\ i = 0 => m2 = CIRCLEQ_INSERT_HEAD(m, e)
             /\ i = Len(s) => m2 = CIRCLEQ_INSERT_TAIL(m, e)
<1> DEFINE c == Node("CIRCLEQ", s, i)
           x == Node("CIRCLEQ", s, i + 1)
           n == [m.next EXCEPT ![e] = x, ![c] = e]
           p == [m.prev EXCEPT ![e] = c, ![x] = e]
           m2 == [next |-> n, prev |-> p]
<1>1. /\ "CIRCLEQ" \in Kinds /\ HasTail("CIRCLEQ") /\ HasBack("CIRCLEQ")
      /\ End("CIRCLEQ") = ListHead
  BY DEF Kinds, HasTail, HasBack, End
<1>2. /\ m.next[c] = x /\ c \in Cells /\ x \in Cells
      /\ i = Len(s) <=> x = ListHead
      /\ i = 0 <=> c = ListHead
      /\ c # e /\ x # e
  <2>1. m.next[c] = x /\ c \in Cells
    BY <1>1, CellFacts
  <2>2. x \in Cells /\ (i = Len(s) <=> x = ListHead)
    BY <1>1, CellFacts, QueueAssumption DEF Cells
  <2>3. i = 0 <=> c = ListHead
    BY <1>1, NodeFacts
  <2>4. c # e /\ x # e
    BY <1>1, NodesDiffer
  <2> QED
    BY <2>1, <2>2, <2>3, <2>4
<1>3. m.prev[x] = c
  <2>1. CASE i = Len(s)
    BY <1>1, <1>2, <2>1, CellFacts
  <2>2. CASE i # Len(s)
    <3>1. i + 1 \in 0..Len(s) /\ i + 1 # 0 /\ (i + 1) - 1 = i
      BY <2>2
    <3> QED
      BY <1>1, <3>1, CellFacts
  <2> QED
    BY <2>1, <2>2
<1>4. /\ i = 0 => (m.prev[ListHead] = ListHead <=> x = ListHead)
      /\ i = Len(s) => (m.next[ListHead] = ListHead <=> c = ListHead)
  <2>1. m.prev[ListHead] = Node("CIRCLEQ", s, Len(s)) /\ m.next[ListHead] = Node("CIRCLEQ", s, 1)
    <3>1. 0 \in 0..Len(s)
      OBVIOUS
    <3> QED
      BY <1>1, <3>1, CellFacts, NodeFacts
  <2>2. /\ Node("CIRCLEQ", s, Len(s)) = ListHead <=> Len(s) = 0
        /\ Node("CIRCLEQ", s, 1) = ListHead <=> Len(s) = 0
    BY <1>1, NodeFacts
  <2> QED
    BY <1>2, <2>1, <2>2
<1>5. /\ m.prev \in [Cells -> Words] /\ m.next \in [Cells -> Words]
      /\ e \in Cells /\ e \in Words /\ c \in Words
      /\ ListHead \in Cells /\ e # ListHead /\ Elems \subseteq Cells
  BY <1>2, QueueAssumption DEF Memory, Cells, Words
<1>6. p \in [Cells -> Words] /\ p[e] = c
  <2> HIDE DEF c, x
  <2> QED
    BY <1>2, <1>5
<1>7. /\ \A y \in Elems \ {e} : p[y] = IF y = x THEN e ELSE m.prev[y]
      /\ p[ListHead] = IF i = Len(s) THEN e ELSE m.prev[ListHead]
  <2> HIDE DEF c, x
  <2> QED
    BY <1>2, <1>5
<1>8. m2 \in Memory /\ PutsAfter("CIRCLEQ", m, s, i, e, m2)
  <2> HIDE DEF p
  <2> QED
    BY <1>1, <1>6, <1>7, DoubleInsert
<1> HIDE DEF c, x
<1>9. i # 0 => m2 = CIRCLEQ_INSERT_AFTER(m, c, e)
  BY <1>2 DEF CIRCLEQ_INSERT_AFTER
<1>10. i # Len(s) => m2 = CIRCLEQ_INSERT_BEFORE(m, x, e)
  BY <1>2, <1>3 DEF CIRCLEQ_INSERT_BEFORE
<1>11. ASSUME i = 0
       PROVE  m2 = CIRCLEQ_INSERT_HEAD(m, e)
  BY <1>2, <1>4, <1>11 DEF CIRCLEQ_INSERT_HEAD
<1>12. ASSUME i = Len(s)
       PROVE  m2 = CIRCLEQ_INSERT_TAIL(m, e)
  BY <1>2, <1>3, <1>4, <1>12 DEF CIRCLEQ_INSERT_TAIL
<1> QED
  BY <1>8, <1>9, <1>10, <1>11, <1>12 DEF c, x

-----------------------------------------------------------------------------
\* SLIST_REMOVE takes out the entry after the one its search found, and
\* SLIST_REMOVE_HEAD the one after the head.
LEMMA SlistRemove ==
  ASSUME NEW m \in Memory, NEW s \in Seq(Elems), Chained("SLIST", m, s),
         NEW i \in 1..Len(s)
  PROVE  LET m2 == SLIST_REMOVE_AFTER(m, Node("SLIST", s, i - 1))
         IN  m2 \in Memory /\ TakesOut("SLIST", m, s, i, 1, m2)
<1>1. /\ "SLIST" \in Kinds /\ ~HasBack("SLIST") /\ ~HasTail("SLIST")
      /\ i - 1 \in 0..Len(s) /\ (i - 1) + 1 = i /\ i \in 0..Len(s)
  BY DEF Kinds, HasBack, HasTail
<1> DEFINE c == Node("SLIST", s, i - 1)
           x == Node("SLIST", s, i + 1)
<1>2. m.next[m.next[c]] = x /\ c \in Cells /\ x \in Words
  BY <1>1, CellFacts
<1> HIDE DEF c, x
<1>3. /\ SLIST_REMOVE_AFTER(m, c) \in Memory
      /\ SLIST_REMOVE_AFTER(m, c).next = [m.next EXCEPT ![c] = x]
  BY <1>2 DEF SLIST_REMOVE_AFTER, Memory
<1> QED
  BY <1>1, <1>3 DEF TakesOut, c, x

\* STAILQ_REMOVE, STAILQ_REMOVE_HEAD and STAILQ_REMOVE_HEAD_UNTIL cut out the n
\* entries between the cell they keep and the entry that becomes its next.
LEMMA StailqCut ==
  ASSUME NEW m \in Memory, NEW s \in Seq(Elems), Chained("STAILQ", m, s),
         NEW i \in 1..Len(s), NEW n \in 1..Len(s) - i + 1
  PROVE  LET m2 == STAILQ_CUT(m, Node("STAILQ", s, i - 1), Node("STAILQ", s, i + n))
         IN  m2 \in Memory /\ TakesOut("STAILQ", m, s, i, n, m2)
<1>1. /\ "STAILQ" \in Kinds /\ ~HasBack("STAILQ") /\ End("STAILQ") = NULL
      /\ i - 1 \in 0..Len(s) /\ i + n \in 1..Len(s) + 1
  BY DEF Kinds, HasBack, End
<1> DEFINE c == Node("STAILQ", s, i - 1)
           x == Node("STAILQ", s, i + n)
           m2 == STAILQ_CUT(m, c, x)
<1>2. /\ c \in Cells /\ x \in Words
      /\ i + n = Len(s) + 1 <=> x = NULL
  BY <1>1, NodeFacts
<1>3. /\ m.prev \in [Cells -> Words] /\ m.next \in [Cells -> Words] /\ c \in Words
      /\ ListHead \in Cells
  BY <1>2 DEF Memory, Cells, Words
<1> HIDE DEF c, x
<1>4. /\ m2 \in Memory
      /\ m2.next = [m.next EXCEPT ![c] = x]
      /\ m2.prev[ListHead] = IF i + n = Len(s) + 1 THEN c ELSE m.prev[ListHead]
  BY <1>2, <1>3 DEF STAILQ_CUT, Memory
<1> HIDE DEF m2
<1>5. TakesOut("STAILQ", m, s, i, n, m2)
  BY <1>1, <1>4 DEF TakesOut, c, x
<1> QED
  BY <1>4, <1>5 DEF m2, c, x

\* DLIST_REMOVE, TAILQ_REMOVE and CIRCLEQ_REMOVE take out the entry they are
\* given, from its own two words.
LEMMA DoubleRemove ==
  ASSUME NEW k \in Kinds, HasBack(k), NEW m \in Memory, NEW s \in Seq(Elems),
         Chained(k, m, s), NEW i \in 1..Len(s)
  PROVE  LET m2 == CASE k = "DLIST" -> DLIST_REMOVE(m, Node(k, s, i))
                     [] k = "TAILQ" -> TAILQ_REMOVE(m, Node(k, s, i))
                     [] k = "CIRCLEQ" -> CIRCLEQ_REMOVE(m, Node(k, s, i))
         IN  m2 \in Memory /\ TakesOut(k, m, s, i, 1, m2)
<1> DEFINE c == Node(k, s, i - 1)
           e == Node(k, s, i)
           x == Node(k, s, i + 1)
           m2 == CASE k = "DLIST" -> DLIST_REMOVE(m, e)
                   [] k = "TAILQ" -> TAILQ_REMOVE(m, e)
                   [] k = "CIRCLEQ" -> CIRCLEQ_REMOVE(m, e)
<1>1. /\ i - 1 \in 0..Len(s) /\ i \in 0..Len(s) /\ i # 0
      /\ k \in {"DLIST", "TAILQ", "CIRCLEQ"}
  BY DEF HasBack
<1>2. /\ m.next[e] = x /\ m.prev[e] = c /\ c \in Cells
      /\ i = Len(s) => x = End(k)
      /\ i # Len(s) => x \in Elems
  BY <1>1, CellFacts
<1>3. /\ m.prev \in [Cells -> Words] /\ m.next \in [Cells -> Words] /\ c \in Words
      /\ x \in Words /\ ListHead \in Cells /\ Elems \subseteq Cells
      /\ ListHead \notin Elems /\ NULL \notin Elems /\ NULL # ListHead
  BY <1>1, <1>2, CellFacts, QueueAssumption DEF Memory, Cells, Words
<1> HIDE DEF c, e, x
<1>4. /\ m2 \in Memory
      /\ m2.next = [m.next EXCEPT ![c] = x]
      /\ \A y \in Elems : m2.prev[y] = IF y = x THEN c ELSE m.prev[y]
      /\ HasTail(k) => m2.prev[ListHead] = IF i = Len(s) THEN c ELSE m.prev[ListHead]
  <2>1. CASE k = "DLIST"
    <3>1. m2 = DLIST_REMOVE(m, e) /\ End(k) = NULL /\ ~HasTail(k)
      BY <2>1 DEF End, HasTail
    <3> HIDE DEF m2
    <3>2. CASE i = Len(s)
      BY <1>2, <1>3, <3>1, <3>2 DEF DLIST_REMOVE, Memory
    <3>3. CASE i # Len(s)
      BY <1>2, <1>3, <3>1, <3>3 DEF DLIST_REMOVE, Memory
    <3> QED
      BY <3>2, <3>3
  <2>2. CASE k = "TAILQ"
    <3>1. m2 = TAILQ_REMOVE(m, e) /\ End(k) = NULL
      BY <2>2 DEF End
    <3> HIDE DEF m2
    <3>2. CASE i = Len(s)
      BY <1>2, <1>3, <3>1, <3>2 DEF TAILQ_REMOVE, Memory
    <3>3. CASE i # Len(s)
      BY <1>2, <1>3, <3>1, <3>3 DEF TAILQ_REMOVE, Memory
    <3> QED
      BY <3>2, <3>3
  <2>3. CASE k = "CIRCLEQ"
    <3>1. m2 = CIRCLEQ_REMOVE(m, e) /\ End(k) = ListHead
      BY <2>3 DEF End
    <3>2. CIRCLEQ_REMOVE(m, e) = [next |-> [m.next EXCEPT ![c] = x],
                                  prev |-> [m.prev EXCEPT ![x] = c]]
      BY <1>2 DEF CIRCLEQ_REMOVE
    <3> HIDE DEF m2
    <3>3. CASE i = Len(s)
      BY <1>2, <1>3, <3>1, <3>2, <3>3 DEF Memory
    <3>4. CASE i # Len(s)
      BY <1>2, <1>3, <3>1, <3>2, <3>4 DEF Memory
    <3> QED
      BY <3>3, <3>4
  <2> QED
    BY <1>1, <2>1, <2>2, <2>3
<1> HIDE DEF m2
<1>5. TakesOut(k, m, s, i, 1, m2)
  <2>1. i + 1 = Len(s) + 1 <=> i = Len(s)
    OBVIOUS
  <2> QED
    BY <1>4, <2>1 DEF TakesOut, c, x
<1> QED
  BY <1>4, <1>5 DEF m2, e
=============================================================================
