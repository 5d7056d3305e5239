-------------------------- MODULE CacheTreeProofs --------------------------
(***************************************************************************)
(* Proofs about CacheTree: the trees stay sorted and balanced, so every    *)
(* search is exact and the trees implement CacheMap.                       *)
(***************************************************************************)
EXTENDS CacheTree, TLAPS, WellFoundedInduction

(* A set of natural numbers that is not empty has a least element. *)
LEMMA LeastOf ==
  ASSUME NEW S \in SUBSET Nat, S # {}
  PROVE  \E n \in S : \A k \in S : n <= k
<1> DEFINE R == {ss \in Nat \X Nat : ss[1] < ss[2]}
<1>1. IsWellFoundedOn(R, Nat)
  BY Zenon, NatLessThanWellFounded DEF OpToRel
<1> HIDE DEF R
<1>2. PICK x \in S : \A y \in S : ~(<<y, x>> \in R)
  BY Zenon, <1>1, WFMin
<1>3. ASSUME NEW k \in S PROVE x <= k
  <2>1. ~(<<k, x>> \in R)
    BY Zenon, <1>2
  <2>2. QED
    BY <2>1 DEF R
<1>4. QED
  BY Zenon, <1>3

(* Induction up to a number. *)
LEMMA UpTo ==
  ASSUME NEW N \in Nat, NEW S, 0 \in S, \A h \in 0..(N - 1) : h \in S => h + 1 \in S
  PROVE  \A h \in 0..N : h \in S
<1> DEFINE B == {h \in Nat : h \in 0..N /\ h \notin S}
<1>1. SUFFICES ASSUME B # {} PROVE FALSE
  OBVIOUS
<1>2. PICK h \in B : \A k \in B : h <= k
  BY Zenon, <1>1, LeastOf
<1>3. h \in 0..N /\ h \notin S /\ h # 0
  OBVIOUS
<1>4. h - 1 \in 0..(N - 1) /\ h - 1 \in Nat /\ ~(h <= h - 1)
  BY <1>3
<1>5. h - 1 \in S
  BY <1>2, <1>4
<1>6. (h - 1) + 1 = h
  BY <1>3
<1>7. QED
  BY Zenon, <1>3, <1>4, <1>5, <1>6

-----------------------------------------------------------------------------
(* Trees by height. *)

\* The trees with subtrees in S.
Over(S) == {Empty} \cup [c : Colours, l : S, n : Node, r : S]

(* Below follows its rule. *)
LEMMA BelowRule ==
  \A h \in 0..MaxHeight : Below[h] = IF h = 0 THEN {Empty} ELSE Over(Below[h - 1])
<1> USE HeightAssumption
<1> DEFINE P(f, N) == f = [h \in 0..N |-> IF h = 0 THEN {Empty} ELSE Over(f[h - 1])]
           S == {N \in 0..MaxHeight : \E f : P(f, N)}
<1> HIDE DEF P
<1>1. 0 \in S
  <2> DEFINE f == [h \in 0..0 |-> {Empty}]
  <2>1. P(f, 0)
    BY DEF P
  <2>2. QED
    BY <2>1
<1>2. ASSUME NEW N \in 0..(MaxHeight - 1), N \in S PROVE N + 1 \in S
  <2>1. PICK f : P(f, N)
    BY Zenon, <1>2
  <2> DEFINE g == [h \in 0..(N + 1) |-> IF h = 0 THEN {Empty} ELSE Over(f[h - 1])]
  <2>2. \A h \in 0..N : f[h] = IF h = 0 THEN {Empty} ELSE Over(f[h - 1])
    BY Zenon, <2>1 DEF P
  <2>3. \A h \in 0..(N + 1) : g[h] = IF h = 0 THEN {Empty} ELSE Over(f[h - 1])
    OBVIOUS
  <2>4. 0..N \subseteq 0..(N + 1) /\ N + 1 \in 0..MaxHeight
    OBVIOUS
  <2>5. \A h \in 0..N : g[h] = f[h]
    BY Zenon, <2>2, <2>3, <2>4
  <2>6. \A h \in 0..(N + 1) : h # 0 => h - 1 \in 0..N
    OBVIOUS
  <2>7. g = [h \in 0..(N + 1) |-> IF h = 0 THEN {Empty} ELSE Over(g[h - 1])]
    BY Zenon, <2>5, <2>6
  <2>8. P(g, N + 1)
    BY Zenon, <2>7 DEF P
  <2>9. QED
    BY Zenon, <2>4, <2>8
<1>3. MaxHeight \in S
  <2> HIDE DEF S
  <2>1. \A h \in 0..MaxHeight : h \in S
    BY Zenon, <1>1, <1>2, UpTo
  <2>2. QED
    BY <2>1
<1>4. \E f : P(f, MaxHeight)
  BY Zenon, <1>3
<1>5. Below = CHOOSE f : P(f, MaxHeight)
  BY Zenon DEF Below, P, Over
<1>6. P(Below, MaxHeight)
  BY Zenon, <1>4, <1>5
<1>7. QED
  BY Zenon, <1>6 DEF P

(* A tree with a root is not the empty one, and has the parts it was built *)
(* from.                                                                   *)
LEMMA TreeFields ==
  ASSUME NEW c, NEW l, NEW n, NEW r
  PROVE  /\ Tree(c, l, n, r) # Empty
         /\ Tree(c, l, n, r).c = c /\ Tree(c, l, n, r).l = l
         /\ Tree(c, l, n, r).n = n /\ Tree(c, l, n, r).r = r
<1>1. "c" \in DOMAIN Tree(c, l, n, r)
  BY Zenon DEF Tree
<1>2. DOMAIN Empty = {}
  BY DEF Empty
<1>3. QED
  BY Zenon, <1>1, <1>2 DEF Tree

(* The parts of a tree are of lower height, and make it up. *)
LEMMA TreeParts ==
  ASSUME NEW h \in 0..MaxHeight, NEW t \in Below[h], t # Empty
  PROVE  /\ h > 0 /\ t.c \in Colours /\ t.n \in Node
         /\ t.l \in Below[h - 1] /\ t.r \in Below[h - 1]
         /\ t = Tree(t.c, t.l, t.n, t.r)
<1>1. h # 0 /\ t \in Over(Below[h - 1])
  BY Zenon, BelowRule
<1>2. t \in [c : Colours, l : Below[h - 1], n : Node, r : Below[h - 1]]
  BY Zenon, <1>1 DEF Over
<1>3. QED
  BY <1>1, <1>2, HeightAssumption DEF Tree

(* A tree is one level higher than its subtrees. *)
LEMMA TreeIn ==
  ASSUME NEW h \in 0..(MaxHeight - 1), NEW c \in Colours, NEW n \in Node,
         NEW l \in Below[h], NEW r \in Below[h]
  PROVE  Tree(c, l, n, r) \in Below[h + 1]
<1>1. h + 1 \in 0..MaxHeight /\ h + 1 # 0 /\ (h + 1) - 1 = h
  BY HeightAssumption
<1>2. Below[h + 1] = Over(Below[h])
  BY Zenon, <1>1, BelowRule
<1>3. Tree(c, l, n, r) \in [c : Colours, l : Below[h], n : Node, r : Below[h]]
  BY Zenon DEF Tree
<1>4. QED
  BY Zenon, <1>2, <1>3 DEF Over

(* The empty tree has any height. *)
LEMMA EmptyIn == \A h \in 0..MaxHeight : Empty \in Below[h]
BY Zenon, BelowRule DEF Over

(* A tree of some height at most is one of a greater height at most. *)
LEMMA BelowStep ==
  ASSUME NEW h \in 0..(MaxHeight - 1) PROVE Below[h] \subseteq Below[h + 1]
<1> USE HeightAssumption
<1> DEFINE S == {k \in 0..MaxHeight : k < MaxHeight => Below[k] \subseteq Below[k + 1]}
<1>1. 0 \in S
  <2>1. Below[0] = {Empty}
    <3>1. 0 \in 0..MaxHeight
      OBVIOUS
    <3>2. QED
      BY Zenon, <3>1, BelowRule
  <2>2. MaxHeight > 0 => Empty \in Below[0 + 1]
    BY EmptyIn
  <2>3. QED
    BY <2>1, <2>2
<1>2. ASSUME NEW k \in 0..(MaxHeight - 1), k \in S PROVE k + 1 \in S
  <2>1. SUFFICES ASSUME k + 1 < MaxHeight, NEW t \in Below[k + 1] PROVE t \in Below[(k + 1) + 1]
    OBVIOUS
  <2>2. k + 1 \in 0..(MaxHeight - 1) /\ k + 1 \in 0..MaxHeight /\ (k + 1) - 1 = k
        /\ (k + 1) + 1 \in 0..MaxHeight
    BY <2>1
  <2>3. CASE t = Empty
    BY Zenon, <2>2, <2>3, EmptyIn
  <2>4. CASE t # Empty
    <3>1. /\ t.c \in Colours /\ t.n \in Node /\ t.l \in Below[k] /\ t.r \in Below[k]
          /\ t = Tree(t.c, t.l, t.n, t.r)
      <4>1. t \in Below[k + 1]
        OBVIOUS
      <4>2. QED
        BY Zenon, <2>2, <2>4, <4>1, TreeParts
    <3>2. Below[k] \subseteq Below[k + 1]
      BY <1>2
    <3>3. t.l \in Below[k + 1] /\ t.r \in Below[k + 1]
      BY Zenon, <3>1, <3>2
    <3>4. QED
      BY Zenon, <2>2, <3>1, <3>3, TreeIn
  <2>5. QED
    BY Zenon, <2>3, <2>4
<1>3. \A k \in 0..MaxHeight : k \in S
  <2> HIDE DEF S
  <2>1. QED
    BY Zenon, <1>1, <1>2, UpTo
<1>4. QED
  BY <1>3

(* The same over several levels. *)
LEMMA BelowMono ==
  ASSUME NEW i \in 0..MaxHeight, NEW j \in 0..MaxHeight, i <= j
  PROVE  Below[i] \subseteq Below[j]
<1> USE HeightAssumption
<1> DEFINE S == {k \in 0..MaxHeight : i <= k => Below[i] \subseteq Below[k]}
<1>1. 0 \in S
  BY SMT
<1>2. ASSUME NEW k \in 0..(MaxHeight - 1), k \in S PROVE k + 1 \in S
  <2>1. Below[k] \subseteq Below[k + 1]
    BY Zenon, BelowStep
  <2>2. i <= k + 1 => i <= k \/ i = k + 1
    OBVIOUS
  <2>3. QED
    BY <1>2, <2>1, <2>2
<1>3. \A k \in 0..MaxHeight : k \in S
  <2> HIDE DEF S
  <2>1. QED
    BY Zenon, <1>1, <1>2, UpTo
<1>4. QED
  BY Zenon, <1>3

(* A subtree is one level lower, and a tree like any other. *)
LEMMA PartsIn ==
  ASSUME NEW h \in 0..(MaxHeight - 1), NEW t \in Below[h + 1], t # Empty
  PROVE  /\ t.c \in Colours /\ t.n \in Node /\ t.l \in Below[h] /\ t.r \in Below[h]
         /\ t = Tree(t.c, t.l, t.n, t.r)
<1>1. h + 1 \in 0..MaxHeight /\ (h + 1) - 1 = h
  BY HeightAssumption
<1>2. QED
  BY Zenon, <1>1, TreeParts

(* The trees below a height are trees. *)
LEMMA BelowTrees == \A h \in 0..MaxHeight : Below[h] \subseteq Trees
<1>1. \A h \in 0..MaxHeight : MaxHeight \in 0..MaxHeight /\ h <= MaxHeight
  BY HeightAssumption
<1>2. QED
  BY Zenon, <1>1, BelowMono DEF Trees

(* The parts of a tree are trees. *)
LEMMA PartsTrees ==
  ASSUME NEW t \in Trees, t # Empty
  PROVE  /\ t.c \in Colours /\ t.n \in Node /\ t.l \in Trees /\ t.r \in Trees
         /\ t = Tree(t.c, t.l, t.n, t.r)
<1>1. MaxHeight \in 0..MaxHeight /\ t \in Below[MaxHeight]
  BY HeightAssumption DEF Trees
<1>2. /\ MaxHeight > 0 /\ t.c \in Colours /\ t.n \in Node
      /\ t.l \in Below[MaxHeight - 1] /\ t.r \in Below[MaxHeight - 1]
      /\ t = Tree(t.c, t.l, t.n, t.r)
  BY Zenon, <1>1, TreeParts
<1>3. MaxHeight - 1 \in 0..MaxHeight
  BY <1>2, HeightAssumption
<1>4. QED
  BY Zenon, <1>2, <1>3, BelowTrees

(* The empty tree is a tree. *)
LEMMA EmptyTree == Empty \in Trees
<1>1. MaxHeight \in 0..MaxHeight
  BY HeightAssumption
<1>2. QED
  BY Zenon, <1>1, EmptyIn DEF Trees

(* Induction over trees. *)
LEMMA TreeInduction ==
  ASSUME NEW S, Empty \in S, \A t \in Trees : t # Empty /\ t.l \in S /\ t.r \in S => t \in S
  PROVE  \A t \in Trees : t \in S
<1> USE HeightAssumption
<1> DEFINE B == {h \in 0..MaxHeight : Below[h] \subseteq S}
<1>1. 0 \in B
  <2>1. 0 \in 0..MaxHeight
    OBVIOUS
  <2>2. Below[0] = {Empty}
    BY Zenon, <2>1, BelowRule
  <2>3. QED
    BY Zenon, <2>1, <2>2
<1>2. ASSUME NEW h \in 0..(MaxHeight - 1), h \in B PROVE h + 1 \in B
  <2>1. h + 1 \in 0..MaxHeight /\ Below[h] \subseteq S
    BY <1>2
  <2>2. ASSUME NEW t \in Below[h + 1] PROVE t \in S
    <3>1. t # Empty => t.l \in Below[h] /\ t.r \in Below[h]
      BY Zenon, PartsIn
    <3>2. t \in Trees
      BY Zenon, <2>1, BelowTrees
    <3>3. QED
      BY Zenon, <2>1, <3>1, <3>2
  <2>3. QED
    BY Zenon, <2>1, <2>2
<1>3. \A h \in 0..MaxHeight : h \in B
  <2> HIDE DEF B
  <2>1. QED
    BY Zenon, <1>1, <1>2, UpTo
<1>4. QED
  BY <1>3 DEF Trees

-----------------------------------------------------------------------------
(* The recursive functions on trees follow their rules: there is such a    *)
(* function on the trees of each height.                                   *)

(* Nodes follows its rule. *)
LEMMA NodesRule ==
  \A t \in Trees :
     Nodes[t] = IF t = Empty THEN {} ELSE Nodes[t.l] \cup {t.n} \cup Nodes[t.r]
<1> USE HeightAssumption
<1> DEFINE E(t, f) == IF t = Empty THEN {} ELSE f[t.l] \cup {t.n} \cup f[t.r]
           P(f, h) == f = [t \in Below[h] |-> E(t, f)]
           S == {h \in 0..MaxHeight : \E f : P(f, h)}
<1>1. ASSUME NEW h \in 0..(MaxHeight - 1), NEW f, NEW g, \A t \in Below[h] : f[t] = g[t],
             NEW t \in Below[h + 1]
      PROVE  E(t, f) = E(t, g)
  <2>1. t # Empty => t.l \in Below[h] /\ t.r \in Below[h]
    BY Zenon, PartsIn
  <2>2. QED
    BY Zenon, <1>1, <2>1
<1>2. ASSUME NEW f, NEW g PROVE E(Empty, f) = E(Empty, g)
  OBVIOUS
<1>3. Nodes = CHOOSE f : P(f, MaxHeight)
  BY Zenon DEF Nodes, Trees
<1> HIDE DEF E
<1>4. 0 \in S
  <2>1. 0 \in 0..MaxHeight
    OBVIOUS
  <2>2. Below[0] = {Empty}
    BY Zenon, <2>1, BelowRule
  <2> DEFINE g == [t \in Below[0] |-> E(t, <<>>)]
  <2>3. g = [t \in Below[0] |-> E(t, g)]
    <3>1. \A t \in Below[0] : E(t, <<>>) = E(t, g)
      BY Zenon, <1>2, <2>2
    <3>2. QED
      BY Zenon, <3>1
  <2>4. QED
    BY Zenon, <2>1, <2>3
<1>5. ASSUME NEW h \in 0..(MaxHeight - 1), h \in S PROVE h + 1 \in S
  <2>1. PICK f : f = [t \in Below[h] |-> E(t, f)]
    BY Zenon, <1>5
  <2> DEFINE g == [t \in Below[h + 1] |-> E(t, f)]
  <2>2. \A t \in Below[h + 1] : g[t] = E(t, f)
    OBVIOUS
  <2>3. \A t \in Below[h] : f[t] = E(t, f)
    BY Zenon, <2>1
  <2>4. Below[h] \subseteq Below[h + 1]
    BY Zenon, BelowStep
  <2>5. \A t \in Below[h] : f[t] = g[t]
    <3> HIDE DEF g
    <3>1. QED
      BY Zenon, <2>2, <2>3, <2>4
  <2>6. \A t \in Below[h + 1] : E(t, f) = E(t, g)
    <3> HIDE DEF g
    <3>1. QED
      BY Zenon, <1>1, <2>5
  <2>7. g = [t \in Below[h + 1] |-> E(t, g)]
    BY Zenon, <2>6
  <2>8. h + 1 \in 0..MaxHeight
    OBVIOUS
  <2>9. QED
    BY Zenon, <2>7, <2>8
<1>6. MaxHeight \in S
  <2> HIDE DEF S
  <2>1. \A h \in 0..MaxHeight : h \in S
    BY Zenon, <1>4, <1>5, UpTo
  <2>2. QED
    BY <2>1
<1>7. \E f : P(f, MaxHeight)
  BY Zenon, <1>6
<1>8. P(Nodes, MaxHeight)
  <2> HIDE DEF P
  <2>1. QED
    BY Zenon, <1>3, <1>7
<1>9. \A t \in Trees : Nodes[t] = E(t, Nodes)
  BY Zenon, <1>8 DEF Trees
<1>10. QED
  BY Zenon, <1>9 DEF E

(* InOrder follows its rule. *)
LEMMA InOrderRule ==
  \A t \in Trees :
     InOrder[t] = IF t = Empty THEN <<>> ELSE InOrder[t.l] \o <<t.n>> \o InOrder[t.r]
<1> USE HeightAssumption
<1> DEFINE E(t, f) == IF t = Empty THEN <<>> ELSE f[t.l] \o <<t.n>> \o f[t.r]
           P(f, h) == f = [t \in Below[h] |-> E(t, f)]
           S == {h \in 0..MaxHeight : \E f : P(f, h)}
<1>1. ASSUME NEW h \in 0..(MaxHeight - 1), NEW f, NEW g, \A t \in Below[h] : f[t] = g[t],
             NEW t \in Below[h + 1]
      PROVE  E(t, f) = E(t, g)
  <2>1. t # Empty => t.l \in Below[h] /\ t.r \in Below[h]
    BY Zenon, PartsIn
  <2>2. QED
    BY Zenon, <1>1, <2>1
<1>2. ASSUME NEW f, NEW g PROVE E(Empty, f) = E(Empty, g)
  OBVIOUS
<1>3. InOrder = CHOOSE f : P(f, MaxHeight)
  BY Zenon DEF InOrder, Trees
<1> HIDE DEF E
<1>4. 0 \in S
  <2>1. 0 \in 0..MaxHeight
    OBVIOUS
  <2>2. Below[0] = {Empty}
    BY Zenon, <2>1, BelowRule
  <2> DEFINE g == [t \in Below[0] |-> E(t, <<>>)]
  <2>3. g = [t \in Below[0] |-> E(t, g)]
    <3>1. \A t \in Below[0] : E(t, <<>>) = E(t, g)
      BY Zenon, <1>2, <2>2
    <3>2. QED
      BY Zenon, <3>1
  <2>4. QED
    BY Zenon, <2>1, <2>3
<1>5. ASSUME NEW h \in 0..(MaxHeight - 1), h \in S PROVE h + 1 \in S
  <2>1. PICK f : f = [t \in Below[h] |-> E(t, f)]
    BY Zenon, <1>5
  <2> DEFINE g == [t \in Below[h + 1] |-> E(t, f)]
  <2>2. \A t \in Below[h + 1] : g[t] = E(t, f)
    OBVIOUS
  <2>3. \A t \in Below[h] : f[t] = E(t, f)
    BY Zenon, <2>1
  <2>4. Below[h] \subseteq Below[h + 1]
    BY Zenon, BelowStep
  <2>5. \A t \in Below[h] : f[t] = g[t]
    <3> HIDE DEF g
    <3>1. QED
      BY Zenon, <2>2, <2>3, <2>4
  <2>6. \A t \in Below[h + 1] : E(t, f) = E(t, g)
    <3> HIDE DEF g
    <3>1. QED
      BY ZenonT(60), <1>1, <2>5
  <2>7. g = [t \in Below[h + 1] |-> E(t, g)]
    BY Zenon, <2>6
  <2>8. h + 1 \in 0..MaxHeight
    OBVIOUS
  <2>9. QED
    BY Zenon, <2>7, <2>8
<1>6. MaxHeight \in S
  <2> HIDE DEF S
  <2>1. \A h \in 0..MaxHeight : h \in S
    BY Zenon, <1>4, <1>5, UpTo
  <2>2. QED
    BY <2>1
<1>7. \E f : P(f, MaxHeight)
  BY Zenon, <1>6
<1>8. P(InOrder, MaxHeight)
  <2> HIDE DEF P
  <2>1. QED
    BY Zenon, <1>3, <1>7
<1>9. \A t \in Trees : InOrder[t] = E(t, InOrder)
  BY Zenon, <1>8 DEF Trees
<1>10. QED
  BY Zenon, <1>9 DEF E

(* rb_first follows its rule. *)
LEMMA FirstRule ==
  \A t \in Trees :
     rb_first[t] = IF t = Empty THEN Empty
                   ELSE IF t.l = Empty THEN t.n ELSE rb_first[t.l]
<1> USE HeightAssumption
<1> DEFINE E(t, f) == IF t = Empty THEN Empty
                      ELSE IF t.l = Empty THEN t.n ELSE f[t.l]
           P(f, h) == f = [t \in Below[h] |-> E(t, f)]
           S == {h \in 0..MaxHeight : \E f : P(f, h)}
<1>1. ASSUME NEW h \in 0..(MaxHeight - 1), NEW f, NEW g, \A t \in Below[h] : f[t] = g[t],
             NEW t \in Below[h + 1]
      PROVE  E(t, f) = E(t, g)
  <2>1. t # Empty => t.l \in Below[h] /\ t.r \in Below[h]
    BY Zenon, PartsIn
  <2>2. QED
    BY Zenon, <1>1, <2>1
<1>2. ASSUME NEW f, NEW g PROVE E(Empty, f) = E(Empty, g)
  OBVIOUS
<1>3. rb_first = CHOOSE f : P(f, MaxHeight)
  BY Zenon DEF rb_first, Trees
<1> HIDE DEF E
<1>4. 0 \in S
  <2>1. 0 \in 0..MaxHeight
    OBVIOUS
  <2>2. Below[0] = {Empty}
    BY Zenon, <2>1, BelowRule
  <2> DEFINE g == [t \in Below[0] |-> E(t, <<>>)]
  <2>3. g = [t \in Below[0] |-> E(t, g)]
    <3>1. \A t \in Below[0] : E(t, <<>>) = E(t, g)
      BY Zenon, <1>2, <2>2
    <3>2. QED
      BY Zenon, <3>1
  <2>4. QED
    BY Zenon, <2>1, <2>3
<1>5. ASSUME NEW h \in 0..(MaxHeight - 1), h \in S PROVE h + 1 \in S
  <2>1. PICK f : f = [t \in Below[h] |-> E(t, f)]
    BY Zenon, <1>5
  <2> DEFINE g == [t \in Below[h + 1] |-> E(t, f)]
  <2>2. \A t \in Below[h + 1] : g[t] = E(t, f)
    OBVIOUS
  <2>3. \A t \in Below[h] : f[t] = E(t, f)
    BY Zenon, <2>1
  <2>4. Below[h] \subseteq Below[h + 1]
    BY Zenon, BelowStep
  <2>5. \A t \in Below[h] : f[t] = g[t]
    <3> HIDE DEF g
    <3>1. QED
      BY Zenon, <2>2, <2>3, <2>4
  <2>6. \A t \in Below[h + 1] : E(t, f) = E(t, g)
    <3> HIDE DEF g
    <3>1. QED
      BY Zenon, <1>1, <2>5
  <2>7. g = [t \in Below[h + 1] |-> E(t, g)]
    BY Zenon, <2>6
  <2>8. h + 1 \in 0..MaxHeight
    OBVIOUS
  <2>9. QED
    BY Zenon, <2>7, <2>8
<1>6. MaxHeight \in S
  <2> HIDE DEF S
  <2>1. \A h \in 0..MaxHeight : h \in S
    BY Zenon, <1>4, <1>5, UpTo
  <2>2. QED
    BY <2>1
<1>7. \E f : P(f, MaxHeight)
  BY Zenon, <1>6
<1>8. P(rb_first, MaxHeight)
  <2> HIDE DEF P
  <2>1. QED
    BY Zenon, <1>3, <1>7
<1>9. \A t \in Trees : rb_first[t] = E(t, rb_first)
  BY Zenon, <1>8 DEF Trees
<1>10. QED
  BY Zenon, <1>9 DEF E

(* BlackHeights follows its rule. *)
LEMMA BlackHeightsRule ==
  \A t \in Trees :
     BlackHeights[t] =
        IF t = Empty THEN {0}
        ELSE {h + (IF Red(t) THEN 0 ELSE 1) : h \in BlackHeights[t.l] \cup BlackHeights[t.r]}
<1> USE HeightAssumption
<1> DEFINE E(t, f) == IF t = Empty THEN {0}
                      ELSE {h + (IF Red(t) THEN 0 ELSE 1) : h \in f[t.l] \cup f[t.r]}
           P(f, h) == f = [t \in Below[h] |-> E(t, f)]
           S == {h \in 0..MaxHeight : \E f : P(f, h)}
<1>1. ASSUME NEW h \in 0..(MaxHeight - 1), NEW f, NEW g, \A t \in Below[h] : f[t] = g[t],
             NEW t \in Below[h + 1]
      PROVE  E(t, f) = E(t, g)
  <2>1. t # Empty => t.l \in Below[h] /\ t.r \in Below[h]
    BY Zenon, PartsIn
  <2>2. QED
    BY Zenon, <1>1, <2>1
<1>2. ASSUME NEW f, NEW g PROVE E(Empty, f) = E(Empty, g)
  OBVIOUS
<1>3. BlackHeights = CHOOSE f : P(f, MaxHeight)
  BY Zenon DEF BlackHeights, Trees
<1> HIDE DEF E
<1>4. 0 \in S
  <2>1. 0 \in 0..MaxHeight
    OBVIOUS
  <2>2. Below[0] = {Empty}
    BY Zenon, <2>1, BelowRule
  <2> DEFINE g == [t \in Below[0] |-> E(t, <<>>)]
  <2>3. g = [t \in Below[0] |-> E(t, g)]
    <3>1. \A t \in Below[0] : E(t, <<>>) = E(t, g)
      BY Zenon, <1>2, <2>2
    <3>2. QED
      BY Zenon, <3>1
  <2>4. QED
    BY Zenon, <2>1, <2>3
<1>5. ASSUME NEW h \in 0..(MaxHeight - 1), h \in S PROVE h + 1 \in S
  <2>1. PICK f : f = [t \in Below[h] |-> E(t, f)]
    BY Zenon, <1>5
  <2> DEFINE g == [t \in Below[h + 1] |-> E(t, f)]
  <2>2. \A t \in Below[h + 1] : g[t] = E(t, f)
    OBVIOUS
  <2>3. \A t \in Below[h] : f[t] = E(t, f)
    BY Zenon, <2>1
  <2>4. Below[h] \subseteq Below[h + 1]
    BY Zenon, BelowStep
  <2>5. \A t \in Below[h] : f[t] = g[t]
    <3> HIDE DEF g
    <3>1. QED
      BY Zenon, <2>2, <2>3, <2>4
  <2>6. \A t \in Below[h + 1] : E(t, f) = E(t, g)
    <3> HIDE DEF g
    <3>1. QED
      BY Zenon, <1>1, <2>5
  <2>7. g = [t \in Below[h + 1] |-> E(t, g)]
    BY Zenon, <2>6
  <2>8. h + 1 \in 0..MaxHeight
    OBVIOUS
  <2>9. QED
    BY Zenon, <2>7, <2>8
<1>6. MaxHeight \in S
  <2> HIDE DEF S
  <2>1. \A h \in 0..MaxHeight : h \in S
    BY Zenon, <1>4, <1>5, UpTo
  <2>2. QED
    BY <2>1
<1>7. \E f : P(f, MaxHeight)
  BY Zenon, <1>6
<1>8. P(BlackHeights, MaxHeight)
  <2> HIDE DEF P
  <2>1. QED
    BY Zenon, <1>3, <1>7
<1>9. \A t \in Trees : BlackHeights[t] = E(t, BlackHeights)
  BY Zenon, <1>8 DEF Trees
<1>10. QED
  BY Zenon, <1>9 DEF E

(* RedsApart follows its rule. *)
LEMMA RedsApartRule ==
  \A t \in Trees :
     RedsApart[t] = (t # Empty => /\ Red(t) => ~Red(t.l) /\ ~Red(t.r)
                                  /\ RedsApart[t.l] /\ RedsApart[t.r])
<1> USE HeightAssumption
<1> DEFINE E(t, f) == t # Empty => /\ Red(t) => ~Red(t.l) /\ ~Red(t.r)
                                   /\ f[t.l] /\ f[t.r]
           P(f, h) == f = [t \in Below[h] |-> E(t, f)]
           S == {h \in 0..MaxHeight : \E f : P(f, h)}
<1>1. ASSUME NEW h \in 0..(MaxHeight - 1), NEW f, NEW g, \A t \in Below[h] : f[t] = g[t],
             NEW t \in Below[h + 1]
      PROVE  E(t, f) = E(t, g)
  <2>1. t # Empty => t.l \in Below[h] /\ t.r \in Below[h]
    BY Zenon, PartsIn
  <2>2. QED
    BY Zenon, <1>1, <2>1
<1>2. ASSUME NEW f, NEW g PROVE E(Empty, f) = E(Empty, g)
  OBVIOUS
<1>3. RedsApart = CHOOSE f : P(f, MaxHeight)
  BY Zenon DEF RedsApart, Trees
<1> HIDE DEF E
<1>4. 0 \in S
  <2>1. 0 \in 0..MaxHeight
    OBVIOUS
  <2>2. Below[0] = {Empty}
    BY Zenon, <2>1, BelowRule
  <2> DEFINE g == [t \in Below[0] |-> E(t, <<>>)]
  <2>3. g = [t \in Below[0] |-> E(t, g)]
    <3>1. \A t \in Below[0] : E(t, <<>>) = E(t, g)
      BY Zenon, <1>2, <2>2
    <3>2. QED
      BY Zenon, <3>1
  <2>4. QED
    BY Zenon, <2>1, <2>3
<1>5. ASSUME NEW h \in 0..(MaxHeight - 1), h \in S PROVE h + 1 \in S
  <2>1. PICK f : f = [t \in Below[h] |-> E(t, f)]
    BY Zenon, <1>5
  <2> DEFINE g == [t \in Below[h + 1] |-> E(t, f)]
  <2>2. \A t \in Below[h + 1] : g[t] = E(t, f)
    OBVIOUS
  <2>3. \A t \in Below[h] : f[t] = E(t, f)
    BY Zenon, <2>1
  <2>4. Below[h] \subseteq Below[h + 1]
    BY Zenon, BelowStep
  <2>5. \A t \in Below[h] : f[t] = g[t]
    <3> HIDE DEF g
    <3>1. QED
      BY Zenon, <2>2, <2>3, <2>4
  <2>6. \A t \in Below[h + 1] : E(t, f) = E(t, g)
    <3> HIDE DEF g
    <3>1. QED
      BY Zenon, <1>1, <2>5
  <2>7. g = [t \in Below[h + 1] |-> E(t, g)]
    BY Zenon, <2>6
  <2>8. h + 1 \in 0..MaxHeight
    OBVIOUS
  <2>9. QED
    BY Zenon, <2>7, <2>8
<1>6. MaxHeight \in S
  <2> HIDE DEF S
  <2>1. \A h \in 0..MaxHeight : h \in S
    BY Zenon, <1>4, <1>5, UpTo
  <2>2. QED
    BY <2>1
<1>7. \E f : P(f, MaxHeight)
  BY Zenon, <1>6
<1>8. P(RedsApart, MaxHeight)
  <2> HIDE DEF P
  <2>1. QED
    BY Zenon, <1>3, <1>7
<1>9. \A t \in Trees : RedsApart[t] = E(t, RedsApart)
  BY Zenon, <1>8 DEF Trees
<1>10. QED
  BY Zenon, <1>9 DEF E

(* Replace follows its rule. *)
LEMMA ReplaceRule ==
  ASSUME NEW old, NEW new
  PROVE  \A t \in Trees :
            Replace(old, new)[t] =
               IF t = Empty THEN t
               ELSE Tree(t.c, Replace(old, new)[t.l],
                         IF t.n = old THEN new ELSE t.n, Replace(old, new)[t.r])
<1> USE HeightAssumption
<1> DEFINE E(t, f) == IF t = Empty THEN t
                      ELSE Tree(t.c, f[t.l], IF t.n = old THEN new ELSE t.n, f[t.r])
           P(f, h) == f = [t \in Below[h] |-> E(t, f)]
           S == {h \in 0..MaxHeight : \E f : P(f, h)}
<1>1. ASSUME NEW h \in 0..(MaxHeight - 1), NEW f, NEW g, \A t \in Below[h] : f[t] = g[t],
             NEW t \in Below[h + 1]
      PROVE  E(t, f) = E(t, g)
  <2>1. t # Empty => t.l \in Below[h] /\ t.r \in Below[h]
    BY Zenon, PartsIn
  <2>2. QED
    BY Zenon, <1>1, <2>1
<1>2. ASSUME NEW f, NEW g PROVE E(Empty, f) = E(Empty, g)
  OBVIOUS
<1>3. Replace(old, new) = CHOOSE f : P(f, MaxHeight)
  BY Zenon DEF Replace, Trees
<1> HIDE DEF E
<1>4. 0 \in S
  <2>1. 0 \in 0..MaxHeight
    OBVIOUS
  <2>2. Below[0] = {Empty}
    BY Zenon, <2>1, BelowRule
  <2> DEFINE g == [t \in Below[0] |-> E(t, <<>>)]
  <2>3. g = [t \in Below[0] |-> E(t, g)]
    <3>1. \A t \in Below[0] : E(t, <<>>) = E(t, g)
      BY Zenon, <1>2, <2>2
    <3>2. QED
      BY Zenon, <3>1
  <2>4. QED
    BY Zenon, <2>1, <2>3
<1>5. ASSUME NEW h \in 0..(MaxHeight - 1), h \in S PROVE h + 1 \in S
  <2>1. PICK f : f = [t \in Below[h] |-> E(t, f)]
    BY Zenon, <1>5
  <2> DEFINE g == [t \in Below[h + 1] |-> E(t, f)]
  <2>2. \A t \in Below[h + 1] : g[t] = E(t, f)
    OBVIOUS
  <2>3. \A t \in Below[h] : f[t] = E(t, f)
    BY Zenon, <2>1
  <2>4. Below[h] \subseteq Below[h + 1]
    BY Zenon, BelowStep
  <2>5. \A t \in Below[h] : f[t] = g[t]
    <3> HIDE DEF g
    <3>1. QED
      BY Zenon, <2>2, <2>3, <2>4
  <2>6. \A t \in Below[h + 1] : E(t, f) = E(t, g)
    <3> HIDE DEF g
    <3>1. QED
      BY Zenon, <1>1, <2>5
  <2>7. g = [t \in Below[h + 1] |-> E(t, g)]
    BY Zenon, <2>6
  <2>8. h + 1 \in 0..MaxHeight
    OBVIOUS
  <2>9. QED
    BY Zenon, <2>7, <2>8
<1>6. MaxHeight \in S
  <2> HIDE DEF S
  <2>1. \A h \in 0..MaxHeight : h \in S
    BY Zenon, <1>4, <1>5, UpTo
  <2>2. QED
    BY <2>1
<1>7. \E f : P(f, MaxHeight)
  BY Zenon, <1>6
<1>8. P(Replace(old, new), MaxHeight)
  <2> HIDE DEF P
  <2>1. QED
    BY Zenon, <1>3, <1>7
<1>9. \A t \in Trees : Replace(old, new)[t] = E(t, Replace(old, new))
  BY Zenon, <1>8 DEF Trees
<1>10. QED
  BY Zenon, <1>9 DEF E

(* Link follows its rule. *)
LEMMA LinkRule ==
  ASSUME NEW n, NEW dir
  PROVE  \A t \in Trees :
            Link(n, dir)[t] =
               IF t = Empty THEN Tree("red", Empty, n, Empty)
               ELSE InsertFix(With(t, Turn(dir[t.n]), Link(n, dir)[Sub(t, Turn(dir[t.n]))]),
                              Turn(dir[t.n]))
<1> USE HeightAssumption
<1> DEFINE E(t, f) == IF t = Empty THEN Tree("red", Empty, n, Empty)
                      ELSE InsertFix(With(t, Turn(dir[t.n]), f[Sub(t, Turn(dir[t.n]))]),
                                     Turn(dir[t.n]))
           P(f, h) == f = [t \in Below[h] |-> E(t, f)]
           S == {h \in 0..MaxHeight : \E f : P(f, h)}
<1>1. ASSUME NEW h \in 0..(MaxHeight - 1), NEW f, NEW g, \A t \in Below[h] : f[t] = g[t],
             NEW t \in Below[h + 1]
      PROVE  E(t, f) = E(t, g)
  <2>1. t # Empty => t.l \in Below[h] /\ t.r \in Below[h]
    BY Zenon, PartsIn
  <2>2. t # Empty => \A s : f[Sub(t, s)] = g[Sub(t, s)]
    BY Zenon, <1>1, <2>1 DEF Sub
  <2>3. QED
    BY Zenon, <2>2
<1>2. ASSUME NEW f, NEW g PROVE E(Empty, f) = E(Empty, g)
  OBVIOUS
<1>3. Link(n, dir) = CHOOSE f : P(f, MaxHeight)
  BY Zenon DEF Link, Trees
<1> HIDE DEF E
<1>4. 0 \in S
  <2>1. 0 \in 0..MaxHeight
    OBVIOUS
  <2>2. Below[0] = {Empty}
    BY Zenon, <2>1, BelowRule
  <2> DEFINE g == [t \in Below[0] |-> E(t, <<>>)]
  <2>3. g = [t \in Below[0] |-> E(t, g)]
    <3>1. \A t \in Below[0] : E(t, <<>>) = E(t, g)
      BY Zenon, <1>2, <2>2
    <3>2. QED
      BY Zenon, <3>1
  <2>4. QED
    BY Zenon, <2>1, <2>3
<1>5. ASSUME NEW h \in 0..(MaxHeight - 1), h \in S PROVE h + 1 \in S
  <2>1. PICK f : f = [t \in Below[h] |-> E(t, f)]
    BY Zenon, <1>5
  <2> DEFINE g == [t \in Below[h + 1] |-> E(t, f)]
  <2>2. \A t \in Below[h + 1] : g[t] = E(t, f)
    OBVIOUS
  <2>3. \A t \in Below[h] : f[t] = E(t, f)
    BY Zenon, <2>1
  <2>4. Below[h] \subseteq Below[h + 1]
    BY Zenon, BelowStep
  <2>5. \A t \in Below[h] : f[t] = g[t]
    <3> HIDE DEF g
    <3>1. QED
      BY Zenon, <2>2, <2>3, <2>4
  <2>6. \A t \in Below[h + 1] : E(t, f) = E(t, g)
    <3> HIDE DEF g
    <3>1. QED
      BY Zenon, <1>1, <2>5
  <2>7. g = [t \in Below[h + 1] |-> E(t, g)]
    BY Zenon, <2>6
  <2>8. h + 1 \in 0..MaxHeight
    OBVIOUS
  <2>9. QED
    BY Zenon, <2>7, <2>8
<1>6. MaxHeight \in S
  <2> HIDE DEF S
  <2>1. \A h \in 0..MaxHeight : h \in S
    BY Zenon, <1>4, <1>5, UpTo
  <2>2. QED
    BY <2>1
<1>7. \E f : P(f, MaxHeight)
  BY Zenon, <1>6
<1>8. P(Link(n, dir), MaxHeight)
  <2> HIDE DEF P
  <2>1. QED
    BY Zenon, <1>3, <1>7
<1>9. \A t \in Trees : Link(n, dir)[t] = E(t, Link(n, dir))
  BY Zenon, <1>8 DEF Trees
<1>10. QED
  BY Zenon, <1>9 DEF E

(* Descend follows its rule. *)
LEMMA DescendRule ==
  ASSUME NEW dir
  PROVE  \A t \in Trees :
            Descend(dir)[t] =
               IF t = Empty THEN {}
               ELSE IF dir[t.n] = 0 THEN {t.n} ELSE Descend(dir)[Sub(t, Turn(dir[t.n]))]
<1> USE HeightAssumption
<1> DEFINE E(t, f) == IF t = Empty THEN {}
                      ELSE IF dir[t.n] = 0 THEN {t.n} ELSE f[Sub(t, Turn(dir[t.n]))]
           P(f, h) == f = [t \in Below[h] |-> E(t, f)]
           S == {h \in 0..MaxHeight : \E f : P(f, h)}
<1>1. ASSUME NEW h \in 0..(MaxHeight - 1), NEW f, NEW g, \A t \in Below[h] : f[t] = g[t],
             NEW t \in Below[h + 1]
      PROVE  E(t, f) = E(t, g)
  <2>1. t # Empty => t.l \in Below[h] /\ t.r \in Below[h]
    BY Zenon, PartsIn
  <2>2. t # Empty => \A s : f[Sub(t, s)] = g[Sub(t, s)]
    BY Zenon, <1>1, <2>1 DEF Sub
  <2>3. QED
    BY Zenon, <2>2
<1>2. ASSUME NEW f, NEW g PROVE E(Empty, f) = E(Empty, g)
  OBVIOUS
<1>3. Descend(dir) = CHOOSE f : P(f, MaxHeight)
  BY Zenon DEF Descend, Trees
<1> HIDE DEF E
<1>4. 0 \in S
  <2>1. 0 \in 0..MaxHeight
    OBVIOUS
  <2>2. Below[0] = {Empty}
    BY Zenon, <2>1, BelowRule
  <2> DEFINE g == [t \in Below[0] |-> E(t, <<>>)]
  <2>3. g = [t \in Below[0] |-> E(t, g)]
    <3>1. \A t \in Below[0] : E(t, <<>>) = E(t, g)
      BY Zenon, <1>2, <2>2
    <3>2. QED
      BY Zenon, <3>1
  <2>4. QED
    BY Zenon, <2>1, <2>3
<1>5. ASSUME NEW h \in 0..(MaxHeight - 1), h \in S PROVE h + 1 \in S
  <2>1. PICK f : f = [t \in Below[h] |-> E(t, f)]
    BY Zenon, <1>5
  <2> DEFINE g == [t \in Below[h + 1] |-> E(t, f)]
  <2>2. \A t \in Below[h + 1] : g[t] = E(t, f)
    OBVIOUS
  <2>3. \A t \in Below[h] : f[t] = E(t, f)
    BY Zenon, <2>1
  <2>4. Below[h] \subseteq Below[h + 1]
    BY Zenon, BelowStep
  <2>5. \A t \in Below[h] : f[t] = g[t]
    <3> HIDE DEF g
    <3>1. QED
      BY Zenon, <2>2, <2>3, <2>4
  <2>6. \A t \in Below[h + 1] : E(t, f) = E(t, g)
    <3> HIDE DEF g
    <3>1. QED
      BY Zenon, <1>1, <2>5
  <2>7. g = [t \in Below[h + 1] |-> E(t, g)]
    BY Zenon, <2>6
  <2>8. h + 1 \in 0..MaxHeight
    OBVIOUS
  <2>9. QED
    BY Zenon, <2>7, <2>8
<1>6. MaxHeight \in S
  <2> HIDE DEF S
  <2>1. \A h \in 0..MaxHeight : h \in S
    BY Zenon, <1>4, <1>5, UpTo
  <2>2. QED
    BY <2>1
<1>7. \E f : P(f, MaxHeight)
  BY Zenon, <1>6
<1>8. P(Descend(dir), MaxHeight)
  <2> HIDE DEF P
  <2>1. QED
    BY Zenon, <1>3, <1>7
<1>9. \A t \in Trees : Descend(dir)[t] = E(t, Descend(dir))
  BY Zenon, <1>8 DEF Trees
<1>10. QED
  BY Zenon, <1>9 DEF E

\* The nodes of a tree are in the order of the keys k.
Sorted(k) ==
    LET sorted[t \in Trees] ==
            t # Empty => /\ \A x \in Nodes[t.l] : k[x] < k[t.n]
                         /\ \A x \in Nodes[t.r] : k[t.n] < k[x]
                         /\ sorted[t.l] /\ sorted[t.r]
    IN  sorted

(* Sorted follows its rule. *)
LEMMA SortedRule ==
  ASSUME NEW k
  PROVE  \A t \in Trees :
            Sorted(k)[t] = (t # Empty => /\ \A x \in Nodes[t.l] : k[x] < k[t.n]
                                         /\ \A x \in Nodes[t.r] : k[t.n] < k[x]
                                         /\ Sorted(k)[t.l] /\ Sorted(k)[t.r])
<1> USE HeightAssumption
<1> DEFINE E(t, f) == t # Empty => /\ \A x \in Nodes[t.l] : k[x] < k[t.n]
                                   /\ \A x \in Nodes[t.r] : k[t.n] < k[x]
                                   /\ f[t.l] /\ f[t.r]
           P(f, h) == f = [t \in Below[h] |-> E(t, f)]
           S == {h \in 0..MaxHeight : \E f : P(f, h)}
<1>1. ASSUME NEW h \in 0..(MaxHeight - 1), NEW f, NEW g, \A t \in Below[h] : f[t] = g[t],
             NEW t \in Below[h + 1]
      PROVE  E(t, f) = E(t, g)
  <2>1. t # Empty => t.l \in Below[h] /\ t.r \in Below[h]
    BY Zenon, PartsIn
  <2>2. QED
    BY Zenon, <1>1, <2>1
<1>2. ASSUME NEW f, NEW g PROVE E(Empty, f) = E(Empty, g)
  OBVIOUS
<1>3. Sorted(k) = CHOOSE f : P(f, MaxHeight)
  BY Zenon DEF Sorted, Trees
<1> HIDE DEF E
<1>4. 0 \in S
  <2>1. 0 \in 0..MaxHeight
    OBVIOUS
  <2>2. Below[0] = {Empty}
    BY Zenon, <2>1, BelowRule
  <2> DEFINE g == [t \in Below[0] |-> E(t, <<>>)]
  <2>3. g = [t \in Below[0] |-> E(t, g)]
    <3>1. \A t \in Below[0] : E(t, <<>>) = E(t, g)
      BY Zenon, <1>2, <2>2
    <3>2. QED
      BY Zenon, <3>1
  <2>4. QED
    BY Zenon, <2>1, <2>3
<1>5. ASSUME NEW h \in 0..(MaxHeight - 1), h \in S PROVE h + 1 \in S
  <2>1. PICK f : f = [t \in Below[h] |-> E(t, f)]
    BY Zenon, <1>5
  <2> DEFINE g == [t \in Below[h + 1] |-> E(t, f)]
  <2>2. \A t \in Below[h + 1] : g[t] = E(t, f)
    OBVIOUS
  <2>3. \A t \in Below[h] : f[t] = E(t, f)
    BY Zenon, <2>1
  <2>4. Below[h] \subseteq Below[h + 1]
    BY Zenon, BelowStep
  <2>5. \A t \in Below[h] : f[t] = g[t]
    <3> HIDE DEF g
    <3>1. QED
      BY Zenon, <2>2, <2>3, <2>4
  <2>6. \A t \in Below[h + 1] : E(t, f) = E(t, g)
    <3> HIDE DEF g
    <3>1. QED
      BY Zenon, <1>1, <2>5
  <2>7. g = [t \in Below[h + 1] |-> E(t, g)]
    BY Zenon, <2>6
  <2>8. h + 1 \in 0..MaxHeight
    OBVIOUS
  <2>9. QED
    BY Zenon, <2>7, <2>8
<1>6. MaxHeight \in S
  <2> HIDE DEF S
  <2>1. \A h \in 0..MaxHeight : h \in S
    BY Zenon, <1>4, <1>5, UpTo
  <2>2. QED
    BY <2>1
<1>7. \E f : P(f, MaxHeight)
  BY Zenon, <1>6
<1>8. P(Sorted(k), MaxHeight)
  <2> HIDE DEF P
  <2>1. QED
    BY Zenon, <1>3, <1>7
<1>9. \A t \in Trees : Sorted(k)[t] = E(t, Sorted(k))
  BY Zenon, <1>8 DEF Trees
<1>10. QED
  BY Zenon, <1>9 DEF E

(* Erase follows its rule. *)
LEMMA EraseRule ==
  \A t \in Trees :
     Erase[t] =
        [n \in Node |->
            IF t = Empty THEN Cut(t, FALSE)
            ELSE IF t.n = n
            THEN IF t.l = Empty \/ t.r = Empty THEN Unlink(t)
                 ELSE After(Tree(t.c, t.l, rb_first[t.r], t.r), "r", Erase[t.r][rb_first[t.r]])
            ELSE After(t, IF n \in Nodes[t.l] THEN "l" ELSE "r",
                       Erase[Sub(t, IF n \in Nodes[t.l] THEN "l" ELSE "r")][n])]
<1> USE HeightAssumption
<1> DEFINE E(t, f) == 
        [n \in Node |->
            IF t = Empty THEN Cut(t, FALSE)
            ELSE IF t.n = n
            THEN IF t.l = Empty \/ t.r = Empty THEN Unlink(t)
                 ELSE After(Tree(t.c, t.l, rb_first[t.r], t.r), "r", f[t.r][rb_first[t.r]])
            ELSE After(t, IF n \in Nodes[t.l] THEN "l" ELSE "r",
                       f[Sub(t, IF n \in Nodes[t.l] THEN "l" ELSE "r")][n])]
           P(f, h) == f = [t \in Below[h] |-> E(t, f)]
           S == {h \in 0..MaxHeight : \E f : P(f, h)}
<1>1. ASSUME NEW h \in 0..(MaxHeight - 1), NEW f, NEW g, \A t \in Below[h] : f[t] = g[t],
             NEW t \in Below[h + 1]
      PROVE  E(t, f) = E(t, g)
  <2>1. t # Empty => t.l \in Below[h] /\ t.r \in Below[h]
    BY Zenon, PartsIn
  <2>2. t # Empty => \A s : f[Sub(t, s)] = g[Sub(t, s)]
    BY Zenon, <1>1, <2>1 DEF Sub
  <2>3. t # Empty => f[t.r] = g[t.r]
    BY Zenon, <1>1, <2>1
  <2>4. QED
    BY Zenon, <2>2, <2>3
<1>2. ASSUME NEW f, NEW g PROVE E(Empty, f) = E(Empty, g)
  OBVIOUS
<1>3. Erase = CHOOSE f : P(f, MaxHeight)
  BY Zenon DEF Erase, Trees
<1> HIDE DEF E
<1>4. 0 \in S
  <2>1. 0 \in 0..MaxHeight
    OBVIOUS
  <2>2. Below[0] = {Empty}
    BY Zenon, <2>1, BelowRule
  <2> DEFINE g == [t \in Below[0] |-> E(t, <<>>)]
  <2>3. g = [t \in Below[0] |-> E(t, g)]
    <3>1. \A t \in Below[0] : E(t, <<>>) = E(t, g)
      BY Zenon, <1>2, <2>2
    <3>2. QED
      BY Zenon, <3>1
  <2>4. QED
    BY Zenon, <2>1, <2>3
<1>5. ASSUME NEW h \in 0..(MaxHeight - 1), h \in S PROVE h + 1 \in S
  <2>1. PICK f : f = [t \in Below[h] |-> E(t, f)]
    BY Zenon, <1>5
  <2> DEFINE g == [t \in Below[h + 1] |-> E(t, f)]
  <2>2. \A t \in Below[h + 1] : g[t] = E(t, f)
    OBVIOUS
  <2>3. \A t \in Below[h] : f[t] = E(t, f)
    BY Zenon, <2>1
  <2>4. Below[h] \subseteq Below[h + 1]
    BY Zenon, BelowStep
  <2>5. \A t \in Below[h] : f[t] = g[t]
    <3> HIDE DEF g
    <3>1. QED
      BY Zenon, <2>2, <2>3, <2>4
  <2>6. \A t \in Below[h + 1] : E(t, f) = E(t, g)
    <3> HIDE DEF g
    <3>1. QED
      BY Zenon, <1>1, <2>5
  <2>7. g = [t \in Below[h + 1] |-> E(t, g)]
    BY Zenon, <2>6
  <2>8. h + 1 \in 0..MaxHeight
    OBVIOUS
  <2>9. QED
    BY Zenon, <2>7, <2>8
<1>6. MaxHeight \in S
  <2> HIDE DEF S
  <2>1. \A h \in 0..MaxHeight : h \in S
    BY Zenon, <1>4, <1>5, UpTo
  <2>2. QED
    BY <2>1
<1>7. \E f : P(f, MaxHeight)
  BY Zenon, <1>6
<1>8. P(Erase, MaxHeight)
  <2> HIDE DEF P
  <2>1. QED
    BY Zenon, <1>3, <1>7
<1>9. \A t \in Trees : Erase[t] = E(t, Erase)
  BY Zenon, <1>8 DEF Trees
<1>10. QED
  BY Zenon, <1>9 DEF E

-----------------------------------------------------------------------------
(* Sound trees: sorted by the keys k, of height H at most, with h black    *)
(* nodes on every path and no red child of a red node.                     *)
Sound(k, t, H, h) ==
    /\ H \in 0..MaxHeight /\ t \in Below[H]
    /\ Sorted(k)[t] /\ RedsApart[t] /\ BlackHeights[t] = {h}

\* The keys are numbers.
Numbers(k) == k \in [Node -> Int]

\* The order of keys met from side s.
Lt(s, x, y) == IF s = "l" THEN x < y ELSE y < x

(* Both orders are strict. *)
LEMMA LtStrict ==
  ASSUME NEW s
  PROVE  \A x, y, z \in Int : Lt(s, x, y) => ~Lt(s, y, x) /\ (Lt(s, y, z) => Lt(s, x, z))
BY DEF Lt

\* The black nodes a root of colour c adds to a path.
Blacks(c) == IF c = "red" THEN 0 ELSE 1

\* n comes between the nodes of a, on side s, and those of b.
Between(k, s, a, n, b) ==
    /\ \A x \in Nodes[a] : Lt(s, k[x], k[n])
    /\ \A x \in Nodes[b] : Lt(s, k[n], k[x])

(* The other side. *)
LEMMA Sides == \A s \in Side : Other(s) \in Side /\ Other(Other(s)) = s /\ Other(s) # s
BY Zenon DEF Side, Other

(* What is put on a side is found there. *)
LEMMA MakeFields ==
  ASSUME NEW c, NEW n, NEW s \in Side, NEW a, NEW b
  PROVE  /\ Make(c, n, s, a, b) # Empty
         /\ Make(c, n, s, a, b).c = c /\ Make(c, n, s, a, b).n = n
         /\ Sub(Make(c, n, s, a, b), s) = a /\ Sub(Make(c, n, s, a, b), Other(s)) = b
         /\ Red(Make(c, n, s, a, b)) <=> c = "red"
         /\ Make(c, n, s, a, b) = Make(c, n, Other(s), b, a)
<1>1. CASE s = "l"
  BY <1>1, TreeFields DEF Make, Sub, Other, Red
<1>2. CASE s = "r"
  BY <1>2, TreeFields DEF Make, Sub, Other, Red
<1>3. QED
  BY Zenon, <1>1, <1>2 DEF Side

(* A tree is made of its parts. *)
LEMMA MakeOfParts ==
  ASSUME NEW t \in Trees, t # Empty, NEW s \in Side
  PROVE  t = Make(t.c, t.n, s, Sub(t, s), Sub(t, Other(s)))
<1>1. t = Tree(t.c, t.l, t.n, t.r)
  BY Zenon, PartsTrees
<1>2. CASE s = "l"
  BY Zenon, <1>1, <1>2 DEF Make, Sub, Other
<1>3. CASE s = "r"
  BY Zenon, <1>1, <1>3 DEF Make, Sub, Other
<1>4. QED
  BY Zenon, <1>2, <1>3 DEF Side

(* Every path has a number of black nodes. *)
LEMMA BlackSome == \A t \in Trees : BlackHeights[t] # {} /\ BlackHeights[t] \subseteq Nat
<1> DEFINE S == {t \in Trees : BlackHeights[t] # {} /\ BlackHeights[t] \subseteq Nat}
<1>1. Empty \in S
  <2>1. BlackHeights[Empty] = {0}
    BY Zenon, EmptyTree, BlackHeightsRule
  <2>2. QED
    BY <2>1, EmptyTree
<1>2. ASSUME NEW t \in Trees, t # Empty, t.l \in S, t.r \in S PROVE t \in S
  <2>1. BlackHeights[t] =
          {h + (IF Red(t) THEN 0 ELSE 1) : h \in BlackHeights[t.l] \cup BlackHeights[t.r]}
    BY Zenon, <1>2, BlackHeightsRule
  <2>2. QED
    BY <1>2, <2>1
<1>3. \A t \in Trees : t \in S
  <2> HIDE DEF S
  <2>1. QED
    BY Zenon, <1>1, <1>2, TreeInduction
<1>4. QED
  BY Zenon, <1>3

(* The empty tree is sound. *)
LEMMA EmptySound ==
  ASSUME NEW k, NEW H \in 0..MaxHeight
  PROVE  Sound(k, Empty, H, 0) /\ Nodes[Empty] = {} /\ ~Red(Empty)
<1>1. Empty \in Below[H] /\ Empty \in Trees
  BY Zenon, EmptyIn, EmptyTree
<1>2. Nodes[Empty] = {} /\ BlackHeights[Empty] = {0}
  BY Zenon, <1>1, NodesRule, BlackHeightsRule
<1>3. RedsApart[Empty] = TRUE /\ Sorted(k)[Empty] = TRUE
  BY Zenon, <1>1, RedsApartRule, SortedRule
<1>4. QED
  BY Zenon, <1>1, <1>2, <1>3 DEF Sound, Red

(* The nodes of a tree made of two. *)
LEMMA MakeIn ==
  ASSUME NEW H \in 0..(MaxHeight - 1), NEW c \in Colours, NEW n \in Node, NEW s \in Side,
         NEW a \in Below[H], NEW b \in Below[H]
  PROVE  /\ Make(c, n, s, a, b) \in Below[H + 1] /\ Make(c, n, s, a, b) \in Trees
         /\ Nodes[Make(c, n, s, a, b)] = Nodes[a] \cup {n} \cup Nodes[b]
<1>1. H + 1 \in 0..MaxHeight
  BY HeightAssumption
<1>2. Make(c, n, s, a, b) \in Below[H + 1]
  BY Zenon, TreeIn DEF Make
<1>3. Make(c, n, s, a, b) \in Trees
  BY Zenon, <1>1, <1>2, BelowTrees
<1>4. CASE s = "l"
  <2>1. Make(c, n, s, a, b) = Tree(c, a, n, b)
    BY Zenon, <1>4 DEF Make
  <2>2. Nodes[Tree(c, a, n, b)] = Nodes[a] \cup {n} \cup Nodes[b]
    <3> DEFINE t == Tree(c, a, n, b)
    <3>1. t # Empty /\ t.l = a /\ t.n = n /\ t.r = b /\ t \in Trees
      BY <1>3, <2>1, TreeFields
    <3> HIDE DEF t
    <3>2. Nodes[t] = Nodes[a] \cup {n} \cup Nodes[b]
      BY Zenon, <3>1, NodesRule
    <3>3. QED
      BY Zenon, <3>2 DEF t
  <2>3. QED
    BY Zenon, <1>2, <1>3, <2>1, <2>2
<1>5. CASE s = "r"
  <2>1. Make(c, n, s, a, b) = Tree(c, b, n, a)
    BY Zenon, <1>5 DEF Make
  <2>2. Nodes[Tree(c, b, n, a)] = Nodes[b] \cup {n} \cup Nodes[a]
    <3> DEFINE t == Tree(c, b, n, a)
    <3>1. t # Empty /\ t.l = b /\ t.n = n /\ t.r = a /\ t \in Trees
      BY <1>3, <2>1, TreeFields
    <3> HIDE DEF t
    <3>2. Nodes[t] = Nodes[b] \cup {n} \cup Nodes[a]
      BY Zenon, <3>1, NodesRule
    <3>3. QED
      BY Zenon, <3>2 DEF t
  <2>3. Nodes[b] \cup {n} \cup Nodes[a] = Nodes[a] \cup {n} \cup Nodes[b]
    OBVIOUS
  <2>4. QED
    BY Zenon, <1>2, <1>3, <2>1, <2>2, <2>3
<1>6. QED
  BY Zenon, <1>4, <1>5 DEF Side

\* Two sound trees of the same black height, with a node between them.
Joins(k, H, h, c, n, s, a, b) ==
    /\ H < MaxHeight /\ h \in Nat /\ c \in Colours /\ n \in Node /\ s \in Side
    /\ Sound(k, a, H, h) /\ Sound(k, b, H, h) /\ Between(k, s, a, n, b)
    /\ c = "red" => ~Red(a) /\ ~Red(b)

(* They make a sound tree. *)
LEMMA MakeSound ==
  ASSUME NEW k, NEW H, NEW h, NEW c, NEW n, NEW s, NEW a, NEW b, Joins(k, H, h, c, n, s, a, b)
  PROVE  /\ Sound(k, Make(c, n, s, a, b), H + 1, h + Blacks(c))
         /\ Nodes[Make(c, n, s, a, b)] = Nodes[a] \cup {n} \cup Nodes[b]
<1> DEFINE t == Make(c, n, s, a, b)
<1>0. /\ H < MaxHeight /\ h \in Nat /\ c \in Colours /\ n \in Node /\ s \in Side
      /\ Sound(k, a, H, h) /\ Sound(k, b, H, h) /\ Between(k, s, a, n, b)
      /\ c = "red" => ~Red(a) /\ ~Red(b)
  BY Zenon DEF Joins
<1> USE <1>0
<1>1. H \in 0..(MaxHeight - 1) /\ H + 1 \in 0..MaxHeight /\ a \in Below[H] /\ b \in Below[H]
  BY HeightAssumption DEF Sound
<1>2. /\ t \in Below[H + 1] /\ t \in Trees /\ Nodes[t] = Nodes[a] \cup {n} \cup Nodes[b]
  BY <1>1, MakeIn
<1>3. t # Empty /\ t.c = c /\ t.n = n /\ (Red(t) <=> c = "red")
  BY MakeFields
<1>4. \/ s = "l" /\ t.l = a /\ t.r = b
      \/ s = "r" /\ t.l = b /\ t.r = a
  BY TreeFields DEF Make, Side
<1> HIDE DEF t
<1>5. Sorted(k)[t]
  <2>1. Sorted(k)[t] = (t # Empty => /\ \A x \in Nodes[t.l] : k[x] < k[t.n]
                                     /\ \A x \in Nodes[t.r] : k[t.n] < k[x]
                                     /\ Sorted(k)[t.l] /\ Sorted(k)[t.r])
    BY Zenon, <1>2, SortedRule
  <2>2. Sorted(k)[a] /\ Sorted(k)[b]
    BY Zenon DEF Sound
  <2>3. QED
    BY Zenon, <1>3, <1>4, <2>1, <2>2 DEF Between, Lt
<1>6. RedsApart[t]
  <2>1. RedsApart[t] = (t # Empty => /\ Red(t) => ~Red(t.l) /\ ~Red(t.r)
                                     /\ RedsApart[t.l] /\ RedsApart[t.r])
    BY Zenon, <1>2, RedsApartRule
  <2>2. RedsApart[a] /\ RedsApart[b]
    BY Zenon DEF Sound
  <2>3. QED
    BY Zenon, <1>3, <1>4, <2>1, <2>2
<1>7. BlackHeights[t] = {h + Blacks(c)}
  <2>1. BlackHeights[t] =
          {i + (IF Red(t) THEN 0 ELSE 1) : i \in BlackHeights[t.l] \cup BlackHeights[t.r]}
    BY Zenon, <1>2, <1>3, BlackHeightsRule
  <2>2. BlackHeights[a] = {h} /\ BlackHeights[b] = {h}
    BY Zenon DEF Sound
  <2>3. BlackHeights[t.l] \cup BlackHeights[t.r] = {h}
    BY Zenon, <1>4, <2>2
  <2>4. (IF Red(t) THEN 0 ELSE 1) = Blacks(c)
    BY Zenon, <1>3 DEF Blacks
  <2>5. QED
    BY Zenon, <2>1, <2>3, <2>4
<1>8. QED
  BY Zenon, <1>1, <1>2, <1>5, <1>6, <1>7 DEF Sound, t

(* The parts of a sound tree, seen from either side. *)
LEMMA SoundParts ==
  ASSUME NEW k, NEW H, NEW h, NEW t, t # Empty, NEW s \in Side, Sound(k, t, H, h)
  PROVE  /\ H > 0 /\ h - Blacks(t.c) \in Nat /\ h \in Nat /\ t.c \in Colours /\ t.n \in Node
         /\ Sound(k, Sub(t, s), H - 1, h - Blacks(t.c))
         /\ Sound(k, Sub(t, Other(s)), H - 1, h - Blacks(t.c))
         /\ Between(k, s, Sub(t, s), t.n, Sub(t, Other(s)))
         /\ Nodes[t] = Nodes[Sub(t, s)] \cup {t.n} \cup Nodes[Sub(t, Other(s))]
         /\ Red(t) => ~Red(Sub(t, s)) /\ ~Red(Sub(t, Other(s)))
         /\ t = Make(t.c, t.n, s, Sub(t, s), Sub(t, Other(s)))
         /\ Red(t) <=> t.c = "red"
<1>1. H \in 0..MaxHeight /\ t \in Below[H] /\ t \in Trees
  BY Zenon, BelowTrees DEF Sound
<1>2. /\ H > 0 /\ t.c \in Colours /\ t.n \in Node
      /\ t.l \in Below[H - 1] /\ t.r \in Below[H - 1]
  BY Zenon, <1>1, TreeParts
<1>3. H - 1 \in 0..MaxHeight /\ t.l \in Trees /\ t.r \in Trees
  <2>1. H - 1 \in 0..MaxHeight
    BY <1>1, <1>2, HeightAssumption
  <2>2. QED
    BY Zenon, <1>2, <2>1, BelowTrees
<1>4. /\ \A x \in Nodes[t.l] : k[x] < k[t.n]
      /\ \A x \in Nodes[t.r] : k[t.n] < k[x]
      /\ Sorted(k)[t.l] /\ Sorted(k)[t.r]
  BY Zenon, <1>1, SortedRule DEF Sound
<1>5. (Red(t) => ~Red(t.l) /\ ~Red(t.r)) /\ RedsApart[t.l] /\ RedsApart[t.r]
  BY Zenon, <1>1, RedsApartRule DEF Sound
<1>6. Nodes[t] = Nodes[t.l] \cup {t.n} \cup Nodes[t.r]
  BY Zenon, <1>1, NodesRule
<1>7. Red(t) <=> t.c = "red"
  BY Zenon DEF Red
<1>8. /\ h - Blacks(t.c) \in Nat /\ h \in Nat
      /\ BlackHeights[t.l] = {h - Blacks(t.c)} /\ BlackHeights[t.r] = {h - Blacks(t.c)}
  <2>1. BlackHeights[t] =
          {i + (IF Red(t) THEN 0 ELSE 1) : i \in BlackHeights[t.l] \cup BlackHeights[t.r]}
    BY Zenon, <1>1, BlackHeightsRule
  <2>2. (IF Red(t) THEN 0 ELSE 1) = Blacks(t.c) /\ Blacks(t.c) \in Nat
    BY Zenon, <1>7 DEF Blacks
  <2>3. BlackHeights[t] = {h}
    BY Zenon DEF Sound
  <2>4. /\ BlackHeights[t.l] # {} /\ BlackHeights[t.l] \subseteq Nat
        /\ BlackHeights[t.r] # {} /\ BlackHeights[t.r] \subseteq Nat
    BY Zenon, <1>3, BlackSome
  <2>5. \A i \in BlackHeights[t.l] \cup BlackHeights[t.r] : i + Blacks(t.c) = h
    BY Zenon, <2>1, <2>2, <2>3
  <2>6. \A i \in BlackHeights[t.l] \cup BlackHeights[t.r] : i \in Nat /\ i = h - Blacks(t.c) /\ h \in Nat
    BY <2>2, <2>4, <2>5
  <2>7. QED
    BY <2>4, <2>6
<1>9. Sound(k, t.l, H - 1, h - Blacks(t.c)) /\ Sound(k, t.r, H - 1, h - Blacks(t.c))
  BY Zenon, <1>2, <1>3, <1>4, <1>5, <1>8 DEF Sound
<1>10. t = Make(t.c, t.n, s, Sub(t, s), Sub(t, Other(s)))
  BY Zenon, <1>1, MakeOfParts
<1>11. CASE s = "l"
  <2>1. Sub(t, s) = t.l /\ Sub(t, Other(s)) = t.r
    BY Zenon, <1>11 DEF Sub, Other
  <2>2. Between(k, s, t.l, t.n, t.r)
    BY Zenon, <1>4, <1>11 DEF Between, Lt
  <2>3. QED
    BY Zenon, <1>2, <1>5, <1>6, <1>7, <1>8, <1>9, <1>10, <2>1, <2>2
<1>12. CASE s = "r"
  <2>1. Sub(t, s) = t.r /\ Sub(t, Other(s)) = t.l
    BY Zenon, <1>12 DEF Sub, Other
  <2>2. Between(k, s, t.r, t.n, t.l)
    BY Zenon, <1>4, <1>12 DEF Between, Lt
  <2>3. Nodes[t.l] \cup {t.n} \cup Nodes[t.r] = Nodes[t.r] \cup {t.n} \cup Nodes[t.l]
    OBVIOUS
  <2>4. QED
    BY Zenon, <1>2, <1>5, <1>6, <1>7, <1>8, <1>9, <1>10, <2>1, <2>2, <2>3
<1>13. QED
  BY Zenon, <1>11, <1>12 DEF Side

(* The nodes of a tree are nodes. *)
LEMMA NodesIn == \A t \in Trees : Nodes[t] \subseteq Node
<1> DEFINE S == {t \in Trees : Nodes[t] \subseteq Node}
<1>1. Empty \in S
  BY Zenon, EmptyTree, NodesRule
<1>2. ASSUME NEW t \in Trees, t # Empty, t.l \in S, t.r \in S PROVE t \in S
  <2>1. Nodes[t] = Nodes[t.l] \cup {t.n} \cup Nodes[t.r] /\ t.n \in Node
    BY Zenon, <1>2, NodesRule, PartsTrees
  <2>2. QED
    BY Zenon, <1>2, <2>1
<1>3. \A t \in Trees : t \in S
  <2> HIDE DEF S
  <2>1. QED
    BY Zenon, <1>1, <1>2, TreeInduction
<1>4. QED
  BY Zenon, <1>3

(* A sound tree is one of any greater height; its nodes are nodes. *)
LEMMA SoundIn ==
  ASSUME NEW k, NEW H, NEW h, NEW t, Sound(k, t, H, h)
  PROVE  /\ t \in Trees /\ Nodes[t] \subseteq Node /\ h \in Nat
         /\ \A J \in 0..MaxHeight : H <= J => Sound(k, t, J, h)
<1>1. H \in 0..MaxHeight /\ t \in Below[H] /\ t \in Trees
  BY Zenon, BelowTrees DEF Sound
<1>2. h \in Nat
  BY Zenon, <1>1, BlackSome DEF Sound
<1>3. \A J \in 0..MaxHeight : H <= J => t \in Below[J]
  BY Zenon, <1>1, BelowMono
<1>4. QED
  BY Zenon, <1>1, <1>2, <1>3, NodesIn DEF Sound

(* Painting a tree made of parts. *)
LEMMA PaintMake ==
  ASSUME NEW c, NEW d, NEW n, NEW s \in Side, NEW a, NEW b
  PROVE  Paint(d, Make(c, n, s, a, b)) = Make(d, n, s, a, b)
<1>1. CASE s = "l"
  BY <1>1, TreeFields DEF Make, Paint
<1>2. CASE s = "r"
  BY <1>2, TreeFields DEF Make, Paint
<1>3. QED
  BY Zenon, <1>1, <1>2 DEF Side

(* A red tree painted black is sound and one black node higher. *)
LEMMA PaintBlack ==
  ASSUME NEW k, NEW H, NEW h, NEW t, Sound(k, t, H, h)
  PROVE  /\ Nodes[Paint("black", t)] = Nodes[t] /\ ~Red(Paint("black", t))
         /\ Red(t) => Sound(k, Paint("black", t), H, h + 1)
         /\ ~Red(t) => Paint("black", t) = t
<1>1. CASE t = Empty
  <2>1. Paint("black", t) = t /\ ~Red(t)
    BY Zenon, <1>1 DEF Paint, Red
  <2>2. QED
    BY Zenon, <2>1
<1>2. CASE t # Empty
  <2> DEFINE a == Sub(t, "l")
             b == Sub(t, "r")
             p == Make("black", t.n, "l", a, b)
  <2>1. "l" \in Side /\ Other("l") = "r" /\ "black" \in Colours /\ Blacks("black") = 1
        /\ Blacks("red") = 0
    BY Zenon DEF Side, Other, Colours, Blacks
  <2>2. /\ H > 0 /\ h - Blacks(t.c) \in Nat /\ t.c \in Colours /\ t.n \in Node
        /\ Sound(k, a, H - 1, h - Blacks(t.c)) /\ Sound(k, b, H - 1, h - Blacks(t.c))
        /\ Between(k, "l", a, t.n, b)
        /\ Nodes[t] = Nodes[a] \cup {t.n} \cup Nodes[b]
        /\ t = Make(t.c, t.n, "l", a, b)
        /\ (Red(t) <=> t.c = "red")
    BY <1>2, <2>1, SoundParts
  <2> HIDE DEF a, b
  <2>3. H - 1 < MaxHeight /\ (H - 1) + 1 = H
    BY <2>2, HeightAssumption DEF Sound
  <2>4. /\ Sound(k, p, (H - 1) + 1, (h - Blacks(t.c)) + Blacks("black"))
        /\ Nodes[p] = Nodes[a] \cup {t.n} \cup Nodes[b]
    <3>1. Joins(k, H - 1, h - Blacks(t.c), "black", t.n, "l", a, b)
      BY Zenon, <2>1, <2>2, <2>3 DEF Joins
    <3>2. QED
      BY <3>1, MakeSound
  <2>5. Paint("black", t) = p /\ ~Red(p)
    <3>1. Paint("black", Make(t.c, t.n, "l", a, b)) = p
      BY <2>1, PaintMake
    <3>2. ~Red(p)
      BY <2>1, MakeFields
    <3>3. QED
      BY Zenon, <2>2, <3>1, <3>2
  <2> HIDE DEF p
  <2>6. ~Red(t) => t.c = "black"
    BY Zenon, <2>2 DEF Colours
  <2>7. ~Red(t) => t = p
    BY Zenon, <2>2, <2>6 DEF p
  <2>8. Red(t) => (h - Blacks(t.c)) + Blacks("black") = h + 1
    BY <2>1, <2>2, SoundIn
  <2>9. QED
    BY Zenon, <2>2, <2>3, <2>4, <2>5, <2>7, <2>8
<1>3. QED
  BY Zenon, <1>1, <1>2

(* The order seen from the other side. *)
LEMMA BetweenOther ==
  ASSUME NEW k, NEW s \in Side, NEW a, NEW n, NEW b
  PROVE  Between(k, Other(s), b, n, a) <=> Between(k, s, a, n, b)
BY Zenon DEF Between, Lt, Other, Side

-----------------------------------------------------------------------------
(* Insertion. *)

(* Rotate on a tree made of parts. *)
LEMMA RotateMake ==
  ASSUME NEW c, NEW d, NEW e, NEW f, NEW n, NEW m, NEW s \in Side, NEW x, NEW y, NEW z
  PROVE  Rotate(Make(c, n, s, Make(d, m, s, x, y), z), s, e, f)
            = Make(f, m, s, x, Make(e, n, s, y, z))
<1> DEFINE u == Make(d, m, s, x, y)
           t == Make(c, n, s, u, z)
<1>1. t.n = n /\ Sub(t, s) = u /\ Sub(t, Other(s)) = z
  BY MakeFields
<1>2. u.n = m /\ Sub(u, s) = x /\ Sub(u, Other(s)) = y
  BY MakeFields
<1> HIDE DEF t, u
<1>3. Rotate(t, s, e, f) = Make(f, m, s, x, Make(e, n, s, y, z))
  BY Zenon, <1>1, <1>2 DEF Rotate
<1>4. QED
  BY Zenon, <1>3 DEF t, u

(* With on a tree made of parts. *)
LEMMA WithMake ==
  ASSUME NEW c, NEW n, NEW s \in Side, NEW a, NEW b, NEW d
  PROVE  /\ With(Make(c, n, s, a, b), s, d) = Make(c, n, s, d, b)
         /\ With(Make(c, n, s, a, b), Other(s), d) = Make(c, n, s, a, d)
<1> DEFINE t == Make(c, n, s, a, b)
<1>1. t.c = c /\ t.n = n /\ Sub(t, s) = a /\ Sub(t, Other(s)) = b
  BY MakeFields
<1>2. Make(c, n, s, a, d) = Make(c, n, Other(s), d, a)
  BY MakeFields
<1>3. Other(Other(s)) = s
  BY Zenon, Sides
<1> HIDE DEF t
<1>4. With(t, s, d) = Make(c, n, s, d, b) /\ With(t, Other(s), d) = Make(c, n, s, a, d)
  BY Zenon, <1>1, <1>2, <1>3 DEF With
<1>5. QED
  BY Zenon, <1>4 DEF t

(* The three ways out of a red node with a red child, under a black        *)
(* grandparent: recolour, rotate, rotate twice.                            *)
LEMMA InsertFixMake ==
  ASSUME NEW m, NEW p, NEW s \in Side, NEW e \in Side, NEW a, NEW b, NEW d, Red(a), ~Red(b),
         a \in Trees,
         NEW t, t = Make("black", m, s, Make("red", p, e, a, b), d)
  PROVE  /\ Red(d) => InsertFix(t, s)
                        = Make("red", m, s, Make("black", p, e, a, b), Paint("black", d))
         /\ ~Red(d) /\ e = s => InsertFix(t, s)
                        = Make("black", p, s, a, Make("red", m, s, b, d))
         /\ ~Red(d) /\ e # s => InsertFix(t, s)
                        = Make("black", a.n, s, Make("red", p, s, b, Sub(a, s)),
                               Make("red", m, s, Sub(a, Other(s)), d))
<1> DEFINE u == Make("red", p, e, a, b)
           o == Other(s)
<1>1. /\ o \in Side /\ Other(o) = s /\ (e # s => e = o /\ Other(e) = s)
      /\ Other(s) = o /\ (e = s => Other(e) = o)
  BY Zenon DEF Side, Other
<1> HIDE DEF o
<1>2. Sub(t, s) = u /\ Sub(t, o) = d /\ ~Red(t) /\ t.n = m
  BY <1>1, MakeFields
<1>3. Red(u) /\ Sub(u, e) = a /\ Sub(u, Other(e)) = b
  BY MakeFields
<1>4. Red(u.l) \/ Red(u.r)
  BY Zenon, <1>3 DEF Sub
<1>5. Paint("black", u) = Make("black", p, e, a, b)
  BY PaintMake
<1>6. InsertFix(t, s) =
        IF Red(d) THEN Make("red", m, s, Make("black", p, e, a, b), Paint("black", d))
        ELSE Rotate(IF Red(Sub(u, o)) THEN With(t, s, Rotate(u, o, "red", "red")) ELSE t,
                    s, "red", "black")
  <2> HIDE DEF u
  <2>1. QED
    BY Zenon, <1>1, <1>2, <1>3, <1>4, <1>5 DEF InsertFix
<1>7. CASE Red(d)
  BY Zenon, <1>6, <1>7
<1>8. CASE ~Red(d) /\ e = s
  <2>1. ~Red(Sub(u, o))
    BY Zenon, <1>1, <1>3, <1>8
  <2>2. InsertFix(t, s) = Rotate(t, s, "red", "black")
    BY Zenon, <1>6, <1>8, <2>1
  <2>3. t = Make("black", m, s, Make("red", p, s, a, b), d)
    BY Zenon, <1>8
  <2>4. Rotate(Make("black", m, s, Make("red", p, s, a, b), d), s, "red", "black")
          = Make("black", p, s, a, Make("red", m, s, b, d))
    BY RotateMake
  <2>5. QED
    BY Zenon, <1>8, <2>2, <2>3, <2>4
<1>9. CASE ~Red(d) /\ e # s
  <2> DEFINE v == Rotate(u, o, "red", "red")
             x == Sub(a, s)
             y == Sub(a, o)
  <2>1. Red(Sub(u, o))
    BY Zenon, <1>1, <1>3, <1>9
  <2>2. InsertFix(t, s) = Rotate(With(t, s, v), s, "red", "black")
    BY Zenon, <1>6, <1>9, <2>1
  <2>3. a = Make(a.c, a.n, o, y, x)
    <3>1. a # Empty
      BY Zenon DEF Red
    <3>2. QED
      BY Zenon, <1>1, <3>1, MakeOfParts
  <2> HIDE DEF x, y
  <2>4. u = Make("red", p, o, Make(a.c, a.n, o, y, x), b)
    BY Zenon, <1>1, <1>9, <2>3
  <2>5. v = Make("red", a.n, o, y, Make("red", p, o, x, b))
    BY <1>1, <2>4, RotateMake
  <2>6. Make("red", a.n, o, y, Make("red", p, o, x, b))
          = Make("red", a.n, s, Make("red", p, o, x, b), y)
    BY <1>1, MakeFields
  <2>7. Make("red", p, o, x, b) = Make("red", p, s, b, x)
    BY <1>1, MakeFields
  <2>8. v = Make("red", a.n, s, Make("red", p, s, b, x), y)
    BY Zenon, <2>5, <2>6, <2>7
  <2> HIDE DEF v
  <2>9. With(t, s, v) = Make("black", m, s, v, d)
    BY WithMake
  <2>10. Rotate(Make("black", m, s, Make("red", a.n, s, Make("red", p, s, b, x), y), d),
                s, "red", "black")
           = Make("black", a.n, s, Make("red", p, s, b, x), Make("red", m, s, y, d))
    BY RotateMake
  <2>11. InsertFix(t, s)
           = Make("black", a.n, s, Make("red", p, s, b, x), Make("red", m, s, y, d))
    BY Zenon, <2>2, <2>8, <2>9, <2>10
  <2>12. QED
    BY Zenon, <1>1, <1>9, <2>11 DEF x, y
<1>10. QED
  BY Zenon, <1>7, <1>8, <1>9

\* Sound but for a red root with a red child.
Kinked(k, u, H, h, N) ==
    \E s \in Side, p \in Node : \E a, b :
        /\ u = Make("red", p, s, a, b)
        /\ Sound(k, a, H - 1, h) /\ Sound(k, b, H - 1, h) /\ Red(a) /\ ~Red(b)
        /\ Between(k, s, a, p, b) /\ N = Nodes[a] \cup {p} \cup Nodes[b]

\* The node m and the tree d follow the nodes N.
Follow(k, s, N, m, d) ==
    /\ \A x \in N : Lt(s, k[x], k[m])
    /\ \A x \in Nodes[d] : Lt(s, k[m], k[x])

\* A root of colour c and its subtree d, above a new subtree with nodes N.
Above(k, H, g, c, m, s, d, N) ==
    /\ H \in 1..(MaxHeight - 1) /\ c \in Colours /\ m \in Node /\ s \in Side
    /\ Sound(k, d, H - 1, g) /\ Follow(k, s, N, m, d) /\ (c = "red" => ~Red(d))

(* InsertFix at a root whose new subtree is sound keeps the root. *)
LEMMA InsertFixStays ==
  ASSUME NEW k, NEW H, NEW g, NEW c, NEW m, NEW s, NEW u, NEW d,
         Above(k, H, g, c, m, s, d, Nodes[u]), Sound(k, u, H, g),
         NEW r, r = InsertFix(Make(c, m, s, u, d), s)
  PROVE  \/ /\ Sound(k, r, H + 1, g + Blacks(c))
            /\ Nodes[r] = Nodes[u] \cup {m} \cup Nodes[d]
         \/ c = "red" /\ Kinked(k, r, H + 1, g, Nodes[u] \cup {m} \cup Nodes[d])
<1> DEFINE t == Make(c, m, s, u, d)
<1>0. /\ H \in 1..(MaxHeight - 1) /\ c \in Colours /\ m \in Node /\ s \in Side
      /\ Sound(k, d, H - 1, g) /\ Follow(k, s, Nodes[u], m, d) /\ (c = "red" => ~Red(d))
  BY Zenon DEF Above
<1> USE <1>0
<1>1. Sub(t, s) = u /\ (Red(t) <=> c = "red")
  BY MakeFields
<1>2. u # Empty => (Red(u) => ~Red(u.l) /\ ~Red(u.r))
  <2>1. "l" \in Side /\ Sub(u, "l") = u.l /\ Sub(u, Other("l")) = u.r
    BY Zenon DEF Side, Sub, Other
  <2>2. QED
    BY <2>1, SoundParts
<1> HIDE DEF t
<1>3. c = "black" \/ c = "red"
  BY Zenon DEF Colours
<1>4. InsertFix(t, s) = t
  BY Zenon, <1>1, <1>2 DEF InsertFix, Red
<1>5. r = Make(c, m, s, u, d)
  BY Zenon, <1>4 DEF t
<1>6. Sound(k, d, H, g) /\ g \in Nat /\ H < MaxHeight
  BY SoundIn, HeightAssumption
<1>7. Between(k, s, u, m, d)
  BY Zenon DEF Between, Follow
<1>8. CASE c = "red" /\ Red(u)
  <2>1. (H + 1) - 1 = H
    BY HeightAssumption
  <2>2. Kinked(k, r, H + 1, g, Nodes[u] \cup {m} \cup Nodes[d])
    BY Zenon, <1>5, <1>6, <1>7, <1>8, <2>1 DEF Kinked
  <2>3. QED
    BY Zenon, <1>8, <2>2
<1>9. CASE ~(c = "red" /\ Red(u))
  <2>1. Joins(k, H, g, c, m, s, u, d)
    BY Zenon, <1>6, <1>7, <1>9 DEF Joins
  <2>2. QED
    BY <1>5, <2>1, MakeSound
<1>10. QED
  BY Zenon, <1>8, <1>9

(* InsertFix at a black root whose new subtree is kinked makes it sound. *)
LEMMA InsertFixTurns ==
  ASSUME NEW k, Numbers(k), NEW H, NEW g, NEW m, NEW s, NEW u, NEW d, NEW N,
         Above(k, H, g, "black", m, s, d, N), Kinked(k, u, H, g, N),
         NEW r, r = InsertFix(Make("black", m, s, u, d), s)
  PROVE  Sound(k, r, H + 1, g + 1) /\ Nodes[r] = N \cup {m} \cup Nodes[d]
<1>a. /\ H \in 1..(MaxHeight - 1) /\ m \in Node /\ s \in Side
      /\ Sound(k, d, H - 1, g) /\ Follow(k, s, N, m, d)
  BY Zenon DEF Above
<1> USE <1>a, HeightAssumption
<1>0. PICK e \in Side, p \in Node : \E a, b :
        /\ u = Make("red", p, e, a, b)
        /\ Sound(k, a, H - 1, g) /\ Sound(k, b, H - 1, g) /\ Red(a) /\ ~Red(b)
        /\ Between(k, e, a, p, b) /\ N = Nodes[a] \cup {p} \cup Nodes[b]
  BY Zenon DEF Kinked
<1>1. PICK a, b :
        /\ u = Make("red", p, e, a, b)
        /\ Sound(k, a, H - 1, g) /\ Sound(k, b, H - 1, g) /\ Red(a) /\ ~Red(b)
        /\ Between(k, e, a, p, b) /\ N = Nodes[a] \cup {p} \cup Nodes[b]
  BY Zenon, <1>0
<1>2. /\ Sound(k, a, H, g) /\ Sound(k, d, H, g) /\ g \in Nat /\ a \in Trees
      /\ Nodes[a] \subseteq Node /\ Nodes[b] \subseteq Node /\ Nodes[d] \subseteq Node
  BY <1>1, SoundIn
<1>3. /\ H - 1 < MaxHeight /\ H < MaxHeight /\ (H - 1) + 1 = H
      /\ "red" \in Colours /\ "black" \in Colours /\ Blacks("red") = 0 /\ Blacks("black") = 1
      /\ g + 0 = g /\ g + 1 \in Nat /\ (g + 1) + 0 = g + 1
  BY <1>2 DEF Colours, Blacks
<1>4. \A x \in Node : k[x] \in Int
  BY Zenon DEF Numbers
<1>5. /\ Red(d) => r = Make("red", m, s, Make("black", p, e, a, b), Paint("black", d))
      /\ ~Red(d) /\ e = s => r = Make("black", p, s, a, Make("red", m, s, b, d))
      /\ ~Red(d) /\ e # s => r = Make("black", a.n, s, Make("red", p, s, b, Sub(a, s)),
                                      Make("red", m, s, Sub(a, Other(s)), d))
  BY <1>1, <1>2, InsertFixMake
<1>6. CASE Red(d)
  <2> DEFINE v == Make("black", p, e, a, b)
             w == Paint("black", d)
  <2>1. Joins(k, H - 1, g, "black", p, e, a, b)
    BY Zenon, <1>1, <1>2, <1>3 DEF Joins
  <2>2. Sound(k, v, H, g + 1) /\ Nodes[v] = N
    BY <1>1, <1>3, <2>1, MakeSound
  <2>3. ~Red(v)
    BY MakeFields
  <2>4. Sound(k, w, H - 1, g + 1) /\ Nodes[w] = Nodes[d] /\ ~Red(w)
    BY <1>6, PaintBlack
  <2> HIDE DEF v, w
  <2>5. Sound(k, w, H, g + 1)
    BY <2>4, SoundIn
  <2>6. Between(k, s, v, m, w)
    BY Zenon, <2>2, <2>4 DEF Between, Follow
  <2>7. Joins(k, H, g + 1, "red", m, s, v, w)
    BY Zenon, <1>3, <2>2, <2>3, <2>4, <2>5, <2>6 DEF Joins
  <2>8. r = Make("red", m, s, v, w)
    BY Zenon, <1>5, <1>6 DEF v, w
  <2>9. QED
    BY <1>3, <2>2, <2>4, <2>7, <2>8, MakeSound
<1>7. CASE ~Red(d) /\ e = s
  <2> DEFINE w == Make("red", m, s, b, d)
  <2>1. Between(k, s, b, m, d)
    BY Zenon, <1>1 DEF Between, Follow
  <2>2. Joins(k, H - 1, g, "red", m, s, b, d)
    BY Zenon, <1>1, <1>2, <1>3, <1>7, <2>1 DEF Joins
  <2>3. Sound(k, w, H, g) /\ Nodes[w] = Nodes[b] \cup {m} \cup Nodes[d]
    BY <1>3, <2>2, MakeSound
  <2> HIDE DEF w
  <2>4. Between(k, s, a, p, w)
    <3>1. /\ \A x \in Nodes[a] : Lt(s, k[x], k[p])
          /\ \A x \in Nodes[b] : Lt(s, k[p], k[x])
      BY Zenon, <1>1, <1>7 DEF Between
    <3>2. Lt(s, k[p], k[m]) /\ \A x \in Nodes[d] : Lt(s, k[m], k[x])
      BY Zenon, <1>1 DEF Follow
    <3>3. \A x \in Nodes[d] : Lt(s, k[p], k[x])
      BY Zenon, <1>2, <1>4, <3>2, LtStrict
    <3>4. QED
      BY Zenon, <2>3, <3>1, <3>2, <3>3 DEF Between
  <2>5. Joins(k, H, g, "black", p, s, a, w)
    BY Zenon, <1>1, <1>2, <1>3, <2>3, <2>4 DEF Joins
  <2>6. r = Make("black", p, s, a, w)
    BY Zenon, <1>5, <1>7 DEF w
  <2>7. QED
    BY <1>1, <1>3, <2>3, <2>5, <2>6, MakeSound
<1>8. CASE ~Red(d) /\ e # s
  <2> DEFINE x == Sub(a, s)
             y == Sub(a, Other(s))
             q == a.n
             v == Make("red", p, s, b, x)
             w == Make("red", m, s, y, d)
  <2>1. /\ H - 1 > 0 /\ q \in Node
        /\ Sound(k, x, (H - 1) - 1, g) /\ Sound(k, y, (H - 1) - 1, g)
        /\ Between(k, s, x, q, y) /\ Nodes[a] = Nodes[x] \cup {q} \cup Nodes[y]
        /\ ~Red(x) /\ ~Red(y)
    <3>1. a # Empty /\ a.c = "red"
      BY Zenon, <1>1 DEF Red
    <3>2. g - Blacks(a.c) = g
      BY <1>2, <1>3, <3>1
    <3>3. QED
      BY <1>1, <3>1, <3>2, SoundParts
  <2> HIDE DEF x, y, q
  <2>2. /\ Sound(k, x, H - 1, g) /\ Sound(k, y, H - 1, g)
        /\ Nodes[x] \subseteq Node /\ Nodes[y] \subseteq Node
    BY <1>3, <2>1, SoundIn
  <2>3. /\ \A z \in Nodes[b] : Lt(s, k[z], k[p])
        /\ \A z \in Nodes[a] : Lt(s, k[p], k[z])
    <3>1. e = Other(s)
      BY <1>8 DEF Side, Other
    <3>2. Between(k, s, b, p, a)
      BY Zenon, <1>1, <3>1, BetweenOther
    <3>3. QED
      BY Zenon, <3>2 DEF Between
  <2>4. /\ \A z \in Nodes[x] : Lt(s, k[z], k[q])
        /\ \A z \in Nodes[y] : Lt(s, k[q], k[z])
    BY Zenon, <2>1 DEF Between
  <2>5. /\ \A z \in Nodes[a] : Lt(s, k[z], k[m])
        /\ \A z \in Nodes[d] : Lt(s, k[m], k[z])
    BY Zenon, <1>1 DEF Follow
  <2>6. q \in Nodes[a] /\ Nodes[x] \subseteq Nodes[a] /\ Nodes[y] \subseteq Nodes[a]
    BY Zenon, <2>1
  <2>7. Joins(k, H - 1, g, "red", p, s, b, x)
    <3>1. Between(k, s, b, p, x)
      BY Zenon, <2>3, <2>6 DEF Between
    <3>2. QED
      BY Zenon, <1>1, <1>2, <1>3, <2>1, <2>2, <3>1 DEF Joins
  <2>8. Joins(k, H - 1, g, "red", m, s, y, d)
    <3>1. Between(k, s, y, m, d)
      BY Zenon, <2>5, <2>6 DEF Between
    <3>2. QED
      BY Zenon, <1>2, <1>3, <1>8, <2>1, <2>2, <3>1 DEF Joins
  <2>9. /\ Sound(k, v, H, g) /\ Nodes[v] = Nodes[b] \cup {p} \cup Nodes[x]
        /\ Sound(k, w, H, g) /\ Nodes[w] = Nodes[y] \cup {m} \cup Nodes[d]
    BY <1>3, <2>7, <2>8, MakeSound
  <2> HIDE DEF v, w
  <2>10. Between(k, s, v, q, w)
    <3>1. Lt(s, k[p], k[q]) /\ Lt(s, k[q], k[m])
      BY Zenon, <2>3, <2>5, <2>6
    <3>2. \A z \in Nodes[b] : Lt(s, k[z], k[q])
      BY Zenon, <1>2, <1>4, <2>1, <2>3, <3>1, LtStrict
    <3>3. \A z \in Nodes[d] : Lt(s, k[q], k[z])
      BY Zenon, <1>2, <1>4, <2>1, <2>5, <3>1, LtStrict
    <3>4. QED
      BY Zenon, <2>4, <2>9, <3>1, <3>2, <3>3 DEF Between
  <2>11. Joins(k, H, g, "black", q, s, v, w)
    BY Zenon, <1>2, <1>3, <2>1, <2>9, <2>10 DEF Joins
  <2>12. r = Make("black", q, s, v, w)
    BY Zenon, <1>5, <1>8 DEF v, w, x, y, q
  <2>13. /\ Sound(k, r, H + 1, g + 1)
         /\ Nodes[r] = Nodes[v] \cup {q} \cup Nodes[w]
    BY <1>3, <2>11, <2>12, MakeSound
  <2>14. Nodes[v] \cup {q} \cup Nodes[w] = N \cup {m} \cup Nodes[d]
    BY Zenon, <1>1, <2>1, <2>9
  <2>15. QED
    BY Zenon, <2>13, <2>14
<1>9. QED
  BY Zenon, <1>6, <1>7, <1>8

\* The comparator's results dir lead from every node of t towards n.
Leads(k, n, dir, t) == \A m \in Nodes[t] : Lt(Turn(dir[m]), k[n], k[m])

\* u is t with n linked, but for a red root with a red child if t was red.
Linked(k, n, t, H, h, u) ==
    \/ Sound(k, u, H + 1, h) /\ Nodes[u] = Nodes[t] \cup {n}
    \/ Red(t) /\ Kinked(k, u, H + 1, h, Nodes[t] \cup {n})

(* Linking a node in the empty tree. *)
LEMMA LinkEmpty ==
  ASSUME NEW k, NEW n \in Node, NEW dir, NEW H \in 0..MaxHeight, H < MaxHeight,
         NEW h, Sound(k, Empty, H, h)
  PROVE  Linked(k, n, Empty, H, h, Link(n, dir)[Empty])
<1> DEFINE u == Make("red", n, "l", Empty, Empty)
<1>1. Link(n, dir)[Empty] = Tree("red", Empty, n, Empty)
  BY Zenon, EmptyTree, LinkRule
<1>2. u = Tree("red", Empty, n, Empty)
  BY Zenon DEF Make
<1>3. Sound(k, Empty, H, 0) /\ Nodes[Empty] = {} /\ ~Red(Empty)
  BY Zenon, EmptySound
<1>4. h = 0
  <2>1. {h} = {0}
    BY Zenon, <1>3 DEF Sound
  <2>2. QED
    BY Zenon, <2>1
<1>5. Joins(k, H, 0, "red", n, "l", Empty, Empty)
  BY Zenon, <1>3 DEF Joins, Between, Colours, Side
<1>6. Sound(k, u, H + 1, 0 + Blacks("red")) /\ Nodes[u] = Nodes[Empty] \cup {n} \cup Nodes[Empty]
  BY <1>5, MakeSound
<1> HIDE DEF u
<1>7. 0 + Blacks("red") = h /\ Nodes[Empty] \cup {n} \cup Nodes[Empty] = Nodes[Empty] \cup {n}
  BY <1>3, <1>4 DEF Blacks
<1>8. QED
  BY Zenon, <1>1, <1>2, <1>6, <1>7 DEF Linked

(* Linking a node where the search ends keeps a tree sound and adds the    *)
(* node.                                                                   *)
LEMMA LinkSound ==
  ASSUME NEW k, Numbers(k), NEW n \in Node, NEW dir
  PROVE  \A H \in 0..(MaxHeight - 1) : \A t, h :
            Sound(k, t, H, h) /\ Leads(k, n, dir, t) => Linked(k, n, t, H, h, Link(n, dir)[t])
<1> USE HeightAssumption
<1> DEFINE P(H) == \A t, h : Sound(k, t, H, h) /\ Leads(k, n, dir, t)
                                => Linked(k, n, t, H, h, Link(n, dir)[t])
           S == {H \in 0..MaxHeight : H < MaxHeight => P(H)}
<1>1. ASSUME NEW H \in 0..(MaxHeight - 1), NEW t, NEW h, Sound(k, t, H + 1, h),
             H + 1 < MaxHeight, t # Empty, Leads(k, n, dir, t), P(H)
      PROVE  Linked(k, n, t, H + 1, h, Link(n, dir)[t])
  <2> DEFINE s == Turn(dir[t.n])
             a == Sub(t, s)
             d == Sub(t, Other(s))
             c == t.c
             m == t.n
             g == h - Blacks(t.c)
             u == Link(n, dir)[a]
             r == Link(n, dir)[t]
  <2>1. s \in Side
    BY Zenon DEF Turn, Side
  <2>2. t \in Trees
    BY Zenon, <1>1, SoundIn
  <2>3. r = InsertFix(With(t, s, u), s)
    BY ZenonT(60), <1>1, <2>2, LinkRule
  <2>4. With(t, s, u) = Make(c, m, s, u, d)
    BY Zenon DEF With
  <2>5. Leads(k, n, dir, t)
    BY Zenon, <1>1
  <2> HIDE DEF s
  <2>6. /\ g \in Nat /\ c \in Colours /\ m \in Node
        /\ Sound(k, a, (H + 1) - 1, g) /\ Sound(k, d, (H + 1) - 1, g)
        /\ Between(k, s, a, m, d) /\ Nodes[t] = Nodes[a] \cup {m} \cup Nodes[d]
        /\ Red(t) => ~Red(a) /\ ~Red(d)
        /\ (Red(t) <=> c = "red")
    BY <1>1, <2>1, SoundParts
  <2>7. (H + 1) - 1 = H /\ H + 1 \in 1..(MaxHeight - 1) /\ g + Blacks(c) = h /\ h \in Nat
    <3>1. h \in Nat
      BY Zenon, <1>1, SoundIn
    <3>2. QED
      BY <1>1, <3>1 DEF Blacks
  <2>8. Lt(s, k[n], k[m])
    BY Zenon, <2>5, <2>6 DEF Leads, s
  <2> HIDE DEF a, d, c, m, g, r
  <2>9. Sound(k, a, H, g)
    BY Zenon, <2>6, <2>7
  <2>10. Leads(k, n, dir, a)
    BY Zenon, <2>5, <2>6 DEF Leads
  <2>11. Linked(k, n, a, H, g, u)
    BY Zenon, <1>1, <2>9, <2>10
  <2> HIDE DEF u
  <2>12. Follow(k, s, Nodes[a] \cup {n}, m, d)
    BY Zenon, <2>6, <2>8 DEF Follow, Between
  <2>13. r = InsertFix(Make(c, m, s, u, d), s)
    BY Zenon, <2>3, <2>4
  <2>13a. Above(k, H + 1, g, c, m, s, d, Nodes[a] \cup {n})
    BY Zenon, <2>1, <2>6, <2>7, <2>12 DEF Above
  <2>14. (Nodes[a] \cup {n}) \cup {m} \cup Nodes[d] = Nodes[t] \cup {n}
    BY Zenon, <2>6
  <2>15. CASE Sound(k, u, H + 1, g) /\ Nodes[u] = Nodes[a] \cup {n}
    <3>1. \/ /\ Sound(k, r, (H + 1) + 1, g + Blacks(c))
             /\ Nodes[r] = Nodes[u] \cup {m} \cup Nodes[d]
          \/ c = "red" /\ Kinked(k, r, (H + 1) + 1, g, Nodes[u] \cup {m} \cup Nodes[d])
      <4>1. Above(k, H + 1, g, c, m, s, d, Nodes[u])
        BY Zenon, <2>13a, <2>15
      <4>2. Sound(k, u, H + 1, g)
        BY Zenon, <2>15
      <4>3. QED
        BY <2>13, <4>1, <4>2, InsertFixStays
    <3>2. Nodes[u] \cup {m} \cup Nodes[d] = Nodes[t] \cup {n}
      BY Zenon, <2>14, <2>15
    <3>3. c = "red" => g = h
      BY <2>6, <2>7 DEF Blacks
    <3>4. QED
      BY Zenon, <2>6, <2>7, <3>1, <3>2, <3>3 DEF Linked, r
  <2>16. CASE Red(a) /\ Kinked(k, u, H + 1, g, Nodes[a] \cup {n})
    <3>1. c = "black" /\ Blacks(c) = 1
      BY Zenon, <2>6, <2>16 DEF Colours, Blacks
    <3>2. Above(k, H + 1, g, "black", m, s, d, Nodes[a] \cup {n})
      BY Zenon, <2>13a, <3>1
    <3>3. r = InsertFix(Make("black", m, s, u, d), s)
      BY Zenon, <2>13, <3>1
    <3>4. Sound(k, r, (H + 1) + 1, g + 1) /\ Nodes[r] = (Nodes[a] \cup {n}) \cup {m} \cup Nodes[d]
      <4> DEFINE N == Nodes[a] \cup {n}
      <4>1. Above(k, H + 1, g, "black", m, s, d, N) /\ Kinked(k, u, H + 1, g, N)
        BY Zenon, <2>16, <3>2
      <4> HIDE DEF N
      <4>2. Sound(k, r, (H + 1) + 1, g + 1) /\ Nodes[r] = N \cup {m} \cup Nodes[d]
        BY <3>3, <4>1, InsertFixTurns
      <4>3. QED
        BY Zenon, <4>2 DEF N
    <3>5. QED
      BY Zenon, <2>7, <2>14, <3>1, <3>4 DEF Linked, r
  <2>17. QED
    BY Zenon, <2>11, <2>15, <2>16 DEF Linked, r
<1>2. 0 \in S
  <2>1. SUFFICES ASSUME 0 < MaxHeight, NEW t, NEW h, Sound(k, t, 0, h)
                 PROVE  Linked(k, n, t, 0, h, Link(n, dir)[t])
    OBVIOUS
  <2>2. t = Empty
    <3>1. 0 \in 0..MaxHeight /\ t \in Below[0]
      BY Zenon, <2>1 DEF Sound
    <3>2. QED
      BY Zenon, <3>1, BelowRule
  <2>3. QED
    BY <2>1, <2>2, LinkEmpty
<1>3. ASSUME NEW H \in 0..(MaxHeight - 1), H \in S PROVE H + 1 \in S
  <2>1. SUFFICES ASSUME H + 1 < MaxHeight, NEW t, NEW h, Sound(k, t, H + 1, h),
                        Leads(k, n, dir, t)
                 PROVE  Linked(k, n, t, H + 1, h, Link(n, dir)[t])
    OBVIOUS
  <2>2. P(H)
    BY <1>3
  <2> HIDE DEF P
  <2>3. CASE t = Empty
    BY <2>1, <2>3, LinkEmpty
  <2>4. QED
    BY Zenon, <1>1, <2>1, <2>2, <2>3
<1>4. \A H \in 0..MaxHeight : H \in S
  <2> HIDE DEF S
  <2>1. QED
    BY Zenon, <1>2, <1>3, UpTo
<1>5. QED
  BY <1>4

-----------------------------------------------------------------------------
(* Erasure. *)

(* The fields of a cut. *)
LEMMA CutFields == \A t, short : Cut(t, short).t = t /\ Cut(t, short).short = short
BY Zenon DEF Cut

\* r is the cut of a tree with h black nodes on every path, red or not, that
\* left the nodes N.
Erased(k, N, H, h, red, r) ==
    /\ Nodes[r.t] = N
    /\ IF r.short THEN Sound(k, r.t, H, h - 1) ELSE Sound(k, r.t, H + 2, h)
    /\ ~red => ~Red(r.t)

\* Five parts in order, the subtrees of the same black height, and a colour.
InARow(k, H, g, c, s, a, m, x, q, y) ==
    /\ H \in Nat /\ H + 2 <= MaxHeight /\ g \in Nat /\ m \in Node /\ q \in Node /\ s \in Side
    /\ Sound(k, a, H, g) /\ Sound(k, x, H, g) /\ Sound(k, y, H, g) /\ c \in Colours /\ Red(y)
    /\ Between(k, s, a, m, x) /\ Lt(s, k[m], k[q]) /\ Between(k, s, x, q, y)

\* r is sound, with the nodes N and a root of colour c.
Turned(k, H, g, c, N, r) ==
    /\ r.short = FALSE /\ Sound(k, r.t, H + 2, (g + 1) + Blacks(c))
    /\ Nodes[r.t] = N /\ (Red(r.t) <=> c = "red")

(* FixFar when the far nephew y is red: one rotation. *)
LEMMA FixFarTurns ==
  ASSUME NEW k, Numbers(k), NEW H, NEW g, NEW c, NEW s, NEW a, NEW m, NEW x, NEW q, NEW y,
         InARow(k, H, g, c, s, a, m, x, q, y)
  PROVE  Turned(k, H, g, c, Nodes[a] \cup {m} \cup Nodes[x] \cup {q} \cup Nodes[y],
                FixFar(Make(c, m, s, a, Make("black", q, s, x, y)), s))
<1> USE HeightAssumption
<1> DEFINE r == FixFar(Make(c, m, s, a, Make("black", q, s, x, y)), s)
<1>1. /\ H \in Nat /\ H + 2 <= MaxHeight /\ g \in Nat /\ m \in Node /\ q \in Node /\ s \in Side
      /\ Sound(k, a, H, g) /\ Sound(k, x, H, g) /\ Sound(k, y, H, g) /\ c \in Colours /\ Red(y)
      /\ Between(k, s, a, m, x) /\ Lt(s, k[m], k[q]) /\ Between(k, s, x, q, y)
  BY Zenon DEF InARow
<1> DEFINE o == Other(s)
           w == Make("black", q, s, x, y)
           t == Make(c, m, s, a, w)
           z == Make("black", m, s, a, x)
           p == Paint("black", y)
<1>2. o \in Side /\ Other(o) = s
  BY Zenon, <1>1, Sides
<1>3. w = Make("black", q, o, y, x) /\ Sub(w, o) = y
  BY <1>1, MakeFields
<1>4. t = Make(c, m, o, w, a) /\ Sub(t, o) = w /\ t.c = c
  BY <1>1, MakeFields
<1>5. Rotate(Make(c, m, o, Make("black", q, o, y, x), a), o, "black", c)
        = Make(c, q, o, y, Make("black", m, o, x, a))
  BY <1>2, RotateMake
<1>6. Make("black", m, o, x, a) = z
  BY <1>1, MakeFields
<1>7. Rotate(t, o, "black", c) = Make(c, q, o, y, z)
  BY Zenon, <1>3, <1>4, <1>5, <1>6
<1>8. With(Make(c, q, o, y, z), o, p) = Make(c, q, o, p, z)
  BY <1>2, WithMake
<1>9. Make(c, q, s, z, p) = Make(c, q, o, p, z)
  BY <1>1, MakeFields
<1> HIDE DEF t, w
<1>10. FixFar(t, s) = Cut(With(Rotate(t, o, "black", c), o, p), FALSE)
  BY Zenon, <1>1, <1>3, <1>4 DEF FixFar
<1>11. r = Cut(Make(c, q, s, z, p), FALSE)
  BY Zenon, <1>7, <1>8, <1>9, <1>10 DEF t, w
<1> HIDE DEF r
<1>12. r.t = Make(c, q, s, z, p) /\ r.short = FALSE
  BY Zenon, <1>11, CutFields
<1>13. H < MaxHeight /\ H + 1 < MaxHeight /\ H + 1 \in 0..MaxHeight /\ (H + 1) + 1 = H + 2
       /\ H <= H + 1 /\ g + 1 \in Nat /\ "black" \in Colours /\ Blacks("black") = 1
  BY <1>1 DEF Colours, Blacks
<1>14. Joins(k, H, g, "black", m, s, a, x)
  BY Zenon, <1>1, <1>13 DEF Joins
<1>15. Sound(k, z, H + 1, g + 1) /\ Nodes[z] = Nodes[a] \cup {m} \cup Nodes[x]
  BY <1>13, <1>14, MakeSound
<1>16. ~Red(z)
  BY <1>1, MakeFields
<1>17. Sound(k, p, H, g + 1) /\ Nodes[p] = Nodes[y] /\ ~Red(p)
  BY <1>1, PaintBlack
<1> HIDE DEF z, p
<1>18. Sound(k, p, H + 1, g + 1)
  BY Zenon, <1>13, <1>17, SoundIn
<1>19. Between(k, s, z, q, p)
  <2>1. Nodes[a] \subseteq Node /\ \A v \in Node : k[v] \in Int
    BY Zenon, <1>1, SoundIn DEF Numbers
  <2>2. \A v \in Nodes[a] : Lt(s, k[v], k[m])
    BY Zenon, <1>1 DEF Between
  <2>3. \A v \in Nodes[a] : Lt(s, k[v], k[q])
    BY Zenon, <1>1, <2>1, <2>2, LtStrict
  <2>4. QED
    BY Zenon, <1>1, <1>15, <1>17, <2>3 DEF Between
<1>20. Joins(k, H + 1, g + 1, c, q, s, z, p)
  BY Zenon, <1>1, <1>13, <1>15, <1>16, <1>17, <1>18, <1>19 DEF Joins
<1>21. /\ Sound(k, Make(c, q, s, z, p), (H + 1) + 1, (g + 1) + Blacks(c))
       /\ Nodes[Make(c, q, s, z, p)] = Nodes[z] \cup {q} \cup Nodes[p]
  BY <1>20, MakeSound
<1>22. Red(Make(c, q, s, z, p)) <=> c = "red"
  BY Zenon, <1>1, MakeFields
<1>23. QED
  <2> HIDE DEF r
  <2>1. Turned(k, H, g, c, Nodes[a] \cup {m} \cup Nodes[x] \cup {q} \cup Nodes[y], r)
    BY Zenon, <1>12, <1>13, <1>15, <1>17, <1>21, <1>22 DEF Turned
  <2>2. QED
    BY Zenon, <2>1 DEF r

\* A root m of colour c whose side s, with the subtree a, is one black node
\* short of the other.
Short(k, H, g, c, m, s, a, w) ==
    /\ H \in Nat /\ H + 2 <= MaxHeight /\ g \in Nat /\ c \in Colours /\ m \in Node /\ s \in Side
    /\ Sound(k, a, H, g) /\ Sound(k, w, H, g + 1) /\ Between(k, s, a, m, w)

\* r is that tree made sound, or still short as a whole.
Mended(k, H, g, c, m, a, w, r) ==
    /\ Nodes[r.t] = Nodes[a] \cup {m} \cup Nodes[w]
    /\ IF r.short THEN c = "black" /\ Sound(k, r.t, H + 1, g + 1)
       ELSE Sound(k, r.t, H + 2, (g + 1) + Blacks(c))
    /\ c = "black" => ~Red(r.t)

(* The parts of a black sibling. *)
LEMMA SiblingParts ==
  ASSUME NEW k, NEW H, NEW g, NEW c, NEW m, NEW s, NEW a, NEW w,
         Short(k, H, g, c, m, s, a, w), ~Red(w)
  PROVE  /\ H > 0 /\ w.n \in Node /\ w = Make("black", w.n, s, Sub(w, s), Sub(w, Other(s)))
         /\ Sound(k, Sub(w, s), H - 1, g) /\ Sound(k, Sub(w, Other(s)), H - 1, g)
         /\ Between(k, s, Sub(w, s), w.n, Sub(w, Other(s)))
         /\ Nodes[w] = Nodes[Sub(w, s)] \cup {w.n} \cup Nodes[Sub(w, Other(s))]
         /\ Between(k, s, a, m, Sub(w, s)) /\ Lt(s, k[m], k[w.n])
<1>1. /\ H \in Nat /\ g \in Nat /\ s \in Side /\ Sound(k, w, H, g + 1) /\ Between(k, s, a, m, w)
  BY Zenon DEF Short
<1>2. w # Empty
  <2>1. SUFFICES ASSUME w = Empty PROVE FALSE
    OBVIOUS
  <2>2. BlackHeights[w] = {g + 1}
    BY Zenon, <1>1 DEF Sound
  <2>3. BlackHeights[w] = {0}
    BY Zenon, <2>1, EmptyTree, BlackHeightsRule
  <2>4. QED
    BY <1>1, <2>2, <2>3
<1> DEFINE i == g + 1
           x == Sub(w, s)
           y == Sub(w, Other(s))
<1> HIDE DEF i
<1>3. Sound(k, w, H, i)
  BY Zenon, <1>1 DEF i
<1>4. /\ H > 0 /\ w.c \in Colours /\ w.n \in Node
      /\ Sound(k, x, H - 1, i - Blacks(w.c)) /\ Sound(k, y, H - 1, i - Blacks(w.c))
      /\ Between(k, s, x, w.n, y)
      /\ Nodes[w] = Nodes[x] \cup {w.n} \cup Nodes[y]
      /\ w = Make(w.c, w.n, s, x, y)
      /\ (Red(w) <=> w.c = "red")
  BY <1>1, <1>2, <1>3, SoundParts
<1> HIDE DEF x, y
<1>5. w.c = "black"
  BY Zenon, <1>4 DEF Colours
<1>6. i - Blacks(w.c) = g
  BY <1>1, <1>5 DEF i, Blacks
<1>7. Between(k, s, a, m, x) /\ Lt(s, k[m], k[w.n])
  BY Zenon, <1>1, <1>4 DEF Between
<1>8. QED
  BY Zenon, <1>4, <1>5, <1>6, <1>7 DEF x, y

(* FixFar under a black sibling without red children: recolour. *)
LEMMA FixFarPaints ==
  ASSUME NEW k, NEW H, NEW g, NEW c, NEW m, NEW s, NEW a, NEW w,
         Short(k, H, g, c, m, s, a, w), ~Red(w), ~Red(Sub(w, s)), ~Red(Sub(w, Other(s))),
         NEW r, r = FixFar(Make(c, m, s, a, w), s)
  PROVE  Mended(k, H, g, c, m, a, w, r)
<1> USE HeightAssumption
<1>1. /\ H \in Nat /\ H + 2 <= MaxHeight /\ g \in Nat /\ c \in Colours /\ m \in Node /\ s \in Side
      /\ Sound(k, a, H, g) /\ Sound(k, w, H, g + 1) /\ Between(k, s, a, m, w)
  BY ZenonT(60) DEF Short
<1> DEFINE x == Sub(w, s)
           y == Sub(w, Other(s))
           p == Make("red", w.n, s, x, y)
           t == Make(c, m, s, a, w)
           v == Make("black", m, s, a, p)
<1>2. /\ H > 0 /\ w.n \in Node /\ w = Make("black", w.n, s, x, y)
      /\ Sound(k, x, H - 1, g) /\ Sound(k, y, H - 1, g)
      /\ Between(k, s, x, w.n, y)
      /\ Nodes[w] = Nodes[x] \cup {w.n} \cup Nodes[y]
  BY SiblingParts
<1>3. /\ H - 1 < MaxHeight /\ H < MaxHeight /\ (H - 1) + 1 = H /\ g + 0 = g
      /\ "red" \in Colours /\ "black" \in Colours /\ Blacks("red") = 0 /\ Blacks("black") = 1
      /\ H + 1 \in 0..MaxHeight /\ H + 2 \in 0..MaxHeight /\ H + 1 <= H + 2
      /\ (c # "black" => (g + 1) + Blacks(c) = g + 1)
  BY <1>1, <1>2 DEF Colours, Blacks
<1>4. Joins(k, H - 1, g, "red", w.n, s, x, y)
  BY Zenon, <1>1, <1>2, <1>3 DEF Joins
<1>5. Sound(k, p, H, g) /\ Nodes[p] = Nodes[w]
  BY <1>2, <1>3, <1>4, MakeSound
<1>6. Paint("red", Make("black", w.n, s, x, y)) = p
  BY <1>1, PaintMake
<1>7. Paint("red", w) = p
  BY Zenon, <1>2, <1>6
<1>8. Sub(t, s) = a /\ Sub(t, Other(s)) = w /\ t.n = m /\ (Red(t) <=> c = "red")
  BY <1>1, MakeFields
<1>9. v = Make("black", m, Other(s), p, a) /\ ~Red(v)
  BY <1>1, MakeFields
<1> HIDE DEF p, t, x, y
<1>10. FixFar(t, s) = Cut(Make("black", m, Other(s), p, a), ~Red(t))
  BY Zenon, <1>7, <1>8 DEF FixFar
<1>11. r = Cut(v, ~Red(t))
  BY Zenon, <1>9, <1>10 DEF t
<1>12. Between(k, s, a, m, p)
  BY Zenon, <1>1, <1>5 DEF Between
<1>13. Joins(k, H, g, "black", m, s, a, p)
  BY ZenonT(60), <1>1, <1>3, <1>5, <1>12 DEF Joins
<1>14. Sound(k, v, H + 1, g + 1) /\ Nodes[v] = Nodes[a] \cup {m} \cup Nodes[w]
  BY <1>3, <1>5, <1>13, MakeSound
<1>15. r.t = v /\ r.short = ~Red(t)
  <2> HIDE DEF v
  <2>1. QED
    BY <1>11, CutFields
<1>16. Sound(k, v, H + 2, g + 1)
  BY Zenon, <1>3, <1>14, SoundIn
<1> HIDE DEF v
<1>17. r.short => c = "black"
  BY Zenon, <1>1, <1>8, <1>15 DEF Colours
<1>18. ~r.short => c # "black"
  BY Zenon, <1>8, <1>15
<1>19. QED
  BY Zenon, <1>3, <1>9, <1>14, <1>15, <1>16, <1>17, <1>18 DEF Mended

(* FixNear under a black sibling. *)
LEMMA FixNearSound ==
  ASSUME NEW k, Numbers(k), NEW H, NEW g, NEW c, NEW m, NEW s, NEW a, NEW w,
         Short(k, H, g, c, m, s, a, w), ~Red(w),
         NEW r, r = FixNear(Make(c, m, s, a, w), s)
  PROVE  Mended(k, H, g, c, m, a, w, r)
<1> USE HeightAssumption
<1>1. /\ H \in Nat /\ H + 2 <= MaxHeight /\ g \in Nat /\ c \in Colours /\ m \in Node /\ s \in Side
      /\ Sound(k, a, H, g)
  BY ZenonT(60) DEF Short
<1> DEFINE o == Other(s)
           x == Sub(w, s)
           y == Sub(w, o)
           q == w.n
           t == Make(c, m, s, a, w)
<1>2. /\ H > 0 /\ q \in Node /\ w = Make("black", q, s, x, y)
      /\ Sound(k, x, H - 1, g) /\ Sound(k, y, H - 1, g)
      /\ Between(k, s, x, q, y) /\ Nodes[w] = Nodes[x] \cup {q} \cup Nodes[y]
      /\ Between(k, s, a, m, x) /\ Lt(s, k[m], k[q])
  BY SiblingParts
<1>3. Sub(t, o) = w
  BY <1>1, MakeFields
<1>4. H - 1 \in 0..MaxHeight /\ H \in 0..MaxHeight /\ H - 1 <= H /\ (H - 1) + 1 = H
      /\ H < MaxHeight /\ g + 0 = g /\ "red" \in Colours /\ Blacks("red") = 0
      /\ H - 1 < MaxHeight
  BY <1>1, <1>2 DEF Colours, Blacks
<1>5. Sound(k, x, H, g) /\ Sound(k, y, H, g)
  BY Zenon, <1>2, <1>4, SoundIn
<1>6. ASSUME Turned(k, H, g, c, Nodes[a] \cup {m} \cup Nodes[w], r)
      PROVE  Mended(k, H, g, c, m, a, w, r)
  BY Zenon, <1>6 DEF Mended, Turned
<1>7. FixNear(t, s) = IF ~Red(y) /\ Red(x)
                      THEN FixFar(With(t, o, Rotate(w, s, "red", "black")), s)
                      ELSE FixFar(t, s)
  <2> HIDE DEF t
  <2>1. QED
    BY Zenon, <1>3 DEF FixNear
<1> HIDE DEF x, y, q
<1>8. CASE Red(y)
  <2>1. InARow(k, H, g, c, s, a, m, x, q, y)
    BY Zenon, <1>1, <1>2, <1>5, <1>8 DEF InARow
  <2>2. t = Make(c, m, s, a, Make("black", q, s, x, y))
    BY Zenon, <1>2
  <2>3. r = FixFar(Make(c, m, s, a, Make("black", q, s, x, y)), s)
    BY Zenon, <1>7, <1>8, <2>2
  <2>4. Turned(k, H, g, c, Nodes[a] \cup {m} \cup Nodes[x] \cup {q} \cup Nodes[y], r)
    BY Zenon, <2>1, <2>3, FixFarTurns
  <2>5. Nodes[a] \cup {m} \cup Nodes[x] \cup {q} \cup Nodes[y] = Nodes[a] \cup {m} \cup Nodes[w]
    BY Zenon, <1>2
  <2>6. QED
    BY Zenon, <1>6, <2>4, <2>5
<1>9. CASE ~Red(y) /\ ~Red(x)
  <2>1. r = FixFar(Make(c, m, s, a, w), s)
    BY Zenon, <1>7, <1>9
  <2>2. ~Red(Sub(w, s)) /\ ~Red(Sub(w, Other(s)))
    BY Zenon, <1>9 DEF x, y
  <2>3. QED
    BY Zenon, <2>1, <2>2, FixFarPaints
<1>10. CASE ~Red(y) /\ Red(x)
  <2> DEFINE x1 == Sub(x, s)
             x2 == Sub(x, o)
             z == x.n
             v == Make("red", q, s, x2, y)
  <2>1. /\ H - 1 > 0 /\ z \in Node /\ x = Make("red", z, s, x1, x2)
        /\ Sound(k, x1, (H - 1) - 1, g) /\ Sound(k, x2, (H - 1) - 1, g)
        /\ Between(k, s, x1, z, x2) /\ Nodes[x] = Nodes[x1] \cup {z} \cup Nodes[x2]
        /\ ~Red(x1) /\ ~Red(x2)
    <3>1. x # Empty /\ x.c = "red"
      BY Zenon, <1>10 DEF Red
    <3>2. g - Blacks(x.c) = g
      BY <1>1, <1>4, <3>1
    <3>3. QED
      BY <1>1, <1>2, <1>10, <3>1, <3>2, SoundParts
  <2> HIDE DEF x1, x2, z
  <2>2. (H - 1) - 1 <= H - 1 /\ (H - 1) - 1 <= H
    BY <1>1
  <2>3. /\ Sound(k, x1, H, g) /\ Sound(k, x2, H - 1, g) /\ Nodes[x1] \subseteq Node
        /\ Nodes[x2] \subseteq Node /\ Nodes[y] \subseteq Node /\ \A i \in Node : k[i] \in Int
    BY Zenon, <1>2, <1>4, <2>1, <2>2, SoundIn DEF Numbers
  <2>4. /\ \A i \in Nodes[x2] : Lt(s, k[i], k[q]) /\ Lt(s, k[z], k[i])
        /\ Lt(s, k[z], k[q])
        /\ \A i \in Nodes[y] : Lt(s, k[q], k[i])
        /\ Lt(s, k[m], k[z]) /\ Between(k, s, a, m, x1)
    BY Zenon, <1>2, <2>1 DEF Between
  <2>5. Joins(k, H - 1, g, "red", q, s, x2, y)
    <3>1. Between(k, s, x2, q, y)
      BY Zenon, <2>4 DEF Between
    <3>2. QED
      BY Zenon, <1>1, <1>2, <1>4, <1>10, <2>1, <2>3, <3>1 DEF Joins
  <2>6. Sound(k, v, H, g) /\ Nodes[v] = Nodes[x2] \cup {q} \cup Nodes[y]
    BY <1>4, <2>5, MakeSound
  <2>7. Red(v)
    BY Zenon, <1>1, MakeFields
  <2>8. Between(k, s, x1, z, v)
    <3>1. \A i \in Nodes[y] : Lt(s, k[z], k[i])
      BY Zenon, <1>2, <2>1, <2>3, <2>4, LtStrict
    <3>2. \A i \in Nodes[v] : Lt(s, k[z], k[i])
      <4> HIDE DEF v
      <4>1. QED
        BY Zenon, <2>4, <2>6, <3>1
    <3>3. QED
      BY ZenonT(60), <2>1, <3>2 DEF Between
  <2>9. InARow(k, H, g, c, s, a, m, x1, z, v)
    BY Zenon, <1>1, <2>1, <2>3, <2>4, <2>6, <2>7, <2>8 DEF InARow
  <2>10. Rotate(Make("black", q, s, Make("red", z, s, x1, x2), y), s, "red", "black")
           = Make("black", z, s, x1, v)
    BY <1>1, RotateMake
  <2>11. Rotate(w, s, "red", "black") = Make("black", z, s, x1, v)
    BY Zenon, <1>2, <2>1, <2>10
  <2>12. With(t, o, Make("black", z, s, x1, v)) = Make(c, m, s, a, Make("black", z, s, x1, v))
    BY <1>1, WithMake
  <2> HIDE DEF v
  <2>13. r = FixFar(Make(c, m, s, a, Make("black", z, s, x1, v)), s)
    BY Zenon, <1>7, <1>10, <2>11, <2>12
  <2>14. Turned(k, H, g, c, Nodes[a] \cup {m} \cup Nodes[x1] \cup {z} \cup Nodes[v], r)
    BY Zenon, <2>9, <2>13, FixFarTurns
  <2>15. Nodes[a] \cup {m} \cup Nodes[x1] \cup {z} \cup Nodes[v] = Nodes[a] \cup {m} \cup Nodes[w]
    BY Zenon, <1>2, <2>1, <2>6
  <2>16. QED
    BY ZenonT(60), <1>6, <2>14, <2>15
<1>11. QED
  BY Zenon, <1>8, <1>9, <1>10

(* One round of __rb_erase_color makes a tree sound, or leaves it short as *)
(* a whole.                                                                *)
LEMMA EraseFixSound ==
  ASSUME NEW k, Numbers(k), NEW H, NEW g, NEW c, NEW m, NEW s, NEW a, NEW w,
         Short(k, H, g, c, m, s, a, w), H + 3 <= MaxHeight, c = "red" => ~Red(w),
         NEW r, r = EraseFix(Make(c, m, s, a, w), s)
  PROVE  Erased(k, Nodes[a] \cup {m} \cup Nodes[w], H + 1, (g + 1) + Blacks(c), c = "red", r)
<1> USE HeightAssumption
<1>1. /\ H \in Nat /\ H + 2 <= MaxHeight /\ g \in Nat /\ c \in Colours /\ m \in Node /\ s \in Side
      /\ Sound(k, a, H, g) /\ Sound(k, w, H, g + 1) /\ Between(k, s, a, m, w)
  BY Zenon DEF Short
<1> DEFINE o == Other(s)
           t == Make(c, m, s, a, w)
<1>2. o \in Side /\ Other(o) = s /\ Sub(t, o) = w /\ t = Make(c, m, o, w, a)
  BY <1>1, Sides, MakeFields
<1>3. CASE ~Red(w)
  <2>1. r = FixNear(Make(c, m, s, a, w), s)
    <3> HIDE DEF t
    <3>1. EraseFix(t, s) = FixNear(t, s)
      BY Zenon, <1>2, <1>3 DEF EraseFix
    <3>2. QED
      BY Zenon, <3>1 DEF t
  <2>2. Mended(k, H, g, c, m, a, w, r)
    BY Zenon, <1>3, <2>1, FixNearSound
  <2>3. /\ (c = "black" => ((g + 1) + Blacks(c)) - 1 = g + 1)
        /\ (H + 1) + 2 \in 0..MaxHeight /\ H + 2 <= (H + 1) + 2
        /\ (c # "red" => c = "black")
    BY <1>1 DEF Blacks, Colours
  <2>4. CASE r.short
    BY Zenon, <2>2, <2>3, <2>4 DEF Mended, Erased
  <2>5. CASE ~r.short
    <3>1. Sound(k, r.t, H + 2, (g + 1) + Blacks(c))
      BY Zenon, <2>2, <2>5 DEF Mended
    <3>2. Sound(k, r.t, (H + 1) + 2, (g + 1) + Blacks(c))
      BY Zenon, <2>3, <3>1, SoundIn
    <3>3. QED
      BY Zenon, <2>2, <2>3, <2>5, <3>2 DEF Mended, Erased
  <2>6. QED
    BY Zenon, <2>4, <2>5
<1>4. CASE Red(w)
  <2> DEFINE x == Sub(w, s)
             y == Sub(w, o)
             q == w.n
             i == g + 1
             d == Make("red", m, s, a, x)
             v == FixNear(d, s)
             u == Make("black", q, s, d, y)
  <2>1. c = "black" /\ Blacks(c) = 1
    BY Zenon, <1>1, <1>4 DEF Colours, Blacks
  <2>2. i \in Nat /\ i - 0 = i /\ Sound(k, w, H, i)
    BY <1>1
  <2>3. w # Empty /\ w.c = "red"
    BY Zenon, <1>4 DEF Red
  <2> HIDE DEF i
  <2>4. i - Blacks(w.c) = i
    BY Zenon, <2>2, <2>3 DEF Blacks
  <2>5. /\ H > 0 /\ q \in Node /\ w = Make("red", q, s, x, y)
        /\ Sound(k, x, H - 1, i) /\ Sound(k, y, H - 1, i)
        /\ Between(k, s, x, q, y) /\ Nodes[w] = Nodes[x] \cup {q} \cup Nodes[y]
        /\ ~Red(x) /\ ~Red(y)
    BY <1>1, <1>4, <2>2, <2>3, <2>4, SoundParts
  <2> HIDE DEF x, y, q
  <2>6. /\ H - 1 <= H /\ H - 1 <= H + 2 /\ H \in 0..MaxHeight /\ H + 2 \in 0..MaxHeight
        /\ H + 2 < MaxHeight /\ (H + 2) + 1 = (H + 1) + 2 /\ "red" \in Colours
        /\ "black" \in Colours /\ i + Blacks("red") = i
    BY <1>1, <2>2 DEF Colours, Blacks
  <2>7. Sound(k, x, H, i) /\ Sound(k, y, H + 2, i)
    BY Zenon, <2>5, <2>6, SoundIn
  <2>8. /\ \A z \in Nodes[a] : Lt(s, k[z], k[m])
        /\ \A z \in Nodes[x] : Lt(s, k[m], k[z])
        /\ Lt(s, k[m], k[q])
    BY Zenon, <1>1, <2>5 DEF Between
  <2>9. Short(k, H, g, "red", m, s, a, x)
    <3>1. Between(k, s, a, m, x)
      BY Zenon, <2>8 DEF Between
    <3>2. Sound(k, x, H, g + 1)
      BY Zenon, <2>7 DEF i
    <3>3. QED
      BY Zenon, <1>1, <2>6, <3>1, <3>2 DEF Short
  <2>10. Mended(k, H, g, "red", m, a, x, v)
    BY ZenonT(60), <2>5, <2>9, FixNearSound
  <2>11. d = Make("red", m, o, x, a) /\ u = Make("black", q, o, y, d)
         /\ w = Make("red", q, o, y, x) /\ Sub(u, s) = d
    BY <1>1, <2>5, MakeFields
  <2>12. Rotate(Make(c, m, o, Make("red", q, o, y, x), a), o, "red", "black")
           = Make("black", q, o, y, Make("red", m, o, x, a))
    BY <1>2, RotateMake
  <2>13. Rotate(t, o, "red", "black") = u
    BY Zenon, <1>2, <2>11, <2>12
  <2>14. With(u, s, v.t) = Make("black", q, s, v.t, y)
    BY <1>1, WithMake
  <2> HIDE DEF u, v, d, t
  <2>15. EraseFix(t, s) = Cut(With(u, s, v.t), v.short)
    BY Zenon, <1>2, <1>4, <2>11, <2>13 DEF EraseFix, v
  <2>16. r = Cut(Make("black", q, s, v.t, y), v.short)
    BY ZenonT(60), <2>14, <2>15 DEF t
  <2>17. r.t = Make("black", q, s, v.t, y) /\ r.short = v.short
    BY <2>16, CutFields
  <2>18. ~v.short /\ Sound(k, v.t, H + 2, i) /\ Nodes[v.t] = Nodes[a] \cup {m} \cup Nodes[x]
    <3>1. (g + 1) + Blacks("red") = i
      BY Zenon, <2>6 DEF i
    <3>2. ~v.short
      BY Zenon, <2>10 DEF Mended
    <3>3. QED
      BY Zenon, <2>10, <3>1, <3>2 DEF Mended
  <2>19. Between(k, s, v.t, q, y)
    <3>1. Nodes[a] \subseteq Node /\ \A z \in Node : k[z] \in Int
      BY ZenonT(60), <1>1, SoundIn DEF Numbers
    <3>2. \A z \in Nodes[a] : Lt(s, k[z], k[q])
      BY Zenon, <1>1, <2>5, <2>8, <3>1, LtStrict
    <3>3. /\ \A z \in Nodes[x] : Lt(s, k[z], k[q])
          /\ \A z \in Nodes[y] : Lt(s, k[q], k[z])
      BY Zenon, <2>5 DEF Between
    <3>4. QED
      BY Zenon, <2>8, <2>18, <3>2, <3>3 DEF Between
  <2>20. Joins(k, H + 2, i, "black", q, s, v.t, y)
    BY ZenonT(60), <1>1, <2>2, <2>5, <2>6, <2>7, <2>18, <2>19 DEF Joins
  <2>21. /\ Sound(k, r.t, (H + 2) + 1, i + Blacks("black"))
         /\ Nodes[r.t] = Nodes[v.t] \cup {q} \cup Nodes[y]
    BY <2>17, <2>20, MakeSound
  <2>22. Nodes[v.t] \cup {q} \cup Nodes[y] = Nodes[a] \cup {m} \cup Nodes[w]
    BY ZenonT(60), <2>5, <2>18
  <2>23. ~Red(r.t)
    BY <1>1, <2>17, MakeFields
  <2>24. i + Blacks("black") = (g + 1) + Blacks(c)
    BY Zenon, <2>1 DEF i
  <2>25. QED
    BY Zenon, <2>6, <2>17, <2>18, <2>21, <2>22, <2>23, <2>24 DEF Erased
<1>5. QED
  BY Zenon, <1>3, <1>4

\* A root m of colour c and its subtree d, beside a subtree with the nodes N
\* from which a node is erased.
Beside(k, H, i, c, m, s, d, N) ==
    /\ H \in Nat /\ H + 3 <= MaxHeight /\ i \in Nat /\ c \in Colours /\ m \in Node /\ s \in Side
    /\ Sound(k, d, H, i) /\ (c = "red" => ~Red(d)) /\ Follow(k, s, N, m, d)

(* A tree after an erasure in one of its subtrees. *)
LEMMA AfterSound ==
  ASSUME NEW k, Numbers(k), NEW H, NEW i, NEW c, NEW m, NEW s, NEW d, NEW N,
         Beside(k, H, i, c, m, s, d, N), NEW b, c = "red" => ~b,
         NEW cut, Erased(k, N, H, i, b, cut),
         NEW t, t.c = c, t.n = m, Sub(t, Other(s)) = d
  PROVE  Erased(k, N \cup {m} \cup Nodes[d], H + 1, i + Blacks(c), c = "red", After(t, s, cut))
<1> USE HeightAssumption
<1>1. /\ H \in Nat /\ H + 3 <= MaxHeight /\ i \in Nat /\ c \in Colours /\ m \in Node /\ s \in Side
      /\ Sound(k, d, H, i) /\ (c = "red" => ~Red(d)) /\ Follow(k, s, N, m, d)
  BY Zenon DEF Beside
<1> DEFINE a == cut.t
           u == Make(c, m, s, a, d)
           r == After(t, s, cut)
<1>2. With(t, s, cut.t) = u
  BY Zenon DEF With
<1>3. Nodes[a] = N /\ (c = "red" => ~Red(a))
  BY Zenon DEF Erased
<1>4. Between(k, s, a, m, d)
  BY Zenon, <1>1, <1>3 DEF Between, Follow
<1>5. CASE cut.short
  <2> DEFINE g == i - 1
  <2>1. Sound(k, a, H, g)
    BY Zenon, <1>5 DEF Erased
  <2>2. g \in Nat
    <3> HIDE DEF g
    <3>1. QED
      BY Zenon, <2>1, SoundIn
  <2>3. g + 1 = i /\ H + 2 <= MaxHeight
    BY <1>1
  <2> HIDE DEF g
  <2>4. Short(k, H, g, c, m, s, a, d)
    BY Zenon, <1>1, <1>4, <2>1, <2>2, <2>3 DEF Short
  <2>5. r = EraseFix(u, s)
    BY ZenonT(60), <1>2, <1>5 DEF After
  <2> HIDE DEF a, r
  <2>6. Erased(k, Nodes[a] \cup {m} \cup Nodes[d], H + 1, (g + 1) + Blacks(c), c = "red", r)
    BY ZenonT(60), <1>1, <2>4, <2>5, EraseFixSound
  <2>7. QED
    BY Zenon, <1>3, <2>3, <2>6 DEF r
<1>6. CASE ~cut.short
  <2>1. Sound(k, a, H + 2, i)
    BY Zenon, <1>6 DEF Erased
  <2>2. H <= H + 2 /\ H + 2 \in 0..MaxHeight /\ H + 2 < MaxHeight /\ (H + 2) + 1 = (H + 1) + 2
    BY <1>1
  <2>3. Sound(k, d, H + 2, i)
    BY Zenon, <1>1, <2>2, SoundIn
  <2>4. Joins(k, H + 2, i, c, m, s, a, d)
    BY Zenon, <1>1, <1>3, <1>4, <2>1, <2>2, <2>3 DEF Joins
  <2> HIDE DEF a
  <2>5. Sound(k, u, (H + 2) + 1, i + Blacks(c)) /\ Nodes[u] = Nodes[a] \cup {m} \cup Nodes[d]
    BY <2>4, MakeSound
  <2>6. Red(u) <=> c = "red"
    BY Zenon, <1>1, MakeFields
  <2>7. r = Cut(u, FALSE)
    BY Zenon, <1>2, <1>6 DEF After, a
  <2> HIDE DEF u, r
  <2>8. r.t = u /\ r.short = FALSE
    BY Zenon, <2>7, CutFields
  <2>9. QED
    BY Zenon, <1>3, <2>2, <2>5, <2>6, <2>8 DEF Erased, r
<1>7. QED
  BY Zenon, <1>5, <1>6

(* rb_first is the least node of a sorted tree. *)
LEMMA FirstLeast ==
  ASSUME NEW k, Numbers(k)
  PROVE  \A t \in Trees : t # Empty /\ Sorted(k)[t] =>
            /\ rb_first[t] \in Nodes[t]
            /\ \A x \in Nodes[t] : x = rb_first[t] \/ k[rb_first[t]] < k[x]
<1> DEFINE P(t) == t # Empty /\ Sorted(k)[t] =>
                      /\ rb_first[t] \in Nodes[t]
                      /\ \A x \in Nodes[t] : x = rb_first[t] \/ k[rb_first[t]] < k[x]
           S == {t \in Trees : P(t)}
<1>1. Empty \in S
  BY Zenon, EmptyTree
<1>2. ASSUME NEW t \in Trees, t # Empty, t.l \in S, t.r \in S PROVE t \in S
  <2>1. SUFFICES ASSUME Sorted(k)[t] PROVE P(t)
    OBVIOUS
  <2>2. t.n \in Node /\ t.l \in Trees /\ t.r \in Trees
    BY Zenon, <1>2, PartsTrees
  <2>3. /\ \A x \in Nodes[t.l] : k[x] < k[t.n]
        /\ \A x \in Nodes[t.r] : k[t.n] < k[x]
        /\ Sorted(k)[t.l]
    BY Zenon, <1>2, <2>1, SortedRule
  <2>4. Nodes[t] = Nodes[t.l] \cup {t.n} \cup Nodes[t.r]
    BY Zenon, <1>2, NodesRule
  <2>5. rb_first[t] = IF t.l = Empty THEN t.n ELSE rb_first[t.l]
    BY Zenon, <1>2, FirstRule
  <2>6. CASE t.l = Empty
    <3>1. Nodes[t.l] = {} /\ rb_first[t] = t.n
      BY Zenon, <2>2, <2>5, <2>6, NodesRule
    <3>2. QED
      BY Zenon, <2>3, <2>4, <3>1
  <2>7. CASE t.l # Empty
    <3> DEFINE f == rb_first[t.l]
    <3>1. rb_first[t] = f
      BY Zenon, <2>5, <2>7
    <3>2. f \in Nodes[t.l] /\ \A x \in Nodes[t.l] : x = f \/ k[f] < k[x]
      BY Zenon, <1>2, <2>3, <2>7
    <3> HIDE DEF f
    <3>3. f \in Node /\ Nodes[t.r] \subseteq Node /\ \A x \in Node : k[x] \in Int
      BY Zenon, <2>2, <3>2, NodesIn DEF Numbers
    <3>4. k[f] < k[t.n] /\ \A x \in Nodes[t.r] : k[f] < k[x]
      BY <2>2, <2>3, <3>2, <3>3
    <3>5. QED
      BY Zenon, <2>4, <3>1, <3>2, <3>4
  <2>8. QED
    BY Zenon, <2>6, <2>7
<1>3. \A t \in Trees : t \in S
  <2> HIDE DEF S
  <2>1. QED
    BY Zenon, <1>1, <1>2, TreeInduction
<1>4. QED
  BY Zenon, <1>3

(* A root is in none of its subtrees, and no node is in both. *)
LEMMA PartsApart ==
  ASSUME NEW k, Numbers(k), NEW s \in Side, NEW a \in Trees, NEW n \in Node, NEW b \in Trees,
         Between(k, s, a, n, b)
  PROVE  n \notin Nodes[a] /\ n \notin Nodes[b] /\ Nodes[a] \cap Nodes[b] = {}
<1>1. Nodes[a] \subseteq Node /\ Nodes[b] \subseteq Node /\ \A x \in Node : k[x] \in Int
  BY Zenon, NodesIn DEF Numbers
<1>2. ~Lt(s, k[n], k[n])
  BY Zenon, <1>1, LtStrict
<1>3. \A x \in Node : ~(Lt(s, k[x], k[n]) /\ Lt(s, k[n], k[x]))
  BY Zenon, <1>1, LtStrict
<1>4. QED
  BY Zenon, <1>1, <1>2, <1>3 DEF Between

(* Erasing a root with one child at most. *)
LEMMA UnlinkSound ==
  ASSUME NEW k, Numbers(k), NEW H, NEW h, NEW t, t # Empty, Sound(k, t, H, h), H + 2 <= MaxHeight,
         t.l = Empty \/ t.r = Empty
  PROVE  Erased(k, Nodes[t] \ {t.n}, H, h, Red(t), Unlink(t))
<1> USE HeightAssumption
<1> DEFINE u == IF t.l = Empty THEN t.r ELSE t.l
           g == h - Blacks(t.c)
           p == Paint("black", u)
           r == Unlink(t)
<1>1. "l" \in Side /\ Sub(t, "l") = t.l /\ Sub(t, Other("l")) = t.r
  BY Zenon DEF Side, Sub, Other
<1>2. /\ H > 0 /\ g \in Nat /\ h \in Nat /\ t.c \in Colours /\ t.n \in Node
      /\ Sound(k, t.l, H - 1, g) /\ Sound(k, t.r, H - 1, g)
      /\ Between(k, "l", t.l, t.n, t.r) /\ Nodes[t] = Nodes[t.l] \cup {t.n} \cup Nodes[t.r]
      /\ (Red(t) => ~Red(t.l) /\ ~Red(t.r)) /\ (Red(t) <=> t.c = "red")
  BY <1>1, SoundParts
<1>3. g = 0
  <2>1. Sound(k, Empty, H - 1, g)
    BY Zenon, <1>2
  <2>2. BlackHeights[Empty] = {g}
    BY Zenon, <2>1 DEF Sound
  <2>3. BlackHeights[Empty] = {0}
    BY Zenon, EmptyTree, BlackHeightsRule
  <2>4. QED
    BY Zenon, <2>2, <2>3
<1>4. h = Blacks(t.c)
  BY <1>2, <1>3 DEF Blacks
<1>5. Sound(k, u, H - 1, 0) /\ (Red(t) => ~Red(u))
  BY Zenon, <1>2, <1>3
<1>6. Nodes[t] \ {t.n} = Nodes[u]
  <2>1. t.l \in Trees /\ t.r \in Trees
    BY Zenon, <1>2, SoundIn
  <2>2. t.n \notin Nodes[t.l] /\ t.n \notin Nodes[t.r]
    BY <1>1, <1>2, <2>1, PartsApart
  <2>3. Nodes[Empty] = {}
    BY Zenon, EmptyTree, NodesRule
  <2>4. QED
    BY Zenon, <1>2, <2>2, <2>3
<1>7. r = Cut(p, t.c = "black" /\ ~Red(u))
  BY Zenon DEF Unlink
<1> HIDE DEF u, g, r
<1>8. /\ Nodes[p] = Nodes[u] /\ ~Red(p)
      /\ Red(u) => Sound(k, p, H - 1, 0 + 1)
      /\ ~Red(u) => Sound(k, p, H - 1, 0)
  BY Zenon, <1>5, PaintBlack
<1> HIDE DEF p
<1>9. r.t = p /\ r.short = (t.c = "black" /\ ~Red(u))
  BY Zenon, <1>7, CutFields
<1>10. H \in 0..MaxHeight /\ H + 2 \in 0..MaxHeight /\ H - 1 <= H /\ H - 1 <= H + 2 /\ H \in Int
  BY <1>2 DEF Sound
<1>11. CASE t.c = "black" /\ ~Red(u)
  <2>1. Sound(k, p, H, 0) /\ h - 1 = 0
    BY <1>4, <1>8, <1>10, <1>11, SoundIn DEF Blacks
  <2>2. QED
    BY Zenon, <1>6, <1>8, <1>9, <1>11, <2>1 DEF Erased, r
<1>12. CASE ~(t.c = "black" /\ ~Red(u))
  <2>1. Sound(k, p, H - 1, h)
    BY <1>2, <1>4, <1>5, <1>8, <1>12 DEF Blacks, Colours
  <2>2. Sound(k, p, H + 2, h)
    BY Zenon, <1>10, <2>1, SoundIn
  <2>3. QED
    BY Zenon, <1>6, <1>8, <1>9, <1>12, <2>2 DEF Erased, r
<1>13. QED
  BY Zenon, <1>11, <1>12

(* Erasing a node in a subtree, whose root keeps its place or gives it to  *)
(* the node.                                                               *)
LEMMA EraseBelow ==
  ASSUME NEW k, Numbers(k), NEW H, NEW h, NEW t, t # Empty, Sound(k, t, H + 1, h), H \in Nat,
         H + 3 <= MaxHeight, NEW s \in Side, NEW N, NEW cut, NEW v, v.c = t.c,
         v.n \in Node, Sub(v, Other(s)) = Sub(t, Other(s)),
         Erased(k, N, H, h - Blacks(t.c), Red(Sub(t, s)), cut),
         Follow(k, s, N, v.n, Sub(t, Other(s)))
  PROVE  Erased(k, N \cup {v.n} \cup Nodes[Sub(t, Other(s))], H + 1, h, Red(t), After(v, s, cut))
<1> DEFINE d == Sub(t, Other(s))
           b == Red(Sub(t, s))
           i == h - Blacks(t.c)
           c == t.c
           m == v.n
           J == H + 1
<1>1. Sound(k, t, J, h)
  BY Zenon
<1>2. J - 1 = H
  OBVIOUS
<1> HIDE DEF J
<1>3. /\ i \in Nat /\ h \in Nat /\ c \in Colours /\ Sound(k, d, J - 1, i)
      /\ (Red(t) => ~b /\ ~Red(d)) /\ (Red(t) <=> c = "red")
  BY Zenon, <1>1, SoundParts
<1>4. i + Blacks(c) = h
  BY <1>3 DEF Blacks
<1>5. /\ v.c = c /\ v.n = m /\ Sub(v, Other(s)) = d /\ m \in Node
      /\ Erased(k, N, H, i, b, cut) /\ Follow(k, s, N, m, d)
  BY Zenon
<1> HIDE DEF d, b, i, c, m
<1>6. Beside(k, H, i, c, m, s, d, N)
  BY Zenon, <1>2, <1>3, <1>5 DEF Beside
<1>7. c = "red" => ~b
  BY Zenon, <1>3
<1>8. Erased(k, N \cup {m} \cup Nodes[d], H + 1, i + Blacks(c), c = "red", After(v, s, cut))
  BY Zenon, <1>5, <1>6, <1>7, AfterSound
<1>9. Erased(k, N \cup {m} \cup Nodes[d], H + 1, h, Red(t), After(v, s, cut))
  BY Zenon, <1>3, <1>4, <1>8 DEF Erased
<1>10. QED
  BY Zenon, <1>9 DEF m, d

(* Erasing a node keeps a tree sound, but for a black level it may lose,   *)
(* and takes the node away.                                                *)
LEMMA EraseSound ==
  ASSUME NEW k, Numbers(k)
  PROVE  \A H \in 0..MaxHeight : H + 2 <= MaxHeight =>
            \A t, h : Sound(k, t, H, h) =>
               \A n \in Nodes[t] : Erased(k, Nodes[t] \ {n}, H, h, Red(t), Erase[t][n])
<1> USE HeightAssumption
<1> DEFINE P(H) == \A t, h : Sound(k, t, H, h) =>
                      \A n \in Nodes[t] : Erased(k, Nodes[t] \ {n}, H, h, Red(t), Erase[t][n])
           S == {H \in 0..MaxHeight : H + 2 <= MaxHeight => P(H)}
<1>1. ASSUME NEW H \in 0..(MaxHeight - 1), H + 3 <= MaxHeight, P(H),
             NEW t, NEW h, Sound(k, t, H + 1, h), NEW n \in Nodes[t]
      PROVE  Erased(k, Nodes[t] \ {n}, H + 1, h, Red(t), Erase[t][n])
  <2> DEFINE l == t.l
             r == t.r
             m == t.n
             c == t.c
             g == h - Blacks(t.c)
             J == H + 1
  <2>1. t \in Trees /\ n \in Node
    BY Zenon, <1>1, SoundIn
  <2>2. t # Empty
    <3>1. Nodes[Empty] = {}
      BY Zenon, EmptyTree, NodesRule
    <3>2. QED
      BY Zenon, <3>1
  <2>3. J \in Int /\ J + 2 <= MaxHeight /\ J - 1 = H /\ Sound(k, t, J, h) /\ H \in Nat
    BY <1>1
  <2>4. "l" \in Side /\ "r" \in Side /\ Other("l") = "r" /\ Other("r") = "l"
        /\ Sub(t, "l") = l /\ Sub(t, "r") = r
    BY Zenon DEF Side, Sub, Other
  <2>5. Erase[t][n] =
          IF m = n
          THEN IF l = Empty \/ r = Empty THEN Unlink(t)
               ELSE After(Tree(c, l, rb_first[r], r), "r", Erase[r][rb_first[r]])
          ELSE After(t, IF n \in Nodes[l] THEN "l" ELSE "r",
                     Erase[Sub(t, IF n \in Nodes[l] THEN "l" ELSE "r")][n])
    BY ZenonT(60), <2>1, <2>2, EraseRule
  <2> HIDE DEF J
  <2>6. /\ m \in Node /\ Sound(k, l, J - 1, g) /\ Sound(k, r, J - 1, g)
        /\ Between(k, "l", l, m, r) /\ Nodes[t] = Nodes[l] \cup {m} \cup Nodes[r]
    BY <2>2, <2>3, <2>4, SoundParts
  <2>7. Sound(k, l, H, g) /\ Sound(k, r, H, g)
    BY Zenon, <2>3, <2>6
  <2>8. l \in Trees /\ r \in Trees /\ Nodes[l] \subseteq Node /\ Nodes[r] \subseteq Node
    BY Zenon, <2>7, SoundIn
  <2>9. m \notin Nodes[l] /\ m \notin Nodes[r] /\ Nodes[l] \cap Nodes[r] = {}
    BY Zenon, <2>4, <2>6, <2>8, PartsApart
  <2>10. /\ \A x \in Nodes[l] : Erased(k, Nodes[l] \ {x}, H, g, Red(l), Erase[l][x])
         /\ \A x \in Nodes[r] : Erased(k, Nodes[r] \ {x}, H, g, Red(r), Erase[r][x])
    BY Zenon, <1>1, <2>7
  <2>11. /\ \A x \in Nodes[l] : k[x] < k[m]
         /\ \A x \in Nodes[r] : k[m] < k[x]
    BY Zenon, <2>6 DEF Between, Lt
  <2>12. CASE m = n /\ (l = Empty \/ r = Empty)
    <3>1. Erased(k, Nodes[t] \ {m}, J, h, Red(t), Unlink(t))
      BY Zenon, <2>2, <2>3, <2>12, UnlinkSound
    <3>2. QED
      BY Zenon, <2>5, <2>12, <3>1 DEF J
  <2>13. CASE m = n /\ ~(l = Empty \/ r = Empty)
    <3> DEFINE f == rb_first[r]
               v == Tree(c, l, f, r)
               cut == Erase[r][f]
               N == Nodes[r] \ {f}
    <3>1. f \in Nodes[r] /\ \A x \in Nodes[r] : x = f \/ k[f] < k[x]
      <4>1. Sorted(k)[r]
        BY Zenon, <2>7 DEF Sound
      <4>2. QED
        BY Zenon, <2>8, <2>13, <4>1, FirstLeast
    <3>2. v.c = t.c /\ v.n = f /\ v.l = l
      BY TreeFields
    <3> HIDE DEF f, v
    <3>3. f \in Node /\ \A x \in Node : k[x] \in Int
      BY Zenon, <2>8, <3>1 DEF Numbers
    <3>4. ASSUME NEW x \in Nodes[l] PROVE k[x] < k[f]
      <4>1. k[x] \in Int /\ k[m] \in Int /\ k[f] \in Int /\ k[x] < k[m] /\ k[m] < k[f]
        BY Zenon, <2>6, <2>8, <2>11, <3>1, <3>3
      <4>2. QED
        BY <4>1
    <3>5. Follow(k, "r", N, f, l)
      BY Zenon, <3>1, <3>4 DEF Follow, Lt
    <3>6. Erased(k, N, H, g, Red(r), cut)
      BY Zenon, <2>10, <3>1
    <3>7. Sub(v, Other("r")) = Sub(t, Other("r"))
      BY Zenon, <2>4, <3>2 DEF Sub
    <3> HIDE DEF N, cut
    <3>8. Erased(k, N \cup {v.n} \cup Nodes[Sub(t, Other("r"))], H + 1, h, Red(t),
                 After(v, "r", cut))
      <4>1. /\ Erased(k, N, H, h - Blacks(t.c), Red(Sub(t, "r")), cut)
            /\ Follow(k, "r", N, v.n, Sub(t, Other("r")))
        BY Zenon, <2>4, <3>2, <3>5, <3>6
      <4>2. v.n \in Node
        BY Zenon, <3>2, <3>3
      <4>3. QED
        BY Zenon, <1>1, <2>2, <2>3, <2>4, <3>2, <3>7, <4>1, <4>2, EraseBelow
    <3>9. N \cup {v.n} \cup Nodes[Sub(t, Other("r"))] = Nodes[t] \ {n}
      BY Zenon, <2>4, <2>6, <2>9, <2>13, <3>1, <3>2 DEF N
    <3>10. Erase[t][n] = After(v, "r", cut)
      BY Zenon, <2>5, <2>13 DEF v, f, cut
    <3>11. QED
      BY Zenon, <3>8, <3>9, <3>10
  <2>14. CASE m # n /\ n \in Nodes[l]
    <3> DEFINE cut == Erase[l][n]
               N == Nodes[l] \ {n}
    <3>1. Erased(k, N, H, h - Blacks(t.c), Red(Sub(t, "l")), cut)
      BY Zenon, <2>4, <2>10, <2>14
    <3>2. Follow(k, "l", N, t.n, Sub(t, Other("l")))
      BY Zenon, <2>4, <2>11 DEF Follow, Lt
    <3>3. Erase[t][n] = After(t, "l", cut)
      BY Zenon, <2>4, <2>5, <2>14
    <3> HIDE DEF N, cut
    <3>4. Erased(k, N \cup {t.n} \cup Nodes[Sub(t, Other("l"))], H + 1, h, Red(t),
                 After(t, "l", cut))
      BY Zenon, <1>1, <2>2, <2>3, <2>4, <2>6, <3>1, <3>2, EraseBelow
    <3>5. N \cup {t.n} \cup Nodes[Sub(t, Other("l"))] = Nodes[t] \ {n}
      BY Zenon, <2>4, <2>6, <2>9, <2>14 DEF N
    <3>6. QED
      BY Zenon, <3>3, <3>4, <3>5
  <2>15. CASE m # n /\ n \notin Nodes[l]
    <3> DEFINE cut == Erase[r][n]
               N == Nodes[r] \ {n}
    <3>1. n \in Nodes[r]
      BY Zenon, <2>6, <2>15
    <3>2. Erased(k, N, H, h - Blacks(t.c), Red(Sub(t, "r")), cut)
      BY Zenon, <2>4, <2>10, <3>1
    <3>3. Follow(k, "r", N, t.n, Sub(t, Other("r")))
      BY Zenon, <2>4, <2>11 DEF Follow, Lt
    <3>4. Erase[t][n] = After(t, "r", cut)
      BY Zenon, <2>4, <2>5, <2>15
    <3> HIDE DEF N, cut
    <3>5. Erased(k, N \cup {t.n} \cup Nodes[Sub(t, Other("r"))], H + 1, h, Red(t),
                 After(t, "r", cut))
      BY Zenon, <1>1, <2>2, <2>3, <2>4, <2>6, <3>2, <3>3, EraseBelow
    <3>6. N \cup {t.n} \cup Nodes[Sub(t, Other("r"))] = Nodes[t] \ {n}
      BY Zenon, <2>4, <2>6, <2>9, <2>15 DEF N
    <3>7. QED
      BY Zenon, <3>4, <3>5, <3>6
  <2>16. QED
    BY Zenon, <2>12, <2>13, <2>14, <2>15
<1>2. 0 \in S
  <2>1. ASSUME NEW t, NEW h, Sound(k, t, 0, h) PROVE Nodes[t] = {}
    <3>1. 0 \in 0..MaxHeight /\ t \in Below[0]
      BY Zenon, <2>1 DEF Sound
    <3>2. t = Empty
      BY Zenon, <3>1, BelowRule
    <3>3. QED
      BY Zenon, <3>2, EmptyTree, NodesRule
  <2>2. QED
    BY <2>1
<1>3. ASSUME NEW H \in 0..(MaxHeight - 1), H \in S PROVE H + 1 \in S
  <2>1. SUFFICES ASSUME H + 3 <= MaxHeight PROVE P(H + 1)
    OBVIOUS
  <2>2. P(H)
    BY <1>3, <2>1
  <2>3. QED
    BY Zenon, <1>1, <2>1, <2>2
<1>4. \A H \in 0..MaxHeight : H \in S
  <2> HIDE DEF S
  <2>1. QED
    BY Zenon, <1>2, <1>3, UpTo
<1>5. QED
  BY Zenon, <1>4

-----------------------------------------------------------------------------
(* Searches and traversals of a sorted tree. *)

\* The comparator's results dir agree with the order of the keys around v.
Fits(k, v, dir, t) ==
    \A m \in Nodes[t] : /\ dir[m] \in Int
                        /\ (v < k[m] => dir[m] < 0) /\ (k[m] < v => dir[m] > 0)

(* A search finds exactly the nodes the comparator calls equal. *)
LEMMA DescendFinds ==
  ASSUME NEW k, Numbers(k), NEW v \in Int, NEW dir
  PROVE  \A t \in Trees : Sorted(k)[t] /\ Fits(k, v, dir, t) =>
            Descend(dir)[t] = {m \in Nodes[t] : dir[m] = 0}
<1> DEFINE P(t) == Sorted(k)[t] /\ Fits(k, v, dir, t) =>
                      Descend(dir)[t] = {m \in Nodes[t] : dir[m] = 0}
           S == {t \in Trees : P(t)}
<1>1. Empty \in S
  <2>1. Descend(dir)[Empty] = {} /\ Nodes[Empty] = {}
    BY Zenon, EmptyTree, DescendRule, NodesRule
  <2>2. QED
    BY Zenon, <2>1, EmptyTree
<1>2. ASSUME NEW t \in Trees, t # Empty, t.l \in S, t.r \in S PROVE t \in S
  <2>1. SUFFICES ASSUME Sorted(k)[t], Fits(k, v, dir, t)
                 PROVE  Descend(dir)[t] = {m \in Nodes[t] : dir[m] = 0}
    OBVIOUS
  <2> DEFINE n == t.n
             L == Nodes[t.l]
             R == Nodes[t.r]
  <2>2. n \in Node /\ t.l \in Trees /\ t.r \in Trees
    BY Zenon, <1>2, PartsTrees
  <2>3. /\ \A x \in L : k[x] < k[n]
        /\ \A x \in R : k[n] < k[x]
        /\ Sorted(k)[t.l] /\ Sorted(k)[t.r]
    BY Zenon, <1>2, <2>1, SortedRule
  <2>4. Nodes[t] = L \cup {n} \cup R
    BY Zenon, <1>2, NodesRule
  <2>5. Fits(k, v, dir, t.l) /\ Fits(k, v, dir, t.r)
    BY Zenon, <2>1, <2>4 DEF Fits
  <2>6. /\ Descend(dir)[t.l] = {m \in L : dir[m] = 0}
        /\ Descend(dir)[t.r] = {m \in R : dir[m] = 0}
    BY Zenon, <1>2, <2>3, <2>5
  <2>7. Descend(dir)[t] = IF dir[n] = 0 THEN {n} ELSE Descend(dir)[Sub(t, Turn(dir[n]))]
    BY Zenon, <1>2, DescendRule
  <2>8. L \subseteq Node /\ R \subseteq Node /\ \A x \in Node : k[x] \in Int
    BY Zenon, <2>2, NodesIn DEF Numbers
  <2>9. \A m \in L \cup {n} \cup R :
           dir[m] \in Int /\ (v < k[m] => dir[m] < 0) /\ (k[m] < v => dir[m] > 0)
    BY Zenon, <2>1, <2>4 DEF Fits
  <2>10. Sub(t, Turn(dir[n])) = IF dir[n] < 0 THEN t.l ELSE t.r
    BY Zenon DEF Sub, Turn
  <2> HIDE DEF L, R, n
  <2>11. \A m \in L \cup {n} \cup R : dir[m] = 0 => k[m] = v
    BY <2>2, <2>8, <2>9
  <2>12. CASE dir[n] = 0
    <3>1. k[n] = v
      BY Zenon, <2>11, <2>12
    <3>2. \A m \in L \cup R : dir[m] # 0
      BY <2>2, <2>3, <2>8, <2>11, <3>1
    <3>3. QED
      BY Zenon, <2>4, <2>7, <2>12, <3>2
  <2>13. CASE dir[n] # 0 /\ dir[n] < 0
    <3>1. v <= k[n]
      BY <2>2, <2>8, <2>9, <2>13
    <3>2. \A m \in R : dir[m] # 0
      BY <2>2, <2>3, <2>8, <2>11, <3>1
    <3>3. Descend(dir)[t] = {m \in L : dir[m] = 0}
      BY Zenon, <2>6, <2>7, <2>10, <2>13
    <3>4. QED
      BY Zenon, <2>4, <2>13, <3>2, <3>3
  <2>14. CASE dir[n] # 0 /\ ~(dir[n] < 0)
    <3>1. k[n] <= v
      BY <2>2, <2>8, <2>9, <2>14
    <3>2. \A m \in L : dir[m] # 0
      BY <2>2, <2>3, <2>8, <2>11, <3>1
    <3>3. Descend(dir)[t] = {m \in R : dir[m] = 0}
      BY Zenon, <2>6, <2>7, <2>10, <2>14
    <3>4. QED
      BY Zenon, <2>4, <2>14, <3>2, <3>3
  <2>15. QED
    BY Zenon, <2>12, <2>13, <2>14
<1>3. \A t \in Trees : t \in S
  <2> HIDE DEF S
  <2>1. QED
    BY Zenon, <1>1, <1>2, TreeInduction
<1>4. QED
  BY Zenon, <1>3

(* Two nodes of a sorted tree have different keys. *)
LEMMA SortedDistinct ==
  ASSUME NEW k, Numbers(k)
  PROVE  \A t \in Trees : Sorted(k)[t] => \A x, y \in Nodes[t] : k[x] = k[y] => x = y
<1> DEFINE S == {t \in Trees : Sorted(k)[t] => \A x, y \in Nodes[t] : k[x] = k[y] => x = y}
<1>1. Empty \in S
  <2>1. Nodes[Empty] = {}
    BY Zenon, EmptyTree, NodesRule
  <2>2. QED
    BY Zenon, <2>1, EmptyTree
<1>2. ASSUME NEW t \in Trees, t # Empty, t.l \in S, t.r \in S PROVE t \in S
  <2>1. SUFFICES ASSUME Sorted(k)[t], NEW x \in Nodes[t], NEW y \in Nodes[t], k[x] = k[y]
                 PROVE  x = y
    OBVIOUS
  <2>2. t.n \in Node /\ t.l \in Trees /\ t.r \in Trees
    BY Zenon, <1>2, PartsTrees
  <2>3. /\ \A z \in Nodes[t.l] : k[z] < k[t.n]
        /\ \A z \in Nodes[t.r] : k[t.n] < k[z]
        /\ Sorted(k)[t.l] /\ Sorted(k)[t.r]
    BY Zenon, <1>2, <2>1, SortedRule
  <2>4. Nodes[t] = Nodes[t.l] \cup {t.n} \cup Nodes[t.r]
    BY Zenon, <1>2, NodesRule
  <2>5. Nodes[t.l] \subseteq Node /\ Nodes[t.r] \subseteq Node /\ \A z \in Node : k[z] \in Int
    BY Zenon, <2>2, NodesIn DEF Numbers
  <2>6. /\ \A z, w \in Nodes[t.l] : k[z] = k[w] => z = w
        /\ \A z, w \in Nodes[t.r] : k[z] = k[w] => z = w
    BY Zenon, <1>2, <2>3
  <2>7. QED
    BY <2>1, <2>2, <2>3, <2>4, <2>5, <2>6
<1>3. \A t \in Trees : t \in S
  <2> HIDE DEF S
  <2>1. QED
    BY Zenon, <1>1, <1>2, TreeInduction
<1>4. QED
  BY Zenon, <1>3

\* The keys of N are among the d numbers from a on.
Within(k, N, a, d) == \A x \in N : a <= k[x] /\ k[x] < a + d

(* A sorted tree is no higher than there are numbers its keys can be. *)
LEMMA HeightBound ==
  ASSUME NEW k, Numbers(k)
  PROVE  \A t \in Trees : Sorted(k)[t] => \A a \in Int, d \in 0..MaxHeight :
            Within(k, Nodes[t], a, d) => t \in Below[d]
<1> USE HeightAssumption
<1> DEFINE P(t) == Sorted(k)[t] => \A a \in Int, d \in 0..MaxHeight :
                      Within(k, Nodes[t], a, d) => t \in Below[d]
           S == {t \in Trees : P(t)}
<1>1. Empty \in S
  BY Zenon, EmptyTree, EmptyIn
<1>2. ASSUME NEW t \in Trees, t # Empty, t.l \in S, t.r \in S PROVE t \in S
  <2>1. SUFFICES ASSUME Sorted(k)[t], NEW a \in Int, NEW d \in 0..MaxHeight,
                        Within(k, Nodes[t], a, d)
                 PROVE  t \in Below[d]
    OBVIOUS
  <2> DEFINE r == k[t.n]
             e == d - 1
             i == r - a
             b == r + 1
             j == (a + d) - b
  <2>2. /\ t.c \in Colours /\ t.n \in Node /\ t.l \in Trees /\ t.r \in Trees
        /\ t = Tree(t.c, t.l, t.n, t.r)
    BY Zenon, <1>2, PartsTrees
  <2>3. /\ \A x \in Nodes[t.l] : k[x] < r
        /\ \A x \in Nodes[t.r] : r < k[x]
        /\ Sorted(k)[t.l] /\ Sorted(k)[t.r]
    BY Zenon, <1>2, <2>1, SortedRule
  <2>4. Nodes[t] = Nodes[t.l] \cup {t.n} \cup Nodes[t.r]
    BY Zenon, <1>2, NodesRule
  <2>5. Nodes[t] \subseteq Node /\ \A x \in Nodes[t] : k[x] \in Int /\ a <= k[x] /\ k[x] < a + d
    BY Zenon, <2>1, NodesIn DEF Within, Numbers
  <2>6. r \in Int /\ a <= r /\ r < a + d
    BY Zenon, <2>4, <2>5
  <2> HIDE DEF r
  <2>7. /\ e \in 0..(MaxHeight - 1) /\ e \in 0..MaxHeight /\ e + 1 = d /\ b \in Int
        /\ i \in 0..MaxHeight /\ i <= e /\ j \in 0..MaxHeight /\ j <= e
        /\ a + i = r /\ b + j = a + d
    BY <2>6
  <2>8. \A x \in Int : r < x => b <= x
    BY <2>6
  <2> HIDE DEF e, i, b, j
  <2>9. Within(k, Nodes[t.l], a, i)
    BY Zenon, <2>3, <2>4, <2>5, <2>7 DEF Within
  <2>10. Within(k, Nodes[t.r], b, j)
    BY Zenon, <2>3, <2>4, <2>5, <2>7, <2>8 DEF Within
  <2>11. t.l \in Below[i] /\ t.r \in Below[j]
    BY Zenon, <1>2, <2>3, <2>7, <2>9, <2>10
  <2>12. t.l \in Below[e] /\ t.r \in Below[e]
    BY Zenon, <2>7, <2>11, BelowMono
  <2>13. Tree(t.c, t.l, t.n, t.r) \in Below[e + 1]
    BY Zenon, <2>2, <2>7, <2>12, TreeIn
  <2>14. QED
    BY Zenon, <2>2, <2>7, <2>13
<1>3. \A t \in Trees : t \in S
  <2> HIDE DEF S
  <2>1. QED
    BY Zenon, <1>1, <1>2, TreeInduction
<1>4. QED
  BY Zenon, <1>3

\* The nodes N with new in the place of old.
Instead(N, old, new) == IF old \in N THEN (N \ {old}) \cup {new} ELSE N

(* A node replaced by one with the same key leaves a tree sound. *)
LEMMA ReplaceSound ==
  ASSUME NEW k, Numbers(k), NEW old \in Node, NEW new \in Node, k[new] = k[old]
  PROVE  \A t \in Trees : \A H, h : Sound(k, t, H, h) =>
            /\ Sound(k, Replace(old, new)[t], H, h)
            /\ Nodes[Replace(old, new)[t]] = Instead(Nodes[t], old, new)
            /\ (Red(Replace(old, new)[t]) <=> Red(t))
<1> USE HeightAssumption
<1> DEFINE f == Replace(old, new)
           P(t) == \A H, h : Sound(k, t, H, h) =>
                      /\ Sound(k, f[t], H, h)
                      /\ Nodes[f[t]] = Instead(Nodes[t], old, new)
                      /\ (Red(f[t]) <=> Red(t))
           S == {t \in Trees : P(t)}
<1>0. \A t \in Trees :
         f[t] = IF t = Empty THEN t ELSE Tree(t.c, f[t.l], IF t.n = old THEN new ELSE t.n, f[t.r])
  BY ReplaceRule
<1> HIDE DEF f
<1>1. Empty \in S
  <2>1. f[Empty] = Empty
    BY Zenon, <1>0, EmptyTree
  <2>2. Nodes[Empty] = {}
    BY Zenon, EmptyTree, NodesRule
  <2>3. QED
    BY Zenon, <2>1, <2>2, EmptyTree DEF Instead
<1>2. ASSUME NEW t \in Trees, t # Empty, t.l \in S, t.r \in S PROVE t \in S
  <2>1. SUFFICES ASSUME NEW H, NEW h, Sound(k, t, H, h)
                 PROVE  /\ Sound(k, f[t], H, h)
                        /\ Nodes[f[t]] = Instead(Nodes[t], old, new)
                        /\ (Red(f[t]) <=> Red(t))
    OBVIOUS
  <2> DEFINE l == t.l
             r == t.r
             c == t.c
             m == t.n
             q == IF t.n = old THEN new ELSE t.n
             g == h - Blacks(t.c)
             a == f[t.l]
             b == f[t.r]
  <2>2. "l" \in Side /\ Sub(t, "l") = l /\ Sub(t, Other("l")) = r
    BY Zenon DEF Side, Sub, Other
  <2>3. /\ H > 0 /\ g \in Nat /\ h \in Nat /\ c \in Colours /\ m \in Node
        /\ Sound(k, l, H - 1, g) /\ Sound(k, r, H - 1, g)
        /\ Between(k, "l", l, m, r) /\ Nodes[t] = Nodes[l] \cup {m} \cup Nodes[r]
        /\ (Red(t) => ~Red(l) /\ ~Red(r)) /\ (Red(t) <=> c = "red")
    BY <1>2, <2>1, <2>2, SoundParts
  <2>4. /\ Sound(k, a, H - 1, g) /\ Nodes[a] = Instead(Nodes[l], old, new)
        /\ (Red(a) <=> Red(l))
    BY Zenon, <1>2, <2>3
  <2>5. /\ Sound(k, b, H - 1, g) /\ Nodes[b] = Instead(Nodes[r], old, new)
        /\ (Red(b) <=> Red(r))
    BY Zenon, <1>2, <2>3
  <2>6. f[t] = Make(c, q, "l", a, b)
    <3>1. f[t] = Tree(c, a, q, b)
      BY Zenon, <1>0, <1>2
    <3>2. QED
      BY Zenon, <3>1 DEF Make
  <2>7. l \in Trees /\ r \in Trees /\ q \in Node /\ k[q] = k[m]
        /\ Nodes[l] \subseteq Node /\ Nodes[r] \subseteq Node
    BY Zenon, <2>3, SoundIn
  <2>8. m \notin Nodes[l] /\ m \notin Nodes[r] /\ Nodes[l] \cap Nodes[r] = {}
    BY ZenonT(60), <2>2, <2>3, <2>7, PartsApart
  <2>9. H - 1 < MaxHeight /\ (H - 1) + 1 = H /\ g + Blacks(c) = h
    BY <2>1, <2>3 DEF Sound, Blacks
  <2>10. (m = old => q = new) /\ (m # old => q = m)
    OBVIOUS
  <2> HIDE DEF l, r, c, m, q, g, a, b
  <2>11. Between(k, "l", a, q, b)
    <3>1. /\ \A x \in Nodes[l] : Lt("l", k[x], k[m])
          /\ \A x \in Nodes[r] : Lt("l", k[m], k[x])
      BY Zenon, <2>3 DEF Between
    <3>2. /\ \A x \in Nodes[a] : \E y \in Nodes[l] : k[y] = k[x]
          /\ \A x \in Nodes[b] : \E y \in Nodes[r] : k[y] = k[x]
      BY Zenon, <2>4, <2>5 DEF Instead
    <3>3. QED
      BY Zenon, <2>7, <3>1, <3>2 DEF Between
  <2>12. Joins(k, H - 1, g, c, q, "l", a, b)
    BY ZenonT(60), <2>2, <2>3, <2>4, <2>5, <2>7, <2>9, <2>11 DEF Joins
  <2>13. /\ Sound(k, f[t], (H - 1) + 1, g + Blacks(c))
         /\ Nodes[f[t]] = Nodes[a] \cup {q} \cup Nodes[b]
    BY <2>6, <2>12, MakeSound
  <2>14. Nodes[a] \cup {q} \cup Nodes[b] = Instead(Nodes[t], old, new)
    BY ZenonT(60), <2>3, <2>4, <2>5, <2>8, <2>10 DEF Instead
  <2>15. Red(f[t]) <=> Red(t)
    BY <2>2, <2>3, <2>6, MakeFields
  <2>16. QED
    BY Zenon, <2>9, <2>13, <2>14, <2>15
<1>3. \A t \in Trees : t \in S
  <2> HIDE DEF S
  <2>1. QED
    BY Zenon, <1>1, <1>2, TreeInduction
<1>4. QED
  BY Zenon, <1>3 DEF f

\* w lists the nodes N in ascending order of the keys.
Lists(k, w, N) ==
    /\ w \in Seq(Node) /\ {w[i] : i \in DOMAIN w} = N
    /\ \A i, j \in DOMAIN w : i < j => k[w[i]] < k[w[j]]

(* Two lists with a node between them make a list. *)
LEMMA ListJoin ==
  ASSUME NEW k, Numbers(k), NEW s, NEW n \in Node, NEW r, NEW L, NEW R,
         Lists(k, s, L), Lists(k, r, R),
         \A x \in L : k[x] < k[n], \A x \in R : k[n] < k[x]
  PROVE  Lists(k, s \o <<n>> \o r, L \cup {n} \cup R)
<1> DEFINE w == s \o <<n>> \o r
           a == Len(s)
           b == Len(r)
<1>1. s \in Seq(Node) /\ r \in Seq(Node) /\ a \in Nat /\ b \in Nat
  BY DEF Lists
<1>2. w \in Seq(Node) /\ Len(w) = a + 1 + b
  BY <1>1
<1>3. /\ \A i \in 1..a : w[i] = s[i]
      /\ w[a + 1] = n
      /\ \A i \in 1..b : w[a + 1 + i] = r[i]
  BY <1>1
<1>4. /\ DOMAIN w = 1..(a + 1 + b) /\ DOMAIN s = 1..a /\ DOMAIN r = 1..b
  BY <1>1, <1>2
<1> HIDE DEF w
<1>5. /\ \A i \in 1..a : s[i] \in L /\ s[i] \in Node
      /\ \A i \in 1..b : r[i] \in R /\ r[i] \in Node
      /\ \A x \in L : \E i \in 1..a : x = s[i]
      /\ \A x \in R : \E i \in 1..b : x = r[i]
      /\ \A i, j \in 1..a : i < j => k[s[i]] < k[s[j]]
      /\ \A i, j \in 1..b : i < j => k[r[i]] < k[r[j]]
  <2>1. (\A i \in 1..a : s[i] \in Node) /\ (\A i \in 1..b : r[i] \in Node)
    BY <1>1
  <2> HIDE DEF a, b
  <2>2. QED
    BY Zenon, <1>4, <2>1 DEF Lists
<1> HIDE DEF a, b
<1>6. \A i \in 1..(a + 1 + b) :
         \/ i \in 1..a /\ w[i] = s[i]
         \/ i = a + 1 /\ w[i] = n
         \/ i - (a + 1) \in 1..b /\ w[i] = r[i - (a + 1)]
  <2>1. TAKE i \in 1..(a + 1 + b)
  <2>2. i - (a + 1) \in 1..b => w[a + 1 + (i - (a + 1))] = r[i - (a + 1)]
    BY Zenon, <1>3
  <2>3. a + 1 + (i - (a + 1)) = i
    BY <1>1
  <2>4. i \in 1..a \/ i = a + 1 \/ i - (a + 1) \in 1..b
    BY <1>1
  <2>5. QED
    BY Zenon, <1>3, <2>2, <2>3, <2>4
<1>7. {w[i] : i \in DOMAIN w} = L \cup {n} \cup R
  <2>1. ASSUME NEW i \in 1..(a + 1 + b) PROVE w[i] \in L \cup {n} \cup R
    BY Zenon, <1>5, <1>6
  <2>2. ASSUME NEW x \in L PROVE \E i \in 1..(a + 1 + b) : w[i] = x
    <3>1. PICK i \in 1..a : x = s[i]
      BY Zenon, <1>5
    <3>2. i \in 1..(a + 1 + b) /\ w[i] = x
      BY <1>1, <1>3, <3>1
    <3>3. QED
      BY Zenon, <3>2
  <2>3. ASSUME NEW x \in R PROVE \E i \in 1..(a + 1 + b) : w[i] = x
    <3>1. PICK i \in 1..b : x = r[i]
      BY Zenon, <1>5
    <3>2. a + 1 + i \in 1..(a + 1 + b) /\ w[a + 1 + i] = x
      BY <1>1, <1>3, <3>1
    <3>3. QED
      BY Zenon, <3>2
  <2>4. a + 1 \in 1..(a + 1 + b) /\ w[a + 1] = n
    BY <1>1, <1>3
  <2>5. QED
    BY Zenon, <1>4, <2>1, <2>2, <2>3, <2>4
<1>8. ASSUME NEW i \in 1..(a + 1 + b), NEW j \in 1..(a + 1 + b), i < j PROVE k[w[i]] < k[w[j]]
  <2>1. \A x \in Node : k[x] \in Int
    BY Zenon DEF Numbers
  <2>2. CASE i \in 1..a /\ w[i] = s[i]
    <3>1. k[w[i]] < k[n] /\ k[w[i]] \in Int /\ k[n] \in Int
      BY Zenon, <1>5, <2>1, <2>2
    <3>2. CASE j \in 1..a /\ w[j] = s[j]
      BY Zenon, <1>5, <1>8, <2>2, <3>2
    <3>3. CASE j = a + 1 /\ w[j] = n
      BY Zenon, <3>1, <3>3
    <3>4. CASE j - (a + 1) \in 1..b /\ w[j] = r[j - (a + 1)]
      <4>1. k[n] < k[w[j]] /\ k[w[j]] \in Int
        BY Zenon, <1>5, <2>1, <3>4
      <4>2. QED
        BY <3>1, <4>1
    <3>5. QED
      BY Zenon, <1>6, <3>2, <3>3, <3>4
  <2>3. CASE i = a + 1 /\ w[i] = n
    <3>1. j - (a + 1) \in 1..b /\ w[j] = r[j - (a + 1)]
      BY <1>1, <1>6, <1>8, <2>3
    <3>2. QED
      BY Zenon, <1>5, <2>3, <3>1
  <2>4. CASE i - (a + 1) \in 1..b /\ w[i] = r[i - (a + 1)]
    <3>1. j - (a + 1) \in 1..b /\ w[j] = r[j - (a + 1)] /\ i - (a + 1) < j - (a + 1)
      BY <1>1, <1>6, <1>8, <2>4
    <3>2. QED
      BY Zenon, <1>5, <2>4, <3>1
  <2>5. QED
    BY Zenon, <1>6, <2>2, <2>3, <2>4
<1>9. Lists(k, w, L \cup {n} \cup R)
  BY Zenon, <1>2, <1>4, <1>7, <1>8 DEF Lists
<1>10. QED
  BY Zenon, <1>9 DEF w

(* A sorted tree is traversed in ascending order. *)
LEMMA InOrderLists ==
  ASSUME NEW k, Numbers(k)
  PROVE  \A t \in Trees : Sorted(k)[t] => Lists(k, InOrder[t], Nodes[t])
<1> DEFINE S == {t \in Trees : Sorted(k)[t] => Lists(k, InOrder[t], Nodes[t])}
<1>1. Empty \in S
  <2>1. Nodes[Empty] = {} /\ InOrder[Empty] = <<>>
    BY Zenon, EmptyTree, NodesRule, InOrderRule
  <2>2. Lists(k, <<>>, {})
    BY DEF Lists
  <2>3. QED
    BY Zenon, <2>1, <2>2, EmptyTree
<1>2. ASSUME NEW t \in Trees, t # Empty, t.l \in S, t.r \in S PROVE t \in S
  <2>1. SUFFICES ASSUME Sorted(k)[t] PROVE Lists(k, InOrder[t], Nodes[t])
    OBVIOUS
  <2> DEFINE n == t.n
             L == Nodes[t.l]
             R == Nodes[t.r]
             s == InOrder[t.l]
             r == InOrder[t.r]
  <2>2. n \in Node
    BY Zenon, <1>2, PartsTrees
  <2>3. /\ \A x \in L : k[x] < k[n]
        /\ \A x \in R : k[n] < k[x]
        /\ Sorted(k)[t.l] /\ Sorted(k)[t.r]
    BY Zenon, <1>2, <2>1, SortedRule
  <2>4. Nodes[t] = L \cup {n} \cup R
    BY Zenon, <1>2, NodesRule
  <2>5. InOrder[t] = s \o <<n>> \o r
    BY Zenon, <1>2, InOrderRule
  <2>6. Lists(k, s, L) /\ Lists(k, r, R)
    BY Zenon, <1>2, <2>3
  <2> HIDE DEF n, L, R, s, r
  <2>7. Lists(k, s \o <<n>> \o r, L \cup {n} \cup R)
    BY Zenon, <2>2, <2>3, <2>6, ListJoin
  <2>8. QED
    BY Zenon, <2>4, <2>5, <2>7
<1>3. \A t \in Trees : t \in S
  <2> HIDE DEF S
  <2>1. QED
    BY Zenon, <1>1, <1>2, TreeInduction
<1>4. QED
  BY Zenon, <1>3

-----------------------------------------------------------------------------
(* The trees of the cache between two operations. *)

ByInode == [n \in Node |-> n.inode]
ByTime  == [n \in Node |-> n.time]
Limit   == MaxHeight - 2

\* Keys that leave a tree room for rebalancing.
Ranged(k) == Numbers(k) /\ Within(k, Node, 0, Limit)

\* A red-black tree sorted by the keys k.
Tidy(k, t) == ~Red(t) /\ \E h : Sound(k, t, Limit, h)

\* No two records have the same time.
Stamped(N) == \A x, y \in N : x.time = y.time => x = y

(* Inode numbers and times are such keys. *)
LEMMA Bounds ==
  /\ Ranged(ByInode) /\ Ranged(ByTime) /\ Numbers(ByInode) /\ Numbers(ByTime)
  /\ \A n \in Node : /\ n.dev \in Devs /\ n.inode \in Inodes /\ n.gen \in Gens /\ n.time \in Times
                     /\ ByInode[n] = n.inode /\ ByTime[n] = n.time
  /\ Limit \in Nat /\ Limit + 2 <= MaxHeight /\ Limit \in 0..MaxHeight
<1>1. Node = Record /\ Limit \in Nat /\ Limit + 2 <= MaxHeight /\ Limit \in 0..MaxHeight
  BY LinkAssumption, HeightAssumption DEF Limit
<1>2. \A n \in Node : /\ n.dev \in Devs /\ n.inode \in Inodes /\ n.gen \in Gens /\ n.time \in Times
  BY Zenon, <1>1 DEF Record
<1>3. \A x \in Inodes \cup Times : x \in Int /\ 0 <= x /\ x < 0 + Limit
  BY LinkAssumption, HeightAssumption DEF Limit
<1>4. \A n \in Node : ByInode[n] = n.inode /\ ByTime[n] = n.time
  BY Zenon DEF ByInode, ByTime
<1>5. Numbers(ByInode) /\ Numbers(ByTime)
  BY Zenon, <1>2, <1>3 DEF Numbers, ByInode, ByTime
<1>6. Within(ByInode, Node, 0, Limit) /\ Within(ByTime, Node, 0, Limit)
  BY Zenon, <1>2, <1>3, <1>4 DEF Within
<1>7. QED
  BY Zenon, <1>1, <1>2, <1>4, <1>5, <1>6 DEF Ranged

(* A sound tree with such keys is low enough. *)
LEMMA TidyBack ==
  ASSUME NEW k, Ranged(k), NEW t, NEW H, NEW h, Sound(k, t, H, h), ~Red(t)
  PROVE  Tidy(k, t)
<1>1. t \in Trees /\ Nodes[t] \subseteq Node /\ Sorted(k)[t] /\ Numbers(k)
  BY Zenon, SoundIn DEF Sound, Ranged
<1>2. Within(k, Nodes[t], 0, Limit)
  BY Zenon, <1>1 DEF Ranged, Within
<1>3. 0 \in Int /\ Limit \in 0..MaxHeight
  BY Bounds
<1>4. t \in Below[Limit]
  BY Zenon, <1>1, <1>2, <1>3, HeightBound
<1>5. Sound(k, t, Limit, h)
  BY Zenon, <1>3, <1>4 DEF Sound
<1>6. QED
  BY Zenon, <1>5 DEF Tidy

(* What a tidy tree is. *)
LEMMA TidyIn ==
  ASSUME NEW k, Numbers(k), NEW t, Tidy(k, t)
  PROVE  /\ t \in Trees /\ Sorted(k)[t] /\ Nodes[t] \subseteq Node /\ IsRedBlack(t)
         /\ \A x, y \in Nodes[t] : k[x] = k[y] => x = y
         /\ Nodes[t] = {} <=> t = Empty
<1>1. PICK h : Sound(k, t, Limit, h)
  BY Zenon DEF Tidy
<1>2. t \in Trees /\ Nodes[t] \subseteq Node
  BY Zenon, <1>1, SoundIn
<1>3. Sorted(k)[t] /\ RedsApart[t] /\ BlackHeights[t] = {h}
  BY Zenon, <1>1 DEF Sound
<1>5. \A x, y \in Nodes[t] : k[x] = k[y] => x = y
  BY Zenon, <1>2, <1>3, SortedDistinct
<1>6. \A g, j \in BlackHeights[t] : g = j
  BY Zenon, <1>3
<1>7. Nodes[t] = {} <=> t = Empty
  <2>1. Nodes[t] = IF t = Empty THEN {} ELSE Nodes[t.l] \cup {t.n} \cup Nodes[t.r]
    BY Zenon, <1>2, NodesRule
  <2>2. QED
    BY Zenon, <2>1
<1>8. ~Red(t)
  BY Zenon DEF Tidy
<1>9. QED
  BY Zenon, <1>2, <1>3, <1>5, <1>6, <1>7, <1>8 DEF IsRedBlack

(* The empty tree is tidy. *)
LEMMA TidyEmpty == ASSUME NEW k PROVE Tidy(k, Empty) /\ Nodes[Empty] = {}
<1>1. Limit \in 0..MaxHeight
  BY Zenon, Bounds
<1>2. QED
  BY Zenon, <1>1, EmptySound DEF Tidy

(* rb_link_node and rb_insert_color. *)
LEMMA InsertTidy ==
  ASSUME NEW k, Ranged(k), NEW t, Tidy(k, t), NEW n \in Node, NEW dir,
         Leads(k, n, dir, t)
  PROVE  Tidy(k, rb_insert(t, n, dir)) /\ Nodes[rb_insert(t, n, dir)] = Nodes[t] \cup {n}
<1> DEFINE u == Link(n, dir)[t]
           r == Paint("black", u)
<1>0. Numbers(k)
  BY Zenon DEF Ranged
<1>1. PICK h : Sound(k, t, Limit, h)
  BY Zenon DEF Tidy
<1>2. Limit \in 0..(MaxHeight - 1)
  BY Bounds, HeightAssumption
<1>3. Linked(k, n, t, Limit, h, u)
  BY Zenon, <1>0, <1>1, <1>2, LinkSound
<1>4. Sound(k, u, Limit + 1, h) /\ Nodes[u] = Nodes[t] \cup {n}
  BY Zenon, <1>3 DEF Linked, Tidy
<1> HIDE DEF u
<1>5. /\ Nodes[r] = Nodes[u] /\ ~Red(r)
      /\ Red(u) => Sound(k, r, Limit + 1, h + 1)
      /\ ~Red(u) => r = u
  BY Zenon, <1>0, <1>4, PaintBlack
<1> HIDE DEF r
<1>6. \E j : Sound(k, r, Limit + 1, j)
  BY Zenon, <1>4, <1>5
<1>8. Tidy(k, r)
  BY Zenon, <1>5, <1>6, TidyBack
<1>9. QED
  BY Zenon, <1>4, <1>5, <1>8 DEF rb_insert, r, u

(* rb_erase. *)
LEMMA EraseTidy ==
  ASSUME NEW k, Ranged(k), NEW t, Tidy(k, t), NEW n \in Nodes[t]
  PROVE  Tidy(k, rb_erase(t, n)) /\ Nodes[rb_erase(t, n)] = Nodes[t] \ {n}
<1> DEFINE u == Erase[t][n]
           r == Paint("black", u.t)
<1>0. Numbers(k)
  BY Zenon DEF Ranged
<1>1. PICK h : Sound(k, t, Limit, h)
  BY Zenon DEF Tidy
<1>2. Limit \in 0..MaxHeight /\ Limit + 2 <= MaxHeight
  BY Zenon, Bounds
<1>3. Erased(k, Nodes[t] \ {n}, Limit, h, Red(t), u)
  BY Zenon, <1>0, <1>1, <1>2, EraseSound
<1>4. ~Red(u.t) /\ Nodes[u.t] = Nodes[t] \ {n}
  BY Zenon, <1>3 DEF Erased, Tidy
<1>5. \E H, j : Sound(k, u.t, H, j)
  BY Zenon, <1>3 DEF Erased
<1> HIDE DEF u
<1>6. r = u.t
  BY Zenon, <1>0, <1>4, <1>5, PaintBlack
<1>8. Tidy(k, u.t)
  BY Zenon, <1>4, <1>5, TidyBack
<1>9. QED
  BY Zenon, <1>4, <1>6, <1>8 DEF rb_erase, u

(* rb_replace_node. *)
LEMMA ReplaceTidy ==
  ASSUME NEW k, Numbers(k), NEW t, Tidy(k, t), NEW old \in Nodes[t], NEW new \in Node,
         k[new] = k[old]
  PROVE  /\ Tidy(k, rb_replace_node(t, old, new))
         /\ Nodes[rb_replace_node(t, old, new)] = (Nodes[t] \ {old}) \cup {new}
<1> DEFINE r == Replace(old, new)[t]
<1>1. PICK h : Sound(k, t, Limit, h)
  BY Zenon DEF Tidy
<1>2. t \in Trees /\ old \in Node
  BY ZenonT(60), <1>1, SoundIn
<1>3. Sound(k, r, Limit, h) /\ Nodes[r] = Instead(Nodes[t], old, new) /\ (Red(r) <=> Red(t))
  BY <1>1, <1>2, ReplaceSound
<1> HIDE DEF r
<1>4. Nodes[r] = (Nodes[t] \ {old}) \cup {new}
  BY Zenon, <1>3 DEF Instead
<1>5. Tidy(k, r)
  BY Zenon, <1>3 DEF Tidy
<1>6. QED
  BY Zenon, <1>4, <1>5 DEF rb_replace_node, r

-----------------------------------------------------------------------------
(* The comparators. *)

\* Records are of one device, and inode numbers lie less than half the range
\* of an unsigned long apart.
NarrowKeys ==
    /\ \A a, b \in Devs : a = b
    /\ \A i, j \in Inodes : i - j < LongMod \div 2

\* What names a file.
IsKey(a) == a.dev \in Devs /\ a.inode \in Inodes /\ a.gen \in Gens

(* The fields of records are numbers. *)
LEMMA FieldNumbers ==
  /\ Inodes \subseteq Int /\ Times \subseteq Int /\ Devs \subseteq Int /\ DevMod \in Nat \ {0}
  /\ \A x \in Int : x - x = 0
  BY TreeAssumption

(* The difference of two inode numbers does not overflow. *)
LEMMA DiffLongExact ==
  ASSUME NarrowKeys, NEW i \in Inodes, NEW j \in Inodes PROVE DiffLong(i, j) = i - j
<1>1. /\ LongMod \in Nat \ {0} /\ i \in 0..(LongMod - 1) /\ j \in 0..(LongMod - 1)
      /\ i - j < LongMod \div 2 /\ j - i < LongMod \div 2
  BY Zenon, TreeAssumption DEF NarrowKeys
<1>2. CASE i >= j
  <2>1. (i - j) % LongMod = i - j
    BY <1>1, <1>2
  <2>2. QED
    BY <1>1, <1>2, <2>1 DEF DiffLong
<1>3. CASE i < j
  <2> DEFINE x == j - i
  <2>1. x \in 1..(LongMod - 1) /\ i - j = 0 - x
    BY <1>1, <1>3
  <2> HIDE DEF x
  <2>2. (0 - x) % LongMod = LongMod - x
    BY <1>1, <2>1
  <2>3. (i - j) % LongMod = LongMod - x
    BY Zenon, <2>1, <2>2
  <2>4. LongMod - x >= LongMod \div 2
    BY <1>1, <2>1 DEF x
  <2>5. QED
    BY <1>1, <2>1, <2>3, <2>4 DEF DiffLong
<1>4. QED
  BY <1>1, <1>2, <1>3

(* A difference of generations is zero exactly for equal ones. *)
LEMMA DiffGen ==
  ASSUME NEW x \in Gens, NEW y \in Gens
  PROVE  DiffU32(x, y) \in Nat /\ (DiffU32(x, y) = 0 <=> x = y)
<1>1. DevMod \in Nat \ {0} /\ x \in 0..(DevMod - 1) /\ y \in 0..(DevMod - 1)
  BY Zenon, TreeAssumption
<1>2. CASE x >= y
  <2>1. (x - y) % DevMod = x - y
    BY <1>1, <1>2
  <2>2. QED
    BY <1>1, <1>2, <2>1 DEF DiffU32
<1>3. CASE x < y
  <2> DEFINE z == y - x
  <2>1. z \in 1..(DevMod - 1) /\ x - y = 0 - z
    BY <1>1, <1>3
  <2> HIDE DEF z
  <2>2. (0 - z) % DevMod = DevMod - z
    BY <1>1, <2>1
  <2>3. QED
    BY <1>1, <1>3, <2>1, <2>2 DEF DiffU32
<1>4. QED
  BY <1>1, <1>2, <1>3

(* What the comparators of the scan tree tell apart. *)
LEMMA CompareScan ==
  ASSUME NarrowKeys, NEW a, IsKey(a), NEW b \in Node
  PROVE  /\ a.dev = b.dev
         /\ scan_cache_insert_compare_table(a, b) \in Int
         /\ scan_cache_insert_compare_table(a, b) < 0 <=> a.inode < b.inode
         /\ scan_cache_insert_compare_table(a, b) > 0 <=> b.inode < a.inode
         /\ scan_cache_find_compare_table(a, b) \in Int
         /\ a.inode < b.inode => scan_cache_find_compare_table(a, b) < 0
         /\ b.inode < a.inode => scan_cache_find_compare_table(a, b) > 0
         /\ scan_cache_find_compare_table(a, b) = 0 <=> a.inode = b.inode /\ a.gen = b.gen
<1> DEFINE i == a.inode
           j == b.inode
           e == DiffU32(a.gen, b.gen)
<1>1. IsKey(b)
  BY Zenon, Bounds DEF IsKey
<1>2. a.dev = b.dev /\ i \in Inodes /\ j \in Inodes /\ a.gen \in Gens /\ b.gen \in Gens
      /\ a.dev \in Devs
  BY Zenon, <1>1 DEF IsKey, NarrowKeys
<1>3. i \in Int /\ j \in Int
  BY Zenon, <1>2, FieldNumbers
<1>4. DiffU32(a.dev, b.dev) = 0
  <2>1. a.dev \in Int /\ DevMod \in Nat \ {0} /\ a.dev - a.dev = 0
    BY Zenon, <1>2, FieldNumbers
  <2>2. 0 % DevMod = 0
    BY <2>1
  <2>3. QED
    BY Zenon, <1>2, <2>1, <2>2 DEF DiffU32
<1>5. DiffLong(i, j) = i - j
  BY Zenon, <1>2, DiffLongExact
<1>6. e \in Nat /\ (e = 0 <=> a.gen = b.gen)
  BY Zenon, <1>2, DiffGen
<1>7. scan_cache_insert_compare_table(a, b) = Sign(i - j)
  BY Zenon, <1>4, <1>5 DEF scan_cache_insert_compare_table, Then
<1>8. scan_cache_find_compare_table(a, b) = Sign(Then(i - j, e))
  BY Zenon, <1>4, <1>5 DEF scan_cache_find_compare_table, Then
<1> HIDE DEF i, j, e
<1>9. /\ Sign(i - j) \in Int /\ (Sign(i - j) < 0 <=> i < j) /\ (Sign(i - j) > 0 <=> j < i)
  BY <1>3 DEF Sign
<1>10. /\ Sign(Then(i - j, e)) \in Int
       /\ (i < j => Sign(Then(i - j, e)) < 0) /\ (j < i => Sign(Then(i - j, e)) > 0)
       /\ (Sign(Then(i - j, e)) = 0 <=> i = j /\ e = 0)
  BY <1>3, <1>6 DEF Sign, Then
<1>11. QED
  BY Zenon, <1>2, <1>6, <1>7, <1>8, <1>9, <1>10 DEF i, j

(* The comparators of the LRU tree order times. *)
LEMMA CompareTime ==
  ASSUME NEW a, a.time \in Times, NEW b \in Node
  PROVE  /\ lru_cache_insert_compare_table(a, b) = lru_cache_find_compare_table(a, b)
         /\ lru_cache_find_compare_table(a, b) \in Int
         /\ lru_cache_find_compare_table(a, b) < 0 <=> a.time < b.time
         /\ lru_cache_find_compare_table(a, b) > 0 <=> b.time < a.time
<1> DEFINE i == a.time
           j == b.time
<1>1. i \in Int /\ j \in Int
  BY Zenon, Bounds, FieldNumbers
<1>2. /\ lru_cache_insert_compare_table(a, b) = Sign(i - j)
      /\ lru_cache_find_compare_table(a, b) = Sign(i - j)
  BY Zenon DEF lru_cache_insert_compare_table, lru_cache_find_compare_table
<1> HIDE DEF i, j
<1>3. Sign(i - j) \in Int /\ (Sign(i - j) < 0 <=> i < j) /\ (Sign(i - j) > 0 <=> j < i)
  BY <1>1 DEF Sign
<1>4. QED
  BY Zenon, <1>2, <1>3 DEF i, j

-----------------------------------------------------------------------------
(* The macros. *)

(* RB_SEARCH of the scan tree. *)
LEMMA ScanSearch ==
  ASSUME NarrowKeys, NEW t, Tidy(ByInode, t), NEW a, IsKey(a)
  PROVE  /\ RB_SEARCH(t, a, scan_cache_insert_compare_table)
               = {n \in Nodes[t] : n.inode = a.inode}
         /\ RB_SEARCH(t, a, scan_cache_find_compare_table)
               = {n \in Nodes[t] : n.inode = a.inode /\ n.gen = a.gen}
<1> DEFINE d == [n \in Node |-> scan_cache_insert_compare_table(a, n)]
           e == [n \in Node |-> scan_cache_find_compare_table(a, n)]
           v == a.inode
<1>1. t \in Trees /\ Sorted(ByInode)[t] /\ Nodes[t] \subseteq Node /\ Numbers(ByInode)
  BY Zenon, TidyIn, Bounds
<1>2. v \in Int
  BY Zenon, FieldNumbers DEF IsKey
<1>3. \A n \in Node : /\ ByInode[n] = n.inode /\ n.inode \in Int
                      /\ d[n] = scan_cache_insert_compare_table(a, n)
                      /\ e[n] = scan_cache_find_compare_table(a, n)
  BY Zenon, Bounds, FieldNumbers
<1>4. \A n \in Node : /\ d[n] \in Int /\ e[n] \in Int
                      /\ d[n] < 0 <=> v < n.inode
                      /\ d[n] > 0 <=> n.inode < v
                      /\ v < n.inode => e[n] < 0
                      /\ n.inode < v => e[n] > 0
                      /\ e[n] = 0 <=> v = n.inode /\ a.gen = n.gen
  BY Zenon, <1>3, CompareScan
<1>5. /\ RB_SEARCH(t, a, scan_cache_insert_compare_table) = Descend(d)[t]
      /\ RB_SEARCH(t, a, scan_cache_find_compare_table) = Descend(e)[t]
  BY Zenon DEF RB_SEARCH
<1> HIDE DEF d, e, v
<1>6. ASSUME NEW n \in Node PROVE d[n] = 0 <=> n.inode = v
  <2>1. /\ n.inode \in Int /\ d[n] \in Int
        /\ d[n] < 0 <=> v < n.inode
        /\ d[n] > 0 <=> n.inode < v
    BY Zenon, <1>3, <1>4
  <2>2. QED
    BY <1>2, <2>1
<1>7. Fits(ByInode, v, d, t) /\ Fits(ByInode, v, e, t)
  BY Zenon, <1>1, <1>3, <1>4 DEF Fits
<1>8. /\ Descend(d)[t] = {m \in Nodes[t] : d[m] = 0}
      /\ Descend(e)[t] = {m \in Nodes[t] : e[m] = 0}
  BY <1>1, <1>2, <1>7, DescendFinds
<1>9. /\ {m \in Nodes[t] : d[m] = 0} = {n \in Nodes[t] : n.inode = a.inode}
      /\ {m \in Nodes[t] : e[m] = 0} = {n \in Nodes[t] : n.inode = a.inode /\ n.gen = a.gen}
  BY Zenon, <1>1, <1>4, <1>6 DEF v
<1>10. QED
  BY Zenon, <1>5, <1>8, <1>9

(* RB_SEARCH of the LRU tree. *)
LEMMA TimeSearch ==
  ASSUME NEW t, Tidy(ByTime, t), NEW a, a.time \in Times
  PROVE  /\ RB_SEARCH(t, a, lru_cache_find_compare_table) = {n \in Nodes[t] : n.time = a.time}
         /\ RB_SEARCH(t, a, lru_cache_insert_compare_table) = {n \in Nodes[t] : n.time = a.time}
<1> DEFINE d == [n \in Node |-> lru_cache_find_compare_table(a, n)]
           e == [n \in Node |-> lru_cache_insert_compare_table(a, n)]
           v == a.time
<1>1. t \in Trees /\ Sorted(ByTime)[t] /\ Nodes[t] \subseteq Node /\ Numbers(ByTime)
  BY Zenon, TidyIn, Bounds
<1>2. v \in Int
  BY Zenon, FieldNumbers
<1>3. \A n \in Node : /\ ByTime[n] = n.time /\ n.time \in Int
                      /\ d[n] = lru_cache_find_compare_table(a, n)
                      /\ e[n] = lru_cache_insert_compare_table(a, n)
  BY Zenon, Bounds, FieldNumbers
<1>4. \A n \in Node : /\ d[n] \in Int /\ e[n] = d[n]
                      /\ d[n] < 0 <=> v < n.time
                      /\ d[n] > 0 <=> n.time < v
  BY Zenon, <1>3, CompareTime
<1>5. /\ RB_SEARCH(t, a, lru_cache_find_compare_table) = Descend(d)[t]
      /\ RB_SEARCH(t, a, lru_cache_insert_compare_table) = Descend(e)[t]
  BY Zenon DEF RB_SEARCH
<1> HIDE DEF d, e, v
<1>6. ASSUME NEW n \in Node PROVE d[n] = 0 <=> n.time = v
  <2>1. /\ n.time \in Int /\ d[n] \in Int
        /\ d[n] < 0 <=> v < n.time
        /\ d[n] > 0 <=> n.time < v
    BY Zenon, <1>3, <1>4
  <2>2. QED
    BY <1>2, <2>1
<1>7. Fits(ByTime, v, d, t) /\ Fits(ByTime, v, e, t)
  BY Zenon, <1>1, <1>3, <1>4 DEF Fits
<1>8. /\ Descend(d)[t] = {m \in Nodes[t] : d[m] = 0}
      /\ Descend(e)[t] = {m \in Nodes[t] : e[m] = 0}
  BY <1>1, <1>2, <1>7, DescendFinds
<1>9. /\ {m \in Nodes[t] : d[m] = 0} = {n \in Nodes[t] : n.time = a.time}
      /\ {m \in Nodes[t] : e[m] = 0} = {n \in Nodes[t] : n.time = a.time}
  BY ZenonT(60), <1>1, <1>4, <1>6 DEF v
<1>10. QED
  BY Zenon, <1>5, <1>8, <1>9

(* RB_INSERT of the scan tree. *)
LEMMA ScanInsert ==
  ASSUME NarrowKeys, NEW t, Tidy(ByInode, t), NEW n \in Node,
         \A m \in Nodes[t] : m.inode # n.inode
  PROVE  /\ Tidy(ByInode, RB_INSERT(t, n, scan_cache_insert_compare_table))
         /\ Nodes[RB_INSERT(t, n, scan_cache_insert_compare_table)] = Nodes[t] \cup {n}
<1> DEFINE d == [m \in Node |-> scan_cache_insert_compare_table(n, m)]
<1>1. IsKey(n) /\ Nodes[t] \subseteq Node /\ Numbers(ByInode)
  BY Zenon, TidyIn, Bounds DEF IsKey
<1>2. RB_SEARCH(t, n, scan_cache_insert_compare_table) = {}
  <2>1. RB_SEARCH(t, n, scan_cache_insert_compare_table) = {m \in Nodes[t] : m.inode = n.inode}
    BY Zenon, <1>1, ScanSearch
  <2>2. QED
    BY Zenon, <2>1
<1>3. Descend(d)[t] = {}
  BY Zenon, <1>2 DEF RB_SEARCH
<1>4. RB_INSERT(t, n, scan_cache_insert_compare_table) = rb_insert(t, n, d)
  BY Zenon, <1>3 DEF RB_INSERT, LinkAfter
<1>5. \A m \in Nodes[t] : /\ d[m] \in Int /\ n.inode # m.inode
                          /\ d[m] < 0 <=> ByInode[n] < ByInode[m]
                          /\ d[m] > 0 <=> ByInode[m] < ByInode[n]
                          /\ ByInode[m] \in Int /\ ByInode[n] \in Int /\ ByInode[n] # ByInode[m]
  <2>1. TAKE m \in Nodes[t]
  <2>2. m \in Node /\ d[m] = scan_cache_insert_compare_table(n, m)
    BY Zenon, <1>1
  <2>3. ByInode[m] = m.inode /\ ByInode[n] = n.inode /\ m.inode \in Int /\ n.inode \in Int
    BY Zenon, <2>2, Bounds, FieldNumbers
  <2>4. QED
    BY ZenonT(60), <1>1, <2>2, <2>3, CompareScan
<1> HIDE DEF d
<1>6. Leads(ByInode, n, d, t)
  BY <1>5 DEF Leads, Lt, Turn
<1>7. QED
  BY <1>4, <1>6, Bounds, InsertTidy

(* RB_INSERT of the LRU tree. *)
LEMMA TimeInsert ==
  ASSUME NEW t, Tidy(ByTime, t), NEW n \in Node,
         \A m \in Nodes[t] : m.time # n.time
  PROVE  /\ Tidy(ByTime, RB_INSERT(t, n, lru_cache_insert_compare_table))
         /\ Nodes[RB_INSERT(t, n, lru_cache_insert_compare_table)] = Nodes[t] \cup {n}
<1> DEFINE d == [m \in Node |-> lru_cache_insert_compare_table(n, m)]
<1>1. n.time \in Times /\ Nodes[t] \subseteq Node /\ Numbers(ByTime)
  BY Zenon, TidyIn, Bounds
<1>2. RB_SEARCH(t, n, lru_cache_insert_compare_table) = {}
  <2>1. RB_SEARCH(t, n, lru_cache_insert_compare_table) = {m \in Nodes[t] : m.time = n.time}
    BY Zenon, <1>1, TimeSearch
  <2>2. QED
    BY Zenon, <2>1
<1>3. Descend(d)[t] = {}
  BY Zenon, <1>2 DEF RB_SEARCH
<1>4. RB_INSERT(t, n, lru_cache_insert_compare_table) = rb_insert(t, n, d)
  BY Zenon, <1>3 DEF RB_INSERT, LinkAfter
<1>5. \A m \in Nodes[t] : /\ d[m] \in Int /\ n.time # m.time
                          /\ d[m] < 0 <=> ByTime[n] < ByTime[m]
                          /\ d[m] > 0 <=> ByTime[m] < ByTime[n]
                          /\ ByTime[m] \in Int /\ ByTime[n] \in Int /\ ByTime[n] # ByTime[m]
  <2>1. TAKE m \in Nodes[t]
  <2>2. m \in Node /\ d[m] = lru_cache_insert_compare_table(n, m)
    BY Zenon, <1>1
  <2>3. ByTime[m] = m.time /\ ByTime[n] = n.time /\ m.time \in Int /\ n.time \in Int
    BY Zenon, <2>2, Bounds, FieldNumbers
  <2>4. QED
    BY Zenon, <1>1, <2>2, <2>3, CompareTime
<1> HIDE DEF d
<1>6. Leads(ByTime, n, d, t)
  BY <1>5 DEF Leads, Lt, Turn
<1>7. QED
  BY <1>4, <1>6, Bounds, InsertTidy

-----------------------------------------------------------------------------
(* The loops. *)

\* f[k] is the trees s and l after k rounds.
Rounds(f, s, l, C) ==
    f[0] = <<s, l>> /\ \A k \in 1..C : f[k] = EvictOne(f[k - 1][1], f[k - 1][2])

(* The rounds of remove_cache_entry. *)
LEMMA EvictedRule ==
  ASSUME NEW s, NEW l, NEW C \in Nat
  PROVE  \E f : Evicted(s, l, C) = f[C] /\ Rounds(f, s, l, C)
<1> DEFINE E(k, f) == IF k = 0 THEN <<s, l>>
                      ELSE EvictOne(f[k - 1][1], f[k - 1][2])
           P(f, h) == f = [k \in 0..h |-> E(k, f)]
           S == {h \in 0..C : \E f : P(f, h)}
           v == CHOOSE f : P(f, C)
<1>1. ASSUME NEW f, NEW g, NEW k, f[k - 1] = g[k - 1] PROVE E(k, f) = E(k, g)
  BY Zenon, <1>1
<1>2. ASSUME NEW f PROVE E(0, f) = <<s, l>>
  OBVIOUS
<1>3. ASSUME NEW f, NEW k \in 1..C PROVE E(k, f) = EvictOne(f[k - 1][1], f[k - 1][2])
  OBVIOUS
<1>4. Evicted(s, l, C) = v[C]
  BY Zenon DEF Evicted
<1> HIDE DEF E
<1>5. 0 \in S
  <2> DEFINE g == [k \in 0..0 |-> E(0, <<>>)]
  <2>1. \A k \in 0..0 : E(k, g) = E(0, <<>>)
    BY <1>2
  <2>2. g = [k \in 0..0 |-> E(k, g)]
    BY Zenon, <2>1
  <2>3. QED
    BY <2>2
<1>6. ASSUME NEW h \in 0..(C - 1), h \in S PROVE h + 1 \in S
  <2>1. PICK f : f = [k \in 0..h |-> E(k, f)]
    BY Zenon, <1>6
  <2> DEFINE g == [k \in 0..(h + 1) |-> E(k, f)]
  <2>2. \A k \in 0..(h + 1) : g[k] = E(k, f)
    OBVIOUS
  <2>3. \A k \in 0..h : f[k] = E(k, f)
    BY Zenon, <2>1
  <2>4. 0..h \subseteq 0..(h + 1) /\ h + 1 \in 0..C
    OBVIOUS
  <2>5. \A k \in 0..h : f[k] = g[k]
    <3> HIDE DEF g
    <3>1. QED
      BY Zenon, <2>2, <2>3, <2>4
  <2>6. \A k \in 0..(h + 1) : k = 0 \/ k - 1 \in 0..h
    OBVIOUS
  <2>7. \A k \in 0..(h + 1) : E(k, f) = E(k, g)
    <3> HIDE DEF g
    <3>1. QED
      BY Zenon, <1>1, <1>2, <2>5, <2>6
  <2>8. g = [k \in 0..(h + 1) |-> E(k, g)]
    BY Zenon, <2>7
  <2>9. QED
    BY Zenon, <2>4, <2>8
<1>7. C \in S
  <2> HIDE DEF S
  <2>1. \A h \in 0..C : h \in S
    BY Zenon, <1>5, <1>6, UpTo
  <2>2. QED
    BY <2>1
<1>8. P(v, C)
  <2>1. \E f : P(f, C)
    BY Zenon, <1>7
  <2> HIDE DEF P
  <2>2. QED
    BY Zenon, <2>1
<1>9. \A k \in 0..C : v[k] = E(k, v)
  <2> HIDE DEF v
  <2>1. QED
    BY Zenon, <1>8
<1>10. 0 \in 0..C /\ 1..C \subseteq 0..C
  OBVIOUS
<1> HIDE DEF v
<1>11. v[0] = <<s, l>> /\ \A k \in 1..C : v[k] = E(k, v)
  BY Zenon, <1>2, <1>9, <1>10
<1>12. \A k \in 1..C : v[k] = EvictOne(v[k - 1][1], v[k - 1][2])
  BY Zenon, <1>3, <1>11
<1>13. QED
  BY Zenon, <1>4, <1>11, <1>12 DEF Rounds

(* The rounds of purge_scan_cache and purge_lru_cache. *)
LEMMA PurgedRule ==
  ASSUME NEW t, NEW C \in Nat, C = MaxHeight
  PROVE  \E f : /\ Purged(t) = f[C] /\ f[0] = t
                /\ \A k \in 1..C : f[k] = PurgeOne(f[k - 1])
<1> DEFINE E(k, f) == IF k = 0 THEN t ELSE PurgeOne(f[k - 1])
           P(f, h) == f = [k \in 0..h |-> E(k, f)]
           S == {h \in 0..C : \E f : P(f, h)}
           v == CHOOSE f : P(f, C)
<1>1. ASSUME NEW f, NEW g, NEW k, f[k - 1] = g[k - 1] PROVE E(k, f) = E(k, g)
  BY Zenon, <1>1
<1>2. ASSUME NEW f PROVE E(0, f) = t
  OBVIOUS
<1>3. ASSUME NEW f, NEW k \in 1..C PROVE E(k, f) = PurgeOne(f[k - 1])
  OBVIOUS
<1>4. Purged(t) = v[C]
  BY Zenon DEF Purged
<1> HIDE DEF E
<1>5. 0 \in S
  <2> DEFINE g == [k \in 0..0 |-> E(0, <<>>)]
  <2>1. \A k \in 0..0 : E(k, g) = E(0, <<>>)
    BY <1>2
  <2>2. g = [k \in 0..0 |-> E(k, g)]
    BY Zenon, <2>1
  <2>3. QED
    BY <2>2
<1>6. ASSUME NEW h \in 0..(C - 1), h \in S PROVE h + 1 \in S
  <2>1. PICK f : f = [k \in 0..h |-> E(k, f)]
    BY Zenon, <1>6
  <2> DEFINE g == [k \in 0..(h + 1) |-> E(k, f)]
  <2>2. \A k \in 0..(h + 1) : g[k] = E(k, f)
    OBVIOUS
  <2>3. \A k \in 0..h : f[k] = E(k, f)
    BY Zenon, <2>1
  <2>4. 0..h \subseteq 0..(h + 1) /\ h + 1 \in 0..C
    OBVIOUS
  <2>5. \A k \in 0..h : f[k] = g[k]
    <3> HIDE DEF g
    <3>1. QED
      BY Zenon, <2>2, <2>3, <2>4
  <2>6. \A k \in 0..(h + 1) : k = 0 \/ k - 1 \in 0..h
    OBVIOUS
  <2>7. \A k \in 0..(h + 1) : E(k, f) = E(k, g)
    <3> HIDE DEF g
    <3>1. QED
      BY Zenon, <1>1, <1>2, <2>5, <2>6
  <2>8. g = [k \in 0..(h + 1) |-> E(k, g)]
    BY Zenon, <2>7
  <2>9. QED
    BY Zenon, <2>4, <2>8
<1>7. C \in S
  <2> HIDE DEF S
  <2>1. \A h \in 0..C : h \in S
    BY Zenon, <1>5, <1>6, UpTo
  <2>2. QED
    BY <2>1
<1>8. P(v, C)
  <2>1. \E f : P(f, C)
    BY Zenon, <1>7
  <2> HIDE DEF P
  <2>2. QED
    BY Zenon, <2>1
<1>9. \A k \in 0..C : v[k] = E(k, v)
  <2> HIDE DEF v
  <2>1. QED
    BY Zenon, <1>8
<1>10. 0 \in 0..C /\ 1..C \subseteq 0..C
  OBVIOUS
<1> HIDE DEF v
<1>11. v[0] = t /\ \A k \in 1..C : v[k] = E(k, v)
  BY Zenon, <1>2, <1>9, <1>10
<1>12. \A k \in 1..C : v[k] = PurgeOne(v[k - 1])
  BY Zenon, <1>3, <1>11
<1>13. QED
  BY Zenon, <1>4, <1>11, <1>12

-----------------------------------------------------------------------------
(* The pair of trees. *)

\* Two red-black trees of the same records, one sorted by inode number, the
\* other by time.
Pair(s, l) == Tidy(ByInode, s) /\ Tidy(ByTime, l) /\ Nodes[s] = Nodes[l]

TreeInv == Pair(scan_cache_rb_tree, lru_cache_rb_tree)

\* The records of M are the newest of N.
Newest(M, N) == M \subseteq N /\ \A x \in N \ M, y \in M : x.time < y.time

(* Times differ in the LRU tree, inode numbers in the scan tree. *)
LEMMA PairIn ==
  ASSUME NEW s, NEW l, Pair(s, l)
  PROVE  /\ Stamped(Nodes[s]) /\ Stamped(Nodes[l])
         /\ \A x, y \in Nodes[s] : x.inode = y.inode => x = y
         /\ Nodes[s] \subseteq Node
<1>1. Tidy(ByInode, s) /\ Tidy(ByTime, l) /\ Nodes[s] = Nodes[l]
  BY Zenon DEF Pair
<1>2. /\ Nodes[s] \subseteq Node
      /\ \A x, y \in Nodes[s] : ByInode[x] = ByInode[y] => x = y
      /\ \A x, y \in Nodes[l] : ByTime[x] = ByTime[y] => x = y
  BY Zenon, <1>1, Bounds, TidyIn
<1>3. \A x \in Nodes[s] : ByInode[x] = x.inode /\ ByTime[x] = x.time
  BY Zenon, <1>2, Bounds
<1>4. QED
  BY ZenonT(60), <1>1, <1>2, <1>3 DEF Stamped

(* A record leaves both trees. *)
LEMMA PairErase ==
  ASSUME NEW s, NEW l, Pair(s, l), NEW n \in Nodes[s]
  PROVE  Pair(RB_REMOVE(s, n), RB_REMOVE(l, n)) /\ Nodes[RB_REMOVE(s, n)] = Nodes[s] \ {n}
<1>1. Tidy(ByInode, s) /\ Tidy(ByTime, l) /\ Nodes[s] = Nodes[l]
  BY Zenon DEF Pair
<1>2. Ranged(ByInode) /\ Ranged(ByTime)
  BY Zenon, Bounds
<1>3. Tidy(ByInode, rb_erase(s, n)) /\ Nodes[rb_erase(s, n)] = Nodes[s] \ {n}
  BY Zenon, <1>1, <1>2, EraseTidy
<1>4. Tidy(ByTime, rb_erase(l, n)) /\ Nodes[rb_erase(l, n)] = Nodes[l] \ {n}
  BY Zenon, <1>1, <1>2, EraseTidy
<1>5. QED
  BY Zenon, <1>1, <1>3, <1>4 DEF Pair, RB_REMOVE

\* A scan tree with the record n that the LRU tree has not got yet.
Ahead(s, l, n) ==
    /\ Tidy(ByInode, s) /\ Tidy(ByTime, l)
    /\ n \in Node /\ Nodes[s] = Nodes[l] \cup {n}
    /\ \A m \in Nodes[l] : m.time # n.time

(* insert_lru_cache_record makes them a pair again. *)
LEMMA AheadPair ==
  ASSUME NEW s, NEW l, NEW n, Ahead(s, l, n)
  PROVE  /\ Pair(s, RB_INSERT(l, n, lru_cache_insert_compare_table))
         /\ Pair(RB_REMOVE(s, n), l) /\ Nodes[RB_REMOVE(s, n)] = Nodes[l]
<1> DEFINE N == Nodes[l]
           j == RB_INSERT(l, n, lru_cache_insert_compare_table)
<1>1. /\ Tidy(ByInode, s) /\ Tidy(ByTime, l) /\ Nodes[s] = N \cup {n} /\ n \in Node
      /\ \A m \in N : m.time # n.time
  BY Zenon DEF Ahead
<1>4. Tidy(ByTime, j) /\ Nodes[j] = N \cup {n}
  BY Zenon, <1>1, TimeInsert
<1>6. Tidy(ByInode, rb_erase(s, n)) /\ Nodes[rb_erase(s, n)] = Nodes[s] \ {n}
  <2>1. n \in Nodes[s] /\ Ranged(ByInode)
    BY Zenon, <1>1, Bounds
  <2>2. QED
    BY Zenon, <1>1, <2>1, EraseTidy
<1>7. (N \cup {n}) \ {n} = N
  BY Zenon, <1>1
<1> HIDE DEF j
<1>8. Pair(s, j)
  BY Zenon, <1>1, <1>4 DEF Pair
<1>9. Pair(rb_erase(s, n), l) /\ Nodes[rb_erase(s, n)] = N
  BY Zenon, <1>1, <1>6, <1>7 DEF Pair
<1>10. QED
  BY Zenon, <1>8, <1>9 DEF RB_REMOVE, j

(* A file that is not in the scan tree gets ahead of the LRU tree. *)
LEMMA NewAhead ==
  ASSUME NarrowKeys, NEW s, NEW l, Pair(s, l), NEW n \in Node,
         \A m \in Nodes[l] : m.time # n.time, \A m \in Nodes[s] : m.inode # n.inode
  PROVE  Ahead(RB_INSERT(s, n, scan_cache_insert_compare_table), l, n)
<1>1. Tidy(ByInode, s) /\ Tidy(ByTime, l) /\ Nodes[s] = Nodes[l]
  BY Zenon DEF Pair
<1> DEFINE r == RB_INSERT(s, n, scan_cache_insert_compare_table)
<1>3. Tidy(ByInode, r) /\ Nodes[r] = Nodes[s] \cup {n}
  BY Zenon, <1>1, ScanInsert
<1> HIDE DEF r
<1>4. QED
  BY Zenon, <1>1, <1>3 DEF Ahead, r

(* So does one that takes the place of its old record. *)
LEMMA UpdateAhead ==
  ASSUME NEW s, NEW l, Pair(s, l), NEW n \in Node, NEW old \in Nodes[s],
         \A m \in Nodes[l] : m.time # n.time, old.inode = n.inode
  PROVE  /\ Ahead(RB_REPLACE(s, old, n), RB_REMOVE(l, old), n)
         /\ Nodes[RB_REMOVE(l, old)] = Nodes[s] \ {old}
<1>1. /\ Tidy(ByInode, s) /\ Tidy(ByTime, l) /\ Nodes[s] = Nodes[l]
      /\ old \in Node
  BY Zenon, PairIn DEF Pair
<1>2. Numbers(ByInode) /\ Ranged(ByTime) /\ ByInode[n] = ByInode[old]
  BY Zenon, <1>1, Bounds
<1> DEFINE r == rb_replace_node(s, old, n)
           e == rb_erase(l, old)
<1>3. Tidy(ByInode, r) /\ Nodes[r] = (Nodes[s] \ {old}) \cup {n}
  BY <1>1, <1>2, ReplaceTidy
<1>4. Tidy(ByTime, e) /\ Nodes[e] = Nodes[l] \ {old}
  BY Zenon, <1>1, <1>2, EraseTidy
<1> HIDE DEF r, e
<1>5. Ahead(r, e, n)
  BY Zenon, <1>1, <1>3, <1>4 DEF Ahead
<1>6. QED
  BY Zenon, <1>1, <1>4, <1>5 DEF RB_REPLACE, RB_REMOVE, r, e

-----------------------------------------------------------------------------
(* The operations.  Each keeps the pair and changes the set of records as  *)
(* CacheMap says.                                                          *)

\* The records that are not of inode i.
Others(N, i) == {m \in N : m.inode # i}

(* insert_lru_cache_record. *)
LEMMA InsertLruStep ==
  ASSUME NEW s, NEW l, NEW n, NEW memory, Ahead(s, l, n), InsertLru(s, l, n, memory)
  PROVE  TreeInv' /\ (ScanNodes' = Nodes[l] \cup {n} \/ ScanNodes' = Nodes[l])
<1>1. /\ Pair(s, RB_INSERT(l, n, lru_cache_insert_compare_table))
      /\ Pair(RB_REMOVE(s, n), l) /\ Nodes[RB_REMOVE(s, n)] = Nodes[l]
      /\ Nodes[s] = Nodes[l] \cup {n}
  BY Zenon, AheadPair DEF Ahead
<1>2. CASE memory
  <2>1. /\ scan_cache_rb_tree' = s
        /\ lru_cache_rb_tree' = RB_INSERT(l, n, lru_cache_insert_compare_table)
    BY Zenon, <1>2 DEF InsertLru
  <2>2. QED
    BY Zenon, <1>1, <2>1 DEF TreeInv, ScanNodes
<1>3. CASE ~memory
  <2>1. scan_cache_rb_tree' = RB_REMOVE(s, n) /\ lru_cache_rb_tree' = l
    BY Zenon, <1>3 DEF InsertLru
  <2>2. QED
    BY Zenon, <1>1, <2>1 DEF TreeInv, ScanNodes
<1>4. QED
  BY Zenon, <1>2, <1>3

(* insert_scan_cache_record: the file's record is the new one, or none. *)
LEMMA InsertStep ==
  ASSUME NarrowKeys, TreeInv, InsertFile
  PROVE  /\ TreeInv'
         /\ \E n \in Node : \/ ScanNodes' = Others(ScanNodes, n.inode) \cup {n}
                            \/ ScanNodes' = Others(ScanNodes, n.inode)
<1> DEFINE s == scan_cache_rb_tree
           l == lru_cache_rb_tree
           N == Nodes[scan_cache_rb_tree]
<1>1. /\ Pair(s, l) /\ Tidy(ByInode, s) /\ Tidy(ByTime, l) /\ N = Nodes[l] /\ N \subseteq Node
      /\ Stamped(N) /\ \A x, y \in N : x.inode = y.inode => x = y
  BY Zenon, PairIn DEF TreeInv, Pair
<1>2. PICK n \in Node, memory \in BOOLEAN :
         /\ n.time \in Fresh
         /\ InsertNew(n, memory) \/ InsertUpdate(n, memory)
  <2>1. PICK d \in Devs, i \in Inodes, g \in Gens, time \in Fresh, memory \in BOOLEAN :
           LET n == [dev |-> d, inode |-> i, gen |-> g, time |-> time]
           IN  InsertNew(n, memory) \/ InsertUpdate(n, memory)
    BY Zenon DEF InsertFile
  <2> DEFINE n == [dev |-> d, inode |-> i, gen |-> g, time |-> time]
  <2>2. time \in Times /\ n.time = time
    BY Zenon DEF Fresh
  <2>3. n \in Node
    BY Zenon, <2>2, LinkAssumption DEF Record
  <2>4. InsertNew(n, memory) \/ InsertUpdate(n, memory)
    BY Zenon, <2>1
  <2>5. n.time \in Fresh
    BY Zenon, <2>2
  <2> HIDE DEF n
  <2>6. QED
    BY Zenon, <2>3, <2>4, <2>5
<1>3. \A m \in Nodes[l] : m.time # n.time
  BY Zenon, <1>1, <1>2 DEF Fresh
<1>4. IsKey(n)
  BY Zenon, Bounds DEF IsKey
<1>5. RB_SEARCH(s, n, scan_cache_insert_compare_table) = {m \in N : m.inode = n.inode}
  BY ZenonT(60), <1>1, <1>4, ScanSearch
<1>6. CASE InsertNew(n, memory)
  <2> DEFINE r == RB_INSERT(s, n, scan_cache_insert_compare_table)
  <2>1. RB_SEARCH(s, n, scan_cache_insert_compare_table) = {} /\ InsertLru(r, l, n, memory)
    BY Zenon, <1>6 DEF InsertNew
  <2>2. \A m \in N : m.inode # n.inode
    BY Zenon, <1>5, <2>1
  <2>3. Ahead(r, l, n)
    BY Zenon, <1>1, <1>3, <2>2, NewAhead
  <2> HIDE DEF r
  <2>4. TreeInv' /\ (ScanNodes' = N \cup {n} \/ ScanNodes' = N)
    BY Zenon, <1>1, <2>1, <2>3, InsertLruStep
  <2>5. Others(N, n.inode) = N
    BY Zenon, <2>2 DEF Others
  <2>6. QED
    BY Zenon, <2>4, <2>5 DEF ScanNodes
<1>7. CASE InsertUpdate(n, memory)
  <2> DEFINE found == RB_SEARCH(s, n, scan_cache_insert_compare_table)
             R(old) == RB_REPLACE(s, old, n)
             F(old) == RB_SEARCH(l, old, lru_cache_find_compare_table)
  <2>1. PICK old \in found :
           IF F(old) = {}
           THEN /\ scan_cache_rb_tree' = RB_REMOVE(R(old), n)
                /\ UNCHANGED lru_cache_rb_tree
           ELSE \E k \in F(old) : InsertLru(R(old), RB_REMOVE(l, k), n, memory)
    BY Zenon, <1>7 DEF InsertUpdate
  <2>2. old \in N /\ old.inode = n.inode /\ old \in Node /\ old.time \in Times
    <3>1. old \in {m \in N : m.inode = n.inode}
      BY Zenon, <1>5
    <3>2. QED
      BY Zenon, <1>1, <3>1, Bounds
  <2>3. F(old) = {old}
    <3>1. F(old) = {m \in Nodes[l] : m.time = old.time}
      BY Zenon, <1>1, <2>2, TimeSearch
    <3> HIDE DEF F
    <3>2. QED
      BY Zenon, <1>1, <2>2, <3>1 DEF Stamped
  <2>4. InsertLru(R(old), RB_REMOVE(l, old), n, memory)
    <3> HIDE DEF F, R
    <3>1. F(old) # {} /\ \A k \in F(old) : k = old
      BY ZenonT(60), <2>3
    <3>2. QED
      BY Zenon, <2>1, <3>1
  <2>5. Ahead(R(old), RB_REMOVE(l, old), n) /\ Nodes[RB_REMOVE(l, old)] = N \ {old}
    BY <1>1, <1>3, <2>2, UpdateAhead
  <2> HIDE DEF F, R
  <2>6. TreeInv' /\ (ScanNodes' = (N \ {old}) \cup {n} \/ ScanNodes' = N \ {old})
    BY Zenon, <2>4, <2>5, InsertLruStep
  <2>7. Others(N, n.inode) = N \ {old}
    BY Zenon, <1>1, <2>2 DEF Others
  <2>8. QED
    BY Zenon, <2>6, <2>7 DEF ScanNodes
<1>8. QED
  BY Zenon, <1>2, <1>6, <1>7

(* find_remove_scan_cache_record: the record it found is gone. *)
LEMMA RemoveStep ==
  ASSUME NarrowKeys, TreeInv, RemoveFile
  PROVE  TreeInv' /\ \E n \in ScanNodes : ScanNodes' = ScanNodes \ {n}
<1> DEFINE s == scan_cache_rb_tree
           l == lru_cache_rb_tree
           N == Nodes[scan_cache_rb_tree]
<1>1. /\ Pair(s, l) /\ Tidy(ByInode, s) /\ Tidy(ByTime, l) /\ N = Nodes[l] /\ N \subseteq Node
      /\ Stamped(N)
  BY Zenon, PairIn DEF TreeInv, Pair
<1>2. PICK key : IsKey(key) /\ FindRemove(key)
  <2>1. PICK d \in Devs, i \in Inodes, g \in Gens : FindRemove([dev |-> d, inode |-> i, gen |-> g])
    BY Zenon DEF RemoveFile
  <2> DEFINE k == [dev |-> d, inode |-> i, gen |-> g]
  <2>2. IsKey(k)
    BY Zenon DEF IsKey
  <2> HIDE DEF k
  <2>3. QED
    BY Zenon, <2>1, <2>2 DEF k
<1> DEFINE F(n) == RB_SEARCH(l, n, lru_cache_find_compare_table)
<1>3. PICK n \in RB_SEARCH(s, key, scan_cache_find_compare_table) :
         /\ scan_cache_rb_tree' = RB_REMOVE(s, n)
         /\ IF F(n) = {} THEN UNCHANGED lru_cache_rb_tree
            ELSE \E k \in F(n) : lru_cache_rb_tree' = RB_REMOVE(l, k)
  BY Zenon, <1>2 DEF FindRemove
<1>4. n \in N /\ n.time \in Times
  <2>1. RB_SEARCH(s, key, scan_cache_find_compare_table)
           = {m \in N : m.inode = key.inode /\ m.gen = key.gen}
    BY Zenon, <1>1, <1>2, ScanSearch
  <2>2. QED
    BY Zenon, <1>1, <2>1, Bounds
<1>5. F(n) = {n}
  <2>1. F(n) = {m \in Nodes[l] : m.time = n.time}
    BY Zenon, <1>1, <1>4, TimeSearch
  <2> HIDE DEF F
  <2>2. QED
    BY Zenon, <1>1, <1>4, <2>1 DEF Stamped
<1>6. lru_cache_rb_tree' = RB_REMOVE(l, n)
  <2> HIDE DEF F
  <2>1. F(n) # {} /\ \A k \in F(n) : k = n
    BY Zenon, <1>5
  <2>2. QED
    BY Zenon, <1>3, <2>1
<1>7. Pair(RB_REMOVE(s, n), RB_REMOVE(l, n)) /\ Nodes[RB_REMOVE(s, n)] = N \ {n}
  BY Zenon, <1>1, <1>4, PairErase
<1>8. QED
  BY Zenon, <1>3, <1>4, <1>6, <1>7 DEF TreeInv, ScanNodes

(* One round of remove_cache_entry: the oldest record leaves both trees. *)
LEMMA EvictOneStep ==
  ASSUME NarrowKeys, NEW s, NEW l, Pair(s, l)
  PROVE  /\ Pair(EvictOne(s, l)[1], EvictOne(s, l)[2])
         /\ Newest(Nodes[EvictOne(s, l)[1]], Nodes[s])
<1> DEFINE N == Nodes[s]
<1>1. /\ Tidy(ByInode, s) /\ Tidy(ByTime, l) /\ N = Nodes[l] /\ N \subseteq Node
      /\ \A x, y \in N : x.inode = y.inode => x = y
  BY Zenon, PairIn DEF Pair
<1>2. CASE l = Empty
  <2>1. EvictOne(s, l) = <<s, l>>
    BY Zenon, <1>2 DEF EvictOne
  <2>2. EvictOne(s, l)[1] = s /\ EvictOne(s, l)[2] = l
    BY <2>1
  <2>3. Newest(N, N)
    BY Zenon DEF Newest
  <2>4. QED
    BY Zenon, <2>2, <2>3
<1>3. CASE l # Empty
  <2> DEFINE f == rb_first[l]
             found == RB_SEARCH(s, f, scan_cache_find_compare_table)
             n == CHOOSE m \in found : TRUE
  <2>1. l \in Trees /\ Sorted(ByTime)[l] /\ Numbers(ByTime)
    BY Zenon, <1>1, Bounds, TidyIn
  <2>2. f \in N /\ \A x \in N : x = f \/ ByTime[f] < ByTime[x]
    BY Zenon, <1>1, <1>3, <2>1, FirstLeast
  <2> HIDE DEF f
  <2>3. f \in Node /\ IsKey(f)
    BY Zenon, <1>1, <2>2, Bounds DEF IsKey
  <2>4. found = {m \in N : m.inode = f.inode /\ m.gen = f.gen}
    BY Zenon, <1>1, <2>3, ScanSearch
  <2>5. found = {f}
    <3> HIDE DEF found
    <3>1. QED
      BY Zenon, <1>1, <2>2, <2>4
  <2>6. n = f /\ found # {}
    <3> HIDE DEF found
    <3>1. QED
      BY Zenon, <2>5
  <2>7. EvictOne(s, l) = <<RB_REMOVE(s, n), RB_REMOVE(l, f)>>
    BY Zenon, <1>3, <2>6 DEF EvictOne, RB_FIRST, f
  <2>8. EvictOne(s, l)[1] = RB_REMOVE(s, f) /\ EvictOne(s, l)[2] = RB_REMOVE(l, f)
    <3> HIDE DEF n
    <3>1. QED
      BY <2>6, <2>7
  <2>9. Pair(RB_REMOVE(s, f), RB_REMOVE(l, f)) /\ Nodes[RB_REMOVE(s, f)] = N \ {f}
    BY Zenon, <2>2, PairErase
  <2>10. \A x \in N : x = f \/ f.time < x.time
    BY Zenon, <1>1, <2>2, <2>3, Bounds
  <2>11. Newest(N \ {f}, N)
    BY Zenon, <2>10 DEF Newest
  <2>12. QED
    BY Zenon, <2>8, <2>9, <2>11
<1>4. QED
  BY Zenon, <1>2, <1>3

(* What is newest of the newest is newest. *)
LEMMA NewestOf ==
  ASSUME NEW L, NEW M, NEW N, Newest(L, M), Newest(M, N) PROVE Newest(L, N)
<1>1. L \subseteq M /\ M \subseteq N
  BY Zenon DEF Newest
<1>2. ASSUME NEW x \in N \ L, NEW y \in L PROVE x.time < y.time
  <2>1. CASE x \in M
    BY Zenon, <1>1, <2>1 DEF Newest
  <2>2. CASE x \notin M
    BY Zenon, <1>1, <2>2 DEF Newest
  <2>3. QED
    BY Zenon, <2>1, <2>2
<1>3. QED
  BY Zenon, <1>1, <1>2 DEF Newest

(* All rounds of remove_cache_entry. *)
LEMMA EvictedNewest ==
  ASSUME NarrowKeys, NEW s, NEW l, Pair(s, l), NEW count \in Nat
  PROVE  /\ Pair(Evicted(s, l, count)[1], Evicted(s, l, count)[2])
         /\ Newest(Nodes[Evicted(s, l, count)[1]], Nodes[s])
<1>0. PICK f : Evicted(s, l, count) = f[count] /\ Rounds(f, s, l, count)
  BY Zenon, EvictedRule
<1>1. /\ Evicted(s, l, count) = f[count] /\ f[0] = <<s, l>>
      /\ \A k \in 1..count : f[k] = EvictOne(f[k - 1][1], f[k - 1][2])
  BY Zenon, <1>0 DEF Rounds
<1> DEFINE Q(k) == Pair(f[k][1], f[k][2]) /\ Newest(Nodes[f[k][1]], Nodes[s])
           S == {k \in 0..count : Q(k)}
<1>2. 0 \in S
  <2>1. f[0][1] = s /\ f[0][2] = l
    BY <1>1
  <2>2. Newest(Nodes[s], Nodes[s])
    BY Zenon DEF Newest
  <2>3. Q(0)
    BY Zenon, <2>1, <2>2
  <2> HIDE DEF Q
  <2>4. QED
    BY <2>3
<1>3. ASSUME NEW h \in 0..(count - 1), h \in S PROVE h + 1 \in S
  <2>1. h + 1 \in 1..count /\ (h + 1) - 1 = h /\ h + 1 \in 0..count
    OBVIOUS
  <2>2. f[h + 1] = EvictOne(f[h][1], f[h][2])
    <3>1. f[h + 1] = EvictOne(f[(h + 1) - 1][1], f[(h + 1) - 1][2])
      BY Zenon, <1>1, <2>1
    <3>2. QED
      BY Zenon, <2>1, <3>1
  <2>3. Q(h)
    BY Zenon, <1>3
  <2> DEFINE r == EvictOne(f[h][1], f[h][2])
  <2>4. Pair(r[1], r[2]) /\ Newest(Nodes[r[1]], Nodes[f[h][1]])
    BY Zenon, <2>3, EvictOneStep
  <2>5. Newest(Nodes[r[1]], Nodes[s])
    BY Zenon, <2>3, <2>4, NewestOf
  <2> HIDE DEF r
  <2>6. Q(h + 1)
    BY Zenon, <2>2, <2>4, <2>5 DEF r
  <2> HIDE DEF Q
  <2>7. QED
    BY Zenon, <2>1, <2>6
<1>4. count \in S
  <2> HIDE DEF S
  <2>1. \A h \in 0..count : h \in S
    BY Zenon, <1>2, <1>3, UpTo
  <2>2. QED
    BY <2>1
<1>5. Q(count)
  BY Zenon, <1>4
<1>6. QED
  BY Zenon, <1>1, <1>5

(* remove_cache_entry: the newest records stay. *)
LEMMA EvictStep ==
  ASSUME NarrowKeys, TreeInv, NEW count \in 0..MaxCount, remove_cache_entry(count)
  PROVE  TreeInv' /\ Newest(ScanNodes', ScanNodes)
<1>1. count \in Nat
  BY TreeAssumption
<1>2. /\ scan_cache_rb_tree' = Evicted(scan_cache_rb_tree, lru_cache_rb_tree, count)[1]
      /\ lru_cache_rb_tree' = Evicted(scan_cache_rb_tree, lru_cache_rb_tree, count)[2]
  BY Zenon DEF remove_cache_entry
<1>3. QED
  BY Zenon, <1>1, <1>2, EvictedNewest DEF TreeInv, ScanNodes

(* The loop of purge_scan_cache or purge_lru_cache empties its tree. *)
LEMMA PurgedEmpty ==
  ASSUME NEW k, Ranged(k), NEW t, Tidy(k, t)
  PROVE  Purged(t) = Empty
<1> DEFINE C == MaxHeight
<1>1. C \in Nat /\ C - 2 < C
  BY HeightAssumption
<1>2. PICK f : Purged(t) = f[C] /\ f[0] = t /\ \A j \in 1..C : f[j] = PurgeOne(f[j - 1])
  BY <1>1, PurgedRule
<1>3. Numbers(k) /\ \A x \in Node : k[x] \in Int /\ 0 <= k[x] /\ k[x] < C
  BY <1>1, Bounds DEF Ranged, Within, Numbers, Limit
<1> HIDE DEF C
<1> DEFINE Q(j) == Tidy(k, f[j]) /\ \A x \in Nodes[f[j]] : j <= k[x]
           S == {j \in 0..C : Q(j)}
<1>4. 0 \in S
  <2>1. Nodes[t] \subseteq Node /\ 0 \in 0..C
    BY <1>1, <1>3, TidyIn
  <2>2. QED
    BY ZenonT(60), <1>2, <1>3, <2>1
<1>5. ASSUME NEW h \in 0..(C - 1), h \in S PROVE h + 1 \in S
  <2> DEFINE u == f[h]
             n == rb_first[u]
             v == rb_erase(u, n)
  <2>1. h + 1 \in 1..C /\ (h + 1) - 1 = h /\ h + 1 \in 0..C /\ h \in Int
    BY <1>1
  <2>2. f[h + 1] = PurgeOne(u)
    BY Zenon, <1>2, <2>1
  <2>3. Tidy(k, u) /\ \A x \in Nodes[u] : h <= k[x]
    BY Zenon, <1>5
  <2> HIDE DEF u
  <2>4. /\ u \in Trees /\ Sorted(k)[u] /\ Nodes[u] \subseteq Node
        /\ Nodes[u] = {} <=> u = Empty
    BY Zenon, <1>3, <2>3, TidyIn
  <2>5. Q(h + 1)
    <3>1. CASE u = Empty
      BY Zenon, <2>2, <2>3, <2>4, <3>1 DEF PurgeOne
    <3>2. CASE u # Empty
      <4>1. f[h + 1] = v
        BY Zenon, <2>2, <3>2 DEF PurgeOne, RB_REMOVE, RB_FIRST
      <4>2. n \in Nodes[u] /\ \A x \in Nodes[u] : x = n \/ k[n] < k[x]
        BY Zenon, <1>3, <2>4, <3>2, FirstLeast
      <4> HIDE DEF n
      <4>3. Tidy(k, v) /\ Nodes[v] = Nodes[u] \ {n}
        BY Zenon, <2>3, <4>2, EraseTidy
      <4> HIDE DEF v
      <4>4. ASSUME NEW x \in Nodes[u] \ {n} PROVE h + 1 <= k[x]
        <5>1. k[n] \in Int /\ k[x] \in Int /\ h <= k[n] /\ k[n] < k[x]
          BY Zenon, <1>3, <2>3, <2>4, <4>2, <4>4
        <5>2. QED
          BY <2>1, <5>1
      <4>5. QED
        BY Zenon, <4>1, <4>3, <4>4
    <3>3. QED
      BY Zenon, <3>1, <3>2
  <2> HIDE DEF Q
  <2>6. QED
    BY Zenon, <2>1, <2>5
<1>6. C \in S
  <2> HIDE DEF S
  <2>1. \A h \in 0..C : h \in S
    BY Zenon, <1>1, <1>4, <1>5, UpTo
  <2>2. QED
    BY <1>1, <2>1
<1>7. Tidy(k, f[C]) /\ \A x \in Nodes[f[C]] : C <= k[x]
  BY Zenon, <1>6
<1>8. Nodes[f[C]] \subseteq Node /\ (Nodes[f[C]] = {} <=> f[C] = Empty)
  BY Zenon, <1>3, <1>7, TidyIn
<1>9. ASSUME NEW x \in Node PROVE ~(C <= k[x])
  <2>1. k[x] \in Int /\ k[x] < C
    BY Zenon, <1>3
  <2>2. QED
    BY <1>1, <2>1
<1>10. QED
  BY Zenon, <1>2, <1>7, <1>8, <1>9

(* purge_cache: no record stays. *)
LEMMA PurgeStep ==
  ASSUME TreeInv, purge_cache
  PROVE  TreeInv' /\ ScanNodes' = {}
<1>1. /\ Tidy(ByInode, scan_cache_rb_tree) /\ Ranged(ByInode)
      /\ Tidy(ByTime, lru_cache_rb_tree) /\ Ranged(ByTime)
  BY Zenon, Bounds DEF TreeInv, Pair
<1>2. scan_cache_rb_tree' = Empty /\ lru_cache_rb_tree' = Empty
  BY Zenon, <1>1, PurgedEmpty DEF purge_cache
<1>3. Pair(Empty, Empty) /\ Nodes[Empty] = {}
  BY Zenon, TidyEmpty DEF Pair
<1>4. QED
  BY Zenon, <1>2, <1>3 DEF TreeInv, ScanNodes

-----------------------------------------------------------------------------
(* The results. *)

(* The trees start as a pair, and every operation keeps them one. *)
LEMMA InitPair == Init => TreeInv
<1>1. Pair(Empty, Empty)
  BY Zenon, TidyEmpty DEF Pair
<1>2. QED
  BY Zenon, <1>1 DEF Init, TreeInv

LEMMA NextPair ==
  ASSUME NarrowKeys, TreeInv, [Next]_vars PROVE TreeInv'
<1>1. CASE InsertFile
  BY Zenon, <1>1, InsertStep
<1>2. CASE RemoveFile
  BY Zenon, <1>2, RemoveStep
<1>3. CASE \E count \in 0..MaxCount : remove_cache_entry(count)
  BY Zenon, <1>3, EvictStep
<1>4. CASE purge_cache
  BY Zenon, <1>4, PurgeStep
<1>5. CASE UNCHANGED vars
  BY Zenon, <1>5 DEF TreeInv, vars
<1>6. QED
  BY Zenon, <1>1, <1>2, <1>3, <1>4, <1>5 DEF Next

(* The trees stay two red-black trees of the same records: sorted, no red  *)
(* node under a red one, as many black nodes on every path, whatever       *)
(* inserts, updates, removals, evictions and failed allocations have       *)
(* rebalanced.                                                             *)
THEOREM TreesPaired ==
  ASSUME NarrowKeys PROVE Spec => []TreeInv
<1>1. Init => TreeInv
  BY Zenon, InitPair
<1>2. TreeInv /\ [Next]_vars => TreeInv'
  BY Zenon, NextPair
<1>3. QED
  BY <1>1, <1>2, PTL DEF Spec

(* Every search of the scan tree ends at the record with the key, if there *)
(* is one (SearchFinds).                                                   *)
THEOREM SearchesExact ==
  ASSUME NarrowKeys PROVE Spec => []SearchFinds
<1>1. TreeInv => SearchFinds
  <2>1. SUFFICES ASSUME TreeInv, NEW k \in Keys
                 PROVE  /\ RB_SEARCH(scan_cache_rb_tree, k, scan_cache_insert_compare_table)
                              = {n \in ScanNodes : n.dev = k.dev /\ n.inode = k.inode}
                        /\ RB_SEARCH(scan_cache_rb_tree, k, scan_cache_find_compare_table)
                              = {n \in ScanNodes : n.dev = k.dev /\ n.inode = k.inode /\ n.gen = k.gen}
    BY Zenon DEF SearchFinds
  <2>2. IsKey(k)
    BY Zenon DEF Keys, IsKey
  <2>3. Tidy(ByInode, scan_cache_rb_tree) /\ ScanNodes \subseteq Node
    BY Zenon, <2>1, PairIn DEF TreeInv, Pair, ScanNodes
  <2>4. \A n \in ScanNodes : n.dev = k.dev
    BY Zenon, <2>2, <2>3, Bounds DEF NarrowKeys, IsKey
  <2>5. /\ RB_SEARCH(scan_cache_rb_tree, k, scan_cache_insert_compare_table)
              = {n \in ScanNodes : n.inode = k.inode}
        /\ RB_SEARCH(scan_cache_rb_tree, k, scan_cache_find_compare_table)
              = {n \in ScanNodes : n.inode = k.inode /\ n.gen = k.gen}
    BY Zenon, <2>2, <2>3, ScanSearch DEF ScanNodes
  <2>6. /\ {n \in ScanNodes : n.inode = k.inode}
              = {n \in ScanNodes : n.dev = k.dev /\ n.inode = k.inode}
        /\ {n \in ScanNodes : n.inode = k.inode /\ n.gen = k.gen}
              = {n \in ScanNodes : n.dev = k.dev /\ n.inode = k.inode /\ n.gen = k.gen}
    BY Zenon, <2>4
  <2>7. QED
    BY Zenon, <2>5, <2>6
<1>2. QED
  BY <1>1, TreesPaired, PTL

(* The LRU tree lists the records of the scan tree by age, and both trees  *)
(* are balanced (LruInOrder).                                              *)
THEOREM LruSorted ==
  ASSUME NarrowKeys PROVE Spec => []LruInOrder
<1>1. TreeInv => LruInOrder
  <2> DEFINE l == lru_cache_rb_tree
             w == InOrder[lru_cache_rb_tree]
  <2>1. SUFFICES ASSUME TreeInv PROVE LruInOrder
    OBVIOUS
  <2>2. /\ Tidy(ByInode, scan_cache_rb_tree) /\ Tidy(ByTime, l) /\ ScanNodes = Nodes[l]
        /\ ScanNodes \subseteq Node
    BY Zenon, <2>1, PairIn DEF TreeInv, Pair, ScanNodes
  <2>3. Numbers(ByInode) /\ Numbers(ByTime)
    BY Zenon, Bounds
  <2>4. /\ IsRedBlack(scan_cache_rb_tree) /\ IsRedBlack(l)
        /\ l \in Trees /\ Sorted(ByTime)[l]
    BY Zenon, <2>2, <2>3, TidyIn
  <2>5. Lists(ByTime, w, Nodes[l])
    BY Zenon, <2>3, <2>4, InOrderLists
  <2> HIDE DEF w
  <2>6. /\ {w[i] : i \in DOMAIN w} = ScanNodes
        /\ \A i, j \in DOMAIN w : i < j => w[i].time < w[j].time
    BY Zenon, <2>2, <2>5, Bounds DEF Lists
  <2>7. QED
    BY Zenon, <2>4, <2>6 DEF LruInOrder, w
<1>2. QED
  BY <1>1, TreesPaired, PTL

\* The abstract cache that a set of records stands for.
Cached(N) == {Abstract(m) : m \in N}

(* What a record stands for. *)
LEMMA AbstractFields ==
  ASSUME NEW n \in Node
  PROVE  /\ Abstract(n) \in Map!Record /\ Abstract(n).time = n.time /\ Abstract(n).gen = n.gen
         /\ Abstract(n).file = <<n.dev, n.inode>> /\ Abstract(n).file \in Devs \X Inodes
<1>1. n.dev \in Devs /\ n.inode \in Inodes /\ n.gen \in Gens /\ n.time \in Times
  BY Zenon, Bounds
<1>2. QED
  BY Zenon, <1>1 DEF Abstract, Map!Record

(* The records of other inodes stand for the records of other files. *)
LEMMA CachedOthers ==
  ASSUME NarrowKeys, NEW N, N \subseteq Node, NEW n \in Node
  PROVE  Cached(Others(N, n.inode)) = {r \in Cached(N) : r.file # Abstract(n).file}
<1>1. \A m \in N : Abstract(m).file # Abstract(n).file <=> m.inode # n.inode
  <2>1. TAKE m \in N
  <2>2. m \in Node /\ m.dev = n.dev
    BY Zenon, Bounds DEF NarrowKeys
  <2>3. Abstract(m).file = <<n.dev, m.inode>> /\ Abstract(n).file = <<n.dev, n.inode>>
    BY Zenon, <2>2, AbstractFields
  <2>4. QED
    BY <2>3
<1>2. QED
  BY Zenon, <1>1 DEF Cached, Others

(* The newest records stand for the newest. *)
LEMMA CachedNewest ==
  ASSUME NEW M, NEW N, N \subseteq Node, Newest(M, N)
  PROVE  /\ Cached(M) \subseteq Cached(N)
         /\ \A r \in Cached(N) \ Cached(M), q \in Cached(M) : r.time < q.time
<1>1. M \subseteq N /\ \A x \in N \ M, y \in M : x.time < y.time
  BY Zenon DEF Newest
<1>2. Cached(M) \subseteq Cached(N)
  BY Zenon, <1>1 DEF Cached
<1>3. ASSUME NEW r \in Cached(N) \ Cached(M), NEW q \in Cached(M) PROVE r.time < q.time
  <2>1. PICK x \in N : r = Abstract(x)
    BY Zenon DEF Cached
  <2>2. PICK y \in M : q = Abstract(y)
    BY Zenon DEF Cached
  <2>3. x \notin M
    BY Zenon, <1>3, <2>1 DEF Cached
  <2>4. r.time = x.time /\ q.time = y.time
    BY Zenon, <1>1, <2>1, <2>2, AbstractFields
  <2>5. QED
    BY Zenon, <1>1, <2>3, <2>4
<1>4. QED
  BY Zenon, <1>2, <1>3

(* Every step of the trees is a step of CacheMap, or changes no record. *)
LEMMA NextMap ==
  ASSUME NarrowKeys, TreeInv, [Next]_vars
  PROVE  [Map!Next]_{Abstract(n) : n \in ScanNodes}
<1> DEFINE N == ScanNodes
           M == ScanNodes'
<1>1. N \subseteq Node /\ \A x, y \in N : x.inode = y.inode => x = y
  BY Zenon, PairIn DEF TreeInv, ScanNodes
<1>2. {Abstract(n) : n \in ScanNodes} = Cached(N) /\ {Abstract(n) : n \in ScanNodes}' = Cached(M)
  BY Zenon DEF Cached, Abstract
<1>3. CASE InsertFile
  <2>1. PICK n \in Node : M = Others(N, n.inode) \cup {n} \/ M = Others(N, n.inode)
    BY Zenon, <1>3, InsertStep
  <2> DEFINE f == Abstract(n).file
  <2>2. Cached(Others(N, n.inode)) = {r \in Cached(N) : r.file # f}
    BY Zenon, <1>1, CachedOthers
  <2>3. f \in Devs \X Inodes /\ Abstract(n) \in Map!Record
    BY Zenon, AbstractFields
  <2>4. CASE M = Others(N, n.inode) \cup {n}
    <3>1. Cached(M) = {r \in Cached(N) : r.file # f} \cup {Abstract(n)}
      <4>1. Cached(Others(N, n.inode) \cup {n}) = Cached(Others(N, n.inode)) \cup {Abstract(n)}
        BY Zenon DEF Cached
      <4>2. QED
        BY Zenon, <2>2, <2>4, <4>1
    <3>2. Abstract(n) \in Cached(M)
      BY Zenon, <3>1
    <3>3. Map!Insert(Abstract(n))
      BY Zenon, <1>2, <3>1 DEF Map!Insert, Map!Without
    <3>4. QED
      BY Zenon, <1>2, <2>3, <3>2, <3>3 DEF Map!Next
  <2>5. CASE M = Others(N, n.inode)
    <3>1. Map!InsertFails(f)
      BY Zenon, <1>2, <2>2, <2>5 DEF Map!InsertFails, Map!Without
    <3>2. QED
      BY Zenon, <2>3, <3>1 DEF Map!Next
  <2>6. QED
    BY Zenon, <2>1, <2>4, <2>5
<1>4. CASE RemoveFile
  <2>1. PICK n \in N : M = N \ {n}
    BY Zenon, <1>4, RemoveStep
  <2>2. n \in Node /\ Others(N, n.inode) = N \ {n} /\ n.gen \in Gens
    BY Zenon, <1>1, Bounds DEF Others
  <2> DEFINE f == Abstract(n).file
  <2>3. Cached(M) = {r \in Cached(N) : r.file # f}
    <3>1. Cached(Others(N, n.inode)) = {r \in Cached(N) : r.file # f}
      BY Zenon, <1>1, <2>2, CachedOthers
    <3>2. M = Others(N, n.inode)
      BY Zenon, <2>1, <2>2
    <3>3. QED
      BY Zenon, <3>1, <3>2
  <2>4. f \in Devs \X Inodes /\ Abstract(n) \in Cached(N) /\ Abstract(n).gen = n.gen
    BY Zenon, <2>2, AbstractFields DEF Cached
  <2>5. Map!Remove(f, n.gen)
    BY Zenon, <1>2, <2>3, <2>4 DEF Map!Remove, Map!Without
  <2>6. QED
    BY Zenon, <2>2, <2>4, <2>5 DEF Map!Next
<1>5. ASSUME Newest(M, N) PROVE Map!Next
  <2>1. /\ Cached(M) \subseteq Cached(N)
        /\ \A r \in Cached(N) \ Cached(M), q \in Cached(M) : r.time < q.time
    BY Zenon, <1>1, <1>5, CachedNewest
  <2>2. Map!Evict
    BY Zenon, <1>2, <2>1 DEF Map!Evict
  <2>3. QED
    BY Zenon, <2>2 DEF Map!Next
<1>6. CASE \E count \in 0..MaxCount : remove_cache_entry(count)
  <2>1. Newest(M, N)
    BY Zenon, <1>6, EvictStep
  <2>2. QED
    BY Zenon, <1>5, <2>1
<1>7. CASE purge_cache
  <2>1. M = {}
    BY Zenon, <1>7, PurgeStep
  <2>2. Newest(M, N)
    BY Zenon, <2>1 DEF Newest
  <2>3. QED
    BY Zenon, <1>5, <2>2
<1>8. CASE UNCHANGED vars
  <2>1. M = N
    BY Zenon, <1>8 DEF ScanNodes, vars
  <2>2. {Abstract(n) : n \in ScanNodes}' = {Abstract(n) : n \in ScanNodes}
    BY Zenon, <1>2, <2>1
  <2>3. QED
    BY Zenon, <2>2
<1>9. QED
  BY Zenon, <1>3, <1>4, <1>6, <1>7, <1>8 DEF Next

(* The trees implement the cache a caller is promised: a map from files to *)
(* their newest records, which evicts the oldest first (ImplementsMap).    *)
THEOREM TreesImplementMap ==
  ASSUME NarrowKeys PROVE Spec => ImplementsMap
<1>1. Init => Map!Init
  <2>1. ASSUME Init PROVE ScanNodes = {}
    BY Zenon, <2>1, TidyEmpty DEF Init, ScanNodes
  <2>2. QED
    BY Zenon, <2>1 DEF Map!Init
<1>2. TreeInv /\ [Next]_vars => [Map!Next]_{Abstract(n) : n \in ScanNodes}
  BY Zenon, NextMap
<1>3. QED
  BY <1>1, <1>2, TreesPaired, PTL DEF Spec, ImplementsMap, Map!Spec
=============================================================================
