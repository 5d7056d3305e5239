---------------------------- MODULE ProgramProofs ----------------------------
(***************************************************************************)
(* The small programs, whatever the sizes: what each one promises is kept  *)
(* by every step of it, and no program moves the state of another.         *)
(***************************************************************************)
EXTENDS Programs, TLAPS, WellFoundedInduction

-----------------------------------------------------------------------------
(* A set of natural numbers that is not empty has a least one. *)
LEMMA LeastOf ==
  ASSUME NEW S \in SUBSET Nat, S # {}
  PROVE  \E n \in S : \A k \in S : n <= k
<1> DEFINE R == {ss \in Nat \X Nat : ss[1] < ss[2]}
<1>1. IsWellFoundedOn(R, Nat)
  BY Zenon, NatLessThanWellFounded DEF OpToRel
<1> HIDE DEF R
<1>2. PICK x \in S : \A y \in S : ~(<<y, x>> \in R)
  BY Zenon, <1>1, WFMin
<1>3. ASSUME NEW k \in S PROVE x <= k
  <2>1. ~(<<k, x>> \in R)
    BY Zenon, <1>2
  <2>2. QED
    BY <2>1 DEF R
<1>4. QED
  BY Zenon, <1>3

-----------------------------------------------------------------------------
(* The walk of mount_iter.c.                                               *)

\* The mounts walked over.
Visited == {visited[i] : i \in 1..Len(visited)}

\* The mounts are numbered from the root down; until the tree changes, what is
\* below a mount is in the tree with it.
TreeInv ==
  /\ parent \in [Mounts -> Mounts] /\ parent[1] = 1
  /\ \A m \in Mounts : parent[m] <= m
  /\ ~changed => \A m \in Mounts : parent[m] # m => InTree(parent[m])

\* O is the way from cur up to its root.  What lies beside the way further on
\* and below cur is still to be walked over; if the tree did not change, what
\* lies before it has been.
PathInv(O) ==
  /\ cur \in O
  /\ \A a \in O : a <= cur /\ parent[a] \in O
  /\ \A a, b \in O : a < b => a <= parent[b]
  /\ \A a \in O \ {cur} : a \in Visited /\ \E b \in O \ {a} : parent[b] = a
  /\ \A a \in O : parent[a] # a => Later(a) \cap (Visited \cup {cur}) = {}
  /\ cur \notin Visited /\ Children(cur) \cap Visited = {}
  /\ \A m \in Visited : parent[m] \in Visited \cup {cur}
  /\ ~changed =>
       /\ 1 \in O /\ \A a \in O : InTree(a)
       /\ \A m \in Visited \ O : Children(m) \subseteq Visited
       /\ \A a \in O \ {1} : \A m \in Children(parent[a]) : m < a => m \in Visited

\* A mount comes after its parent.
OrderInv ==
  ~changed => \A i \in 1..Len(visited) : visited[i] # 1 =>
                 \E j \in 1..(i - 1) : visited[j] = parent[visited[i]]

\* The list has one record of each type that got one; while it is freed, a
\* record left out of it has the type of one in it or of one freed.
ListedInv ==
  /\ mntList \in Seq(Nat) /\ \A i \in 1..Len(mntList) : mntList[i] \in mntLive
  /\ mntLive \cup noMem \subseteq 1..Len(visited) /\ mntLive \cap noMem = {}
  /\ \A i, j \in 1..Len(mntList) : type(mntList[i]) = type(mntList[j]) => i = j
  /\ \A k \in mntLive :
        \/ \E i \in 1..Len(mntList) : type(mntList[i]) = type(k)
        \/ /\ walk # "walk"
           /\ \E j \in 1..Len(visited) : j \notin mntLive \cup noMem /\ type(j) = type(k)

\* No mount was met twice.
MetOnce == \A i, j \in 1..Len(visited) : visited[i] = visited[j] => i = j

WalkInv ==
  /\ walk \in {"start", "climb", "walk", "free", "done", "undefined"}
  /\ cur \in Mounts /\ visited \in Seq(Mounts)
  /\ TreeInv /\ OrderInv /\ ListedInv
  /\ moved => changed
  /\ walk \in {"start", "climb"} => visited = <<>> /\ (~changed => InTree(cur))
  /\ walk = "walk" /\ ~moved => \E O \in SUBSET Mounts : PathInv(O)
  /\ walk \in {"free", "done"} /\ ~changed => \A m \in Mounts : InTree(m) => m \in Visited
  /\ walk = "done" => mntList = <<>>
  /\ walk = "undefined" => changed
  /\ ~moved => MetOnce
  /\ walk # "undefined" => mntRefs = [m \in Mounts |-> IF walk = "walk" /\ m = cur THEN 1 ELSE 0]

\* f climbs from the mounts up to N by the rule of climb.
ClimbsTo(f, N) ==
  /\ f \in [1..N -> Mounts]
  /\ \A m \in 1..N : f[m] = IF parent[m] = m \/ Later(m) # {} THEN m ELSE f[parent[m]]

(* There is such an f for every N: a mount comes after its parent. *)
LEMMA ClimbExists ==
  ASSUME TreeInv
  PROVE  \A N \in Nat : N <= MountCount => \E f : ClimbsTo(f, N)
<1> USE MountAssumption
<1> DEFINE S == {N \in Nat : N <= MountCount /\ ~\E f : ClimbsTo(f, N)}
<1>1. SUFFICES ASSUME S # {} PROVE FALSE
  BY Zenon
<1>2. PICK N \in S : \A k \in S : N <= k
  BY Zenon, <1>1, LeastOf
<1>3. N \in Nat /\ N <= MountCount /\ ~\E f : ClimbsTo(f, N)
  OBVIOUS
<1>4. CASE N = 0
  <2> DEFINE f == [n \in 1..0 |-> 1]
  <2>1. ClimbsTo(f, 0)
    BY DEF ClimbsTo
  <2>2. QED
    BY Zenon, <1>3, <1>4, <2>1
<1>5. CASE N # 0
  <2>1. N - 1 \in Nat /\ N - 1 \notin S /\ N \in Mounts
    BY <1>2, <1>3, <1>5 DEF Mounts
  <2>2. PICK f : ClimbsTo(f, N - 1)
    BY <1>3, <2>1
  <2>3. f \in [1..(N - 1) -> Mounts]
    BY Zenon, <2>2 DEF ClimbsTo
  <2>4. \A m \in 1..(N - 1) : f[m] = IF parent[m] = m \/ Later(m) # {} THEN m ELSE f[parent[m]]
    BY Zenon, <2>2 DEF ClimbsTo
  <2> DEFINE g == [m \in 1..N |-> IF m < N THEN f[m] ELSE
                                  IF parent[N] = N \/ Later(N) # {} THEN N ELSE f[parent[N]]]
  <2>5. ASSUME NEW m \in 1..N, parent[m] # m
        PROVE  parent[m] \in 1..(N - 1)
    BY <1>3, <2>5 DEF TreeInv, Mounts
  <2>6. ASSUME NEW m \in 1..N
        PROVE  g[m] \in Mounts /\ g[m] = IF parent[m] = m \/ Later(m) # {} THEN m ELSE g[parent[m]]
    <3>1. CASE parent[m] = m \/ Later(m) # {}
      <4>1. g[m] = m
        <5>1. CASE m = N
          BY <1>3, <3>1, <5>1
        <5>2. CASE m # N
          <6>1. m \in 1..(N - 1) /\ m < N
            BY <1>3, <5>2
          <6>2. QED
            BY Zenon, <2>4, <3>1, <6>1
        <5>3. QED
          BY Zenon, <5>1, <5>2
      <4>2. QED
        BY <1>3, <3>1, <4>1 DEF Mounts
    <3>2. CASE ~(parent[m] = m \/ Later(m) # {})
      <4>1. parent[m] \in 1..(N - 1) /\ f[parent[m]] \in Mounts
        BY Zenon, <2>3, <2>5, <3>2
      <4>2. g[parent[m]] = f[parent[m]]
        BY <1>3, <4>1
      <4>3. g[m] = f[parent[m]]
        <5>1. CASE m = N
          BY <1>3, <3>2, <5>1
        <5>2. CASE m # N
          <6>1. m \in 1..(N - 1) /\ m < N
            BY <1>3, <5>2
          <6>2. QED
            BY Zenon, <2>4, <3>2, <6>1
        <5>3. QED
          BY Zenon, <5>1, <5>2
      <4>4. QED
        BY Zenon, <3>2, <4>1, <4>2, <4>3
    <3>3. QED
      BY Zenon, <3>1, <3>2
  <2>7. ClimbsTo(g, N)
    BY Zenon, <2>6 DEF ClimbsTo
  <2>8. QED
    BY Zenon, <1>3, <2>7
<1>6. QED
  BY Zenon, <1>4, <1>5

(* So climb satisfies its rule. *)
LEMMA ClimbRule ==
  ASSUME TreeInv, NEW m \in Mounts
  PROVE  climb[m] = IF parent[m] = m \/ Later(m) # {} THEN m ELSE climb[parent[m]]
<1> DEFINE G(f) == [n \in Mounts |-> IF parent[n] = n \/ Later(n) # {} THEN n ELSE f[parent[n]]]
<1>1. PICK f : ClimbsTo(f, MountCount)
  BY ClimbExists, MountAssumption
<1>2. f = G(f)
  <2>1. f \in [Mounts -> Mounts]
    BY Zenon, <1>1 DEF ClimbsTo, Mounts
  <2>2. \A n \in Mounts : f[n] = G(f)[n]
    BY Zenon, <1>1 DEF ClimbsTo, Mounts
  <2>3. QED
    BY Zenon, <2>1, <2>2
<1>3. climb = CHOOSE g : g = G(g)
  BY Zenon DEF climb
<1> HIDE DEF G
<1>4. climb = G(climb)
  BY Zenon, <1>2, <1>3
<1> USE DEF G
<1>5. QED
  BY Zenon, <1>4

(* The search for a sibling stops at a root or at a mount with a sibling. *)
LEMMA ClimbEnds ==
  ASSUME TreeInv
  PROVE  \A m \in Mounts : /\ climb[m] \in Mounts
                           /\ parent[climb[m]] = climb[m] \/ Later(climb[m]) # {}
<1> DEFINE Good(c) == c \in Mounts /\ (parent[c] = c \/ Later(c) # {})
           S == {m \in Mounts : ~Good(climb[m])}
<1>0. Mounts \subseteq Nat
  BY MountAssumption DEF Mounts
<1>1. SUFFICES ASSUME S # {} PROVE FALSE
  OBVIOUS
<1>2. PICK m \in S : \A k \in S : m <= k
  <2>1. S \in SUBSET Nat
    BY Zenon, <1>0
  <2>2. QED
    BY Zenon, <1>1, <2>1, LeastOf
<1>3. m \in Mounts /\ ~Good(climb[m])
  OBVIOUS
<1>4. parent[m] \in Mounts /\ parent[m] <= m /\ m \in Nat /\ parent[m] \in Nat
  BY Zenon, <1>0, <1>3 DEF TreeInv
<1>5. CASE parent[m] = m \/ Later(m) # {}
  <2>1. climb[m] = m
    BY Zenon, <1>3, <1>5, ClimbRule
  <2>2. QED
    BY Zenon, <1>3, <1>5, <2>1
<1>6. CASE ~(parent[m] = m \/ Later(m) # {})
  <2>1. climb[m] = climb[parent[m]]
    BY Zenon, <1>3, <1>6, ClimbRule
  <2>2. parent[m] \notin S
    BY <1>2, <1>4, <1>6
  <2>3. QED
    BY Zenon, <1>3, <1>4, <2>1, <2>2
<1>7. QED
  BY Zenon, <1>5, <1>6

(* It stops on the way up, at the root of the way or at the first mount    *)
(* with a later sibling.                                                   *)
LEMMA ClimbStops ==
  ASSUME WalkInv, NEW O \in SUBSET Mounts, PathInv(O)
  PROVE  LET c == climb[cur] IN
         /\ c \in O /\ (parent[c] = c \/ Later(c) # {})
         /\ \A b \in O : c < b => parent[b] # b /\ Later(b) = {}
<1> DEFINE Stops(m, c) ==
             /\ c \in O /\ c <= m /\ (parent[c] = c \/ Later(c) # {})
             /\ \A b \in O : c < b /\ b <= m => parent[b] # b /\ Later(b) = {}
           S == {m \in O : ~Stops(m, climb[m])}
<1>0. TreeInv /\ O \subseteq Nat /\ cur \in O /\ (\A a \in O : a <= cur /\ parent[a] \in O)
      /\ \A a, b \in O : a < b => a <= parent[b]
  BY MountAssumption DEF WalkInv, PathInv, Mounts
<1>1. S = {}
  <2>1. SUFFICES ASSUME S # {} PROVE FALSE
    OBVIOUS
  <2>2. PICK m \in S : \A k \in S : m <= k
    <3>1. S \in SUBSET Nat
      BY Zenon, <1>0
    <3>2. QED
      BY Zenon, <2>1, <3>1, LeastOf
  <2>3. m \in O /\ ~Stops(m, climb[m])
    OBVIOUS
  <2>4. m \in Nat /\ parent[m] \in Nat /\ parent[m] <= m
    BY Zenon, <1>0, <2>3 DEF TreeInv
  <2>5. CASE parent[m] = m \/ Later(m) # {}
    <3>1. climb[m] = m
      BY Zenon, <1>0, <2>3, <2>5, ClimbRule
    <3>2. Stops(m, m)
      BY <1>0, <2>3, <2>4, <2>5
    <3>3. QED
      BY Zenon, <2>3, <3>1, <3>2
  <2>6. CASE ~(parent[m] = m \/ Later(m) # {})
    <3>1. climb[m] = climb[parent[m]]
      BY Zenon, <1>0, <2>3, <2>6, ClimbRule
    <3>2. parent[m] \in O /\ parent[m] < m
      BY <1>0, <2>3, <2>4, <2>6
    <3>3. Stops(parent[m], climb[parent[m]])
      BY <2>2, <2>4, <3>2
    <3>4. ASSUME NEW c, Stops(parent[m], c) PROVE Stops(m, c)
      <4>1. c \in O /\ c <= m /\ (parent[c] = c \/ Later(c) # {})
        BY <1>0, <2>4, <3>2, <3>4
      <4>2. ASSUME NEW b \in O, c < b, b <= m PROVE parent[b] # b /\ Later(b) = {}
        <5>1. CASE b = m
          BY Zenon, <2>6, <5>1
        <5>2. CASE b # m
          <6>1. b <= parent[m]
            BY <1>0, <2>3, <4>2, <5>2
          <6>2. QED
            BY Zenon, <3>4, <4>2, <6>1
        <5>3. QED
          BY Zenon, <5>1, <5>2
      <4>3. QED
        BY Zenon, <4>1, <4>2
    <3>5. QED
      BY Zenon, <2>3, <3>1, <3>3, <3>4
  <2>7. QED
    BY Zenon, <2>5, <2>6
<1>2. Stops(cur, climb[cur])
  BY Zenon, <1>0, <1>1
<1>3. QED
  BY Zenon, <1>0, <1>2

(* The first of a set of mounts. *)
LEMMA FirstOf ==
  ASSUME NEW S \in SUBSET Mounts, S # {}
  PROVE  First(S) \in S /\ \A d \in S : First(S) <= d
<1>1. S \in SUBSET Nat
  BY MountAssumption DEF Mounts
<1>2. \E c \in S : \A d \in S : c <= d
  BY Zenon, <1>1, LeastOf
<1>3. QED
  BY Zenon, <1>2 DEF First

(* Mounts are numbers and come after their parents. *)
LEMMA WalkTypes ==
  ASSUME WalkInv
  PROVE  /\ \A m \in Mounts : m \in Nat /\ parent[m] \in Mounts /\ parent[m] <= m
         /\ cur \in Mounts
<1>1. TreeInv /\ cur \in Mounts
  BY Zenon DEF WalkInv
<1>2. Mounts \subseteq Nat
  BY MountAssumption DEF Mounts
<1>3. QED
  BY Zenon, <1>1, <1>2 DEF TreeInv

-----------------------------------------------------------------------------
(* Down to the first child: the way gets longer. *)
LEMMA WalksDown ==
  ASSUME WalkInv, NEW O \in SUBSET Mounts, PathInv(O), NEW n \in Mounts,
         Children(cur) # {}, n = First(Children(cur)),
         Visited' = Visited \cup {cur}, cur' = n, UNCHANGED <<parent, changed>>
  PROVE  n # cur /\ PathInv(O \cup {n})'
<1>0. /\ \A m \in Mounts : m \in Nat /\ parent[m] \in Mounts /\ parent[m] <= m
      /\ cur \in Mounts
  BY Zenon, WalkTypes
<1>1. n \in Children(cur) /\ \A d \in Children(cur) : n <= d
  <2>1. Children(cur) \in SUBSET Mounts
    BY Zenon DEF Children
  <2>2. QED
    BY Zenon, <2>1, FirstOf
<1>2. n # cur /\ parent[n] = cur /\ n > cur
  BY <1>0, <1>1 DEF Children
<1>3. /\ \A m : Children(m)' = Children(m)
      /\ \A m : Later(m)' = Later(m)
  BY Zenon DEF Children, Later
<1>4. cur \in O /\ (\A a \in O : a <= cur /\ parent[a] \in O)
      /\ cur \notin Visited /\ Children(cur) \cap Visited = {}
      /\ (\A m \in Visited : parent[m] \in Visited \cup {cur})
      /\ O \subseteq Visited \cup {cur}
  BY Zenon DEF PathInv
<1>5. n \notin Visited /\ n \notin O
  BY Zenon, <1>0, <1>1, <1>2, <1>4
<1>6. \A a \in O \cup {n} : a <= n /\ parent[a] \in O \cup {n}
  BY <1>0, <1>2, <1>4
<1>7. \A a, b \in O \cup {n} : a < b => a <= parent[b]
  BY <1>0, <1>2, <1>4 DEF PathInv
<1>8. \A a \in O : a \in Visited \cup {cur} /\ \E b \in (O \cup {n}) \ {a} : parent[b] = a
  BY Zenon, <1>2, <1>4, <1>5 DEF PathInv
<1>9. ASSUME NEW a \in O \cup {n}, parent[a] # a, NEW l \in Later(a)
      PROVE  l \notin Visited \cup {cur} /\ l # n
  <2>1. l \in Mounts /\ l # parent[a] /\ parent[l] = parent[a] /\ l > a
    BY Zenon, <1>9 DEF Later, Children
  <2>2. CASE a = n
    BY <1>0, <1>2, <1>4, <2>1, <2>2 DEF Children
  <2>3. CASE a \in O
    <3>1. l \notin Visited \cup {cur}
      BY Zenon, <1>9, <2>3 DEF PathInv
    <3>2. l # n
      BY <1>0, <1>2, <1>4, <1>9, <2>1, <2>3
    <3>3. QED
      BY Zenon, <3>1, <3>2
  <2>4. QED
    BY Zenon, <2>2, <2>3
<1>10. ASSUME NEW c \in Children(n) PROVE c \notin Visited \cup {cur}
  <2>1. c \in Mounts /\ parent[c] = n
    BY Zenon, <1>10 DEF Children
  <2>2. QED
    BY Zenon, <1>0, <1>2, <1>4, <1>5, <2>1
<1>11. \A m \in Visited \cup {cur} : parent[m] \in Visited \cup {cur, n}
  BY Zenon, <1>4
<1>12. ASSUME ~changed
       PROVE  /\ 1 \in O /\ (\A a \in O \cup {n} : InTree(a)') /\ \A m \in (Visited \cup {cur}) \ (O \cup {n}) : Children(m) \subseteq Visited
              /\ \A a \in (O \cup {n}) \ {1} : \A m \in Children(parent[a]) : m < a => m \in Visited \cup {cur}
  <2>1. /\ 1 \in O /\ \A m \in Visited \ O : Children(m) \subseteq Visited
        /\ \A a \in O \ {1} : \A m \in Children(parent[a]) : m < a => m \in Visited
    BY Zenon, <1>12 DEF PathInv
  <2>2. ASSUME NEW m \in Children(parent[n]) PROVE ~(m < n)
    <3>1. m \in Children(cur) /\ m \in Mounts
      BY Zenon, <1>2, <2>2 DEF Children
    <3>2. n <= m /\ m \in Nat /\ n \in Nat
      BY Zenon, <1>0, <1>1, <3>1
    <3>3. QED
      BY <3>2
  <2>3. \A a \in O \cup {n} : InTree(a)'
    BY Zenon, <1>2, <1>12 DEF PathInv, InTree
  <2>4. QED
    BY Zenon, <1>4, <2>1, <2>2, <2>3
<1>13. QED
  BY <1>2, <1>3, <1>5, <1>6, <1>7, <1>8, <1>9, <1>10, <1>11, <1>12 DEF PathInv

(* Across to the next sibling of a mount c of the way: the way is cut off  *)
(* above c and goes on with the sibling.                                   *)
LEMMA WalksAcross ==
  ASSUME WalkInv, NEW O \in SUBSET Mounts, PathInv(O), Children(cur) = {},
         NEW c \in O, parent[c] # c, Later(c) # {},
         \A b \in O : c < b => Later(b) = {},
         NEW n \in Mounts, n = First(Later(c)),
         Visited' = Visited \cup {cur}, cur' = n, UNCHANGED <<parent, changed>>
  PROVE  n # cur /\ PathInv({b \in O : b < c} \cup {n})'
<1> DEFINE Q == {b \in O : b < c} \cup {n}
<1>0. /\ \A m \in Mounts : m \in Nat /\ parent[m] \in Mounts /\ parent[m] <= m
      /\ cur \in Mounts /\ c \in Mounts
  BY Zenon, WalkTypes
<1>1. n \in Later(c) /\ \A d \in Later(c) : n <= d
  <2>1. Later(c) \in SUBSET Mounts
    BY Zenon DEF Later, Children
  <2>2. QED
    BY Zenon, <2>1, FirstOf
<1>2. n # parent[c] /\ parent[n] = parent[c] /\ n > c
  BY Zenon, <1>1 DEF Children, Later
<1>3. /\ \A m : Children(m)' = Children(m)
      /\ \A m : Later(m)' = Later(m)
  BY Zenon DEF Children, Later
<1>4. cur \in O /\ (\A a \in O : a <= cur /\ parent[a] \in O)
      /\ cur \notin Visited
      /\ (\A m \in Visited : parent[m] \in Visited \cup {cur})
      /\ O \subseteq Visited \cup {cur}
      /\ \A a, b \in O : a < b => a <= parent[b]
  BY Zenon DEF PathInv
<1>5. n \notin Visited \cup {cur}
  BY Zenon, <1>1 DEF PathInv
<1>6. parent[c] \in O /\ parent[c] < c
  BY <1>0, <1>4
<1>7. \A a \in Q : a <= n /\ parent[a] \in Q
  BY <1>0, <1>2, <1>4, <1>6
<1>8. ASSUME NEW a \in Q, NEW b \in Q, a < b PROVE a <= parent[b]
  <2>1. CASE b = n
    BY <1>0, <1>2, <1>4, <1>8, <2>1
  <2>2. CASE b \in O
    BY <1>0, <1>2, <1>4, <1>8, <2>2
  <2>3. QED
    BY Zenon, <2>1, <2>2
<1>9. ASSUME NEW a \in Q \ {n}
      PROVE  a \in Visited \cup {cur} /\ \E b \in Q \ {a} : parent[b] = a
  <2>1. a \in O /\ a < c /\ a # cur
    BY <1>0, <1>4, <1>9
  <2>2. PICK b \in O \ {a} : parent[b] = a
    BY Zenon, <2>1 DEF PathInv
  <2>3. CASE b < c
    BY Zenon, <1>4, <2>1, <2>2, <2>3
  <2>4. CASE b = c
    BY Zenon, <1>2, <1>4, <1>9, <2>1, <2>2, <2>4
  <2>5. CASE c < b
    BY <1>0, <1>4, <2>1, <2>2, <2>5
  <2>6. QED
    BY <1>0, <2>3, <2>4, <2>5
<1>10. ASSUME NEW a \in Q, parent[a] # a, NEW l \in Later(a)
       PROVE  l \notin Visited \cup {cur} /\ l # n
  <2>1. l \in Mounts /\ l # parent[a] /\ parent[l] = parent[a] /\ l > a
    BY Zenon, <1>10 DEF Later, Children
  <2>2. CASE a = n
    <3>1. l \in Later(c)
      BY <1>0, <1>2, <2>1, <2>2 DEF Later, Children
    <3>2. QED
      BY <1>0, <2>1, <2>2, <3>1 DEF PathInv
  <2>3. CASE a \in O /\ a < c
    <3>1. l \notin Visited \cup {cur}
      BY Zenon, <1>10, <2>3 DEF PathInv
    <3>2. l # n
      BY <1>0, <1>2, <1>4, <1>10, <2>1, <2>3
    <3>3. QED
      BY Zenon, <3>1, <3>2
  <2>4. QED
    BY Zenon, <2>2, <2>3
<1>11. ASSUME NEW d \in Children(n) PROVE d \notin Visited \cup {cur}
  <2>1. d \in Mounts /\ parent[d] = n
    BY Zenon, <1>11 DEF Children
  <2>2. QED
    BY Zenon, <1>4, <1>5, <2>1
<1>12. \A m \in Visited \cup {cur} : parent[m] \in Visited \cup {cur, n}
  BY Zenon, <1>4
<1>13. ASSUME ~changed
       PROVE  /\ 1 \in Q /\ (\A a \in Q : InTree(a)') /\ \A m \in (Visited \cup {cur}) \ Q : Children(m) \subseteq Visited \cup {cur}
              /\ \A a \in Q \ {1} : \A m \in Children(parent[a]) : m < a => m \in Visited \cup {cur}
  <2>1. /\ 1 \in O /\ \A m \in Visited \ O : Children(m) \subseteq Visited
        /\ \A a \in O \ {1} : \A m \in Children(parent[a]) : m < a => m \in Visited
    BY Zenon, <1>13 DEF PathInv
  <2>2. parent[1] = 1 /\ 1 <= c
    BY <1>0, MountAssumption DEF WalkInv, TreeInv, Mounts
  <2>3. 1 \in Q
    <3>1. c # 1 /\ c \in Nat
      BY Zenon, <1>0, <2>2
    <3>2. 1 < c
      BY <2>2, <3>1
    <3>3. QED
      BY Zenon, <2>1, <3>2
  <2>4. ASSUME NEW m \in (Visited \cup {cur}) \ Q, NEW d \in Children(m)
        PROVE  d \in Visited \cup {cur}
    <3>1. CASE m \notin O
      BY Zenon, <1>4, <2>1, <2>4, <3>1
    <3>2. CASE m \in O
      <4>1. m # cur /\ ~(m < c)
        BY Zenon, <2>4, <3>2
      <4>2. PICK b \in O \ {m} : parent[b] = m
        BY Zenon, <3>2, <4>1 DEF PathInv
      <4>3. d \in Mounts /\ d # m /\ parent[d] = m
        BY Zenon, <2>4 DEF Children
      <4>4. b # 1 /\ c < b
        BY <1>0, <2>2, <3>2, <4>1, <4>2
      <4>5. CASE d < b
        BY Zenon, <2>1, <2>4, <4>2, <4>4, <4>5
      <4>6. CASE d = b
        BY Zenon, <1>4, <4>2, <4>6
      <4>7. CASE b < d
        <5>1. d \in Later(b)
          BY Zenon, <4>2, <4>3, <4>7 DEF Later, Children
        <5>2. QED
          BY Zenon, <4>2, <4>4, <5>1
      <4>8. QED
        BY <1>0, <4>2, <4>3, <4>5, <4>6, <4>7
    <3>3. QED
      BY Zenon, <3>1, <3>2
  <2>5. ASSUME NEW a \in Q \ {1}, NEW m \in Children(parent[a]), m < a
        PROVE  m \in Visited \cup {cur}
    <3>1. CASE a \in O
      BY Zenon, <2>1, <2>5, <3>1
    <3>2. CASE a = n
      <4>1. m \in Children(parent[c]) /\ m \in Mounts /\ parent[m] = parent[c] /\ m # parent[c]
        BY Zenon, <1>2, <2>5, <3>2 DEF Children
      <4>2. CASE m < c
        BY Zenon, <1>0, <2>1, <2>2, <4>1, <4>2
      <4>3. CASE m = c
        BY Zenon, <1>4, <4>3
      <4>4. CASE c < m
        <5>1. m \in Later(c)
          BY Zenon, <4>1, <4>4 DEF Later
        <5>2. QED
          BY <1>0, <1>1, <2>5, <3>2, <4>1, <5>1
      <4>5. QED
        BY <1>0, <4>1, <4>2, <4>3, <4>4
    <3>3. QED
      BY Zenon, <3>1, <3>2
  <2>6. \A a \in Q : InTree(a)'
    BY Zenon, <1>2, <1>6, <1>13 DEF PathInv, InTree
  <2>7. QED
    BY Zenon, <2>3, <2>4, <2>5, <2>6
<1>14. QED
  BY <1>3, <1>5, <1>7, <1>8, <1>9, <1>10, <1>11, <1>12, <1>13 DEF PathInv

(* Where the walk ends it has been everywhere, if the tree did not change. *)
LEMMA WalkEnds ==
  ASSUME WalkInv, NEW O \in SUBSET Mounts, PathInv(O), ~changed, Children(cur) = {},
         \A b \in O : parent[b] # b => Later(b) = {}
  PROVE  \A m \in Mounts : InTree(m) => m \in Visited \cup {cur}
<1> DEFINE S == {x \in Mounts : InTree(x)} \ (Visited \cup {cur})
<1>0. /\ \A m \in Mounts : m \in Nat /\ parent[m] \in Mounts /\ parent[m] <= m
      /\ cur \in Mounts
  BY Zenon, WalkTypes
<1>1. SUFFICES ASSUME S # {} PROVE FALSE
  OBVIOUS
<1>2. PICK m \in S : \A k \in S : m <= k
  <2>1. S \in SUBSET Nat
    BY Zenon, <1>0
  <2>2. QED
    BY Zenon, <1>1, <2>1, LeastOf
<1>3. m \in Mounts /\ m \notin Visited \cup {cur} /\ InTree(m)
  OBVIOUS
<1>4. /\ 1 \in O /\ (\A v \in Visited \ O : Children(v) \subseteq Visited)
      /\ \A a \in O \ {1} : \A d \in Children(parent[a]) : d < a => d \in Visited
      /\ O \subseteq Visited \cup {cur}
  BY Zenon DEF PathInv
<1>5. parent[m] < m /\ m \in Children(parent[m]) /\ parent[1] = 1
  <2>1. m # 1
    BY Zenon, <1>3, <1>4
  <2>2. parent[m] < m /\ parent[1] = 1
    BY <1>0, <1>3, <2>1 DEF WalkInv, TreeInv, InTree
  <2>3. QED
    BY <1>0, <1>3, <2>2 DEF Children
<1>6. parent[m] \in Visited \cup {cur}
  <2>1. parent[m] \notin S
    BY <1>0, <1>2, <1>3, <1>5
  <2>2. InTree(parent[m])
    BY Zenon, <1>0, <1>3, <1>5 DEF WalkInv, TreeInv
  <2>3. QED
    BY Zenon, <1>0, <1>3, <2>1, <2>2
<1>7. parent[m] \in O \ {cur}
  BY Zenon, <1>3, <1>4, <1>5, <1>6
<1>8. PICK b \in O \ {parent[m]} : parent[b] = parent[m]
  BY Zenon, <1>7 DEF PathInv
<1>9. b # 1 /\ parent[b] # b /\ Later(b) = {} /\ b \in Mounts
  BY Zenon, <1>5, <1>8
<1>10. CASE m < b
  BY Zenon, <1>3, <1>4, <1>5, <1>8, <1>9, <1>10
<1>11. CASE m = b
  BY Zenon, <1>3, <1>4, <1>8, <1>11
<1>12. CASE b < m
  <2>1. m \in Later(b)
    BY Zenon, <1>5, <1>8, <1>12 DEF Later
  <2>2. QED
    BY Zenon, <1>9, <2>1
<1>13. QED
  BY <1>0, <1>3, <1>9, <1>10, <1>11, <1>12

(* Detaching a mount leaves the way, or cuts it down to cur. *)
LEMMA PathDetached ==
  ASSUME WalkInv, NEW O \in SUBSET Mounts, PathInv(O), NEW m \in Mounts, Children(m) = {},
         parent' = [parent EXCEPT ![m] = m], UNCHANGED <<cur, visited>>, changed'
  PROVE  PathInv(IF m = cur THEN {cur} ELSE O)'
<1>0. /\ \A x \in Mounts : x \in Nat /\ parent[x] \in Mounts /\ parent[x] <= x
      /\ cur \in Mounts /\ parent \in [Mounts -> Mounts]
  BY Zenon, WalkTypes DEF WalkInv, TreeInv
<1>1. Visited' = Visited /\ Visited \subseteq Mounts
  BY DEF Visited, WalkInv
<1>2. parent'[m] = m /\ \A x \in Mounts : x # m => parent'[x] = parent[x]
  BY Zenon, <1>0
<1>3. ASSUME NEW x \in Mounts PROVE Children(x)' \subseteq Children(x)
  BY Zenon, <1>2 DEF Children
<1>4. ASSUME NEW x \in Mounts, x # m PROVE Later(x)' \subseteq Later(x)
  BY Zenon, <1>0, <1>2, <1>3, <1>4 DEF Later
<1>5. cur \notin Visited /\ Children(cur) \cap Visited = {}
      /\ \A x \in Visited : parent[x] \in Visited \cup {cur}
  BY Zenon DEF PathInv
<1>6. Children(cur)' \cap Visited' = {} /\ \A x \in Visited' : parent'[x] \in Visited' \cup {cur'}
  BY Zenon, <1>0, <1>1, <1>2, <1>3, <1>5
<1>7. CASE m = cur
  <2>1. parent'[cur] = cur
    BY Zenon, <1>2, <1>7
  <2>2. PathInv({cur})'
    <3>1. \A a \in {cur} : a <= cur' /\ parent'[a] \in {cur}
      BY <1>0, <2>1
    <3>2. \A a, b \in {cur} : ~(a < b)
      BY <1>0
    <3>3. cur' = cur /\ cur' \notin Visited' /\ changed'
      BY Zenon, <1>1, <1>5
    <3>4. QED
      BY <1>6, <2>1, <3>1, <3>2, <3>3 DEF PathInv
  <2>3. QED
    BY Zenon, <1>7, <2>2
<1>8. CASE m # cur
  <2>1. m \notin O
    <3>1. ASSUME m \in O PROVE FALSE
      <4>1. PICK b \in O \ {m} : parent[b] = m
        BY Zenon, <1>8, <3>1 DEF PathInv
      <4>2. b \in Children(m)
        BY Zenon, <4>1 DEF Children
      <4>3. QED
        BY Zenon, <4>2
    <3>2. QED
      BY Zenon, <3>1
  <2>2. \A a \in O : parent'[a] = parent[a] /\ Later(a)' \subseteq Later(a)
    BY Zenon, <1>2, <1>4, <2>1
  <2>3. cur \in O /\ (\A a \in O : a <= cur /\ parent'[a] \in O)
        /\ \A a, b \in O : a < b => a <= parent'[b]
    BY Zenon, <2>2 DEF PathInv
  <2>4. \A a \in O \ {cur} : a \in Visited' /\ \E b \in O \ {a} : parent'[b] = a
    BY Zenon, <1>1, <2>2 DEF PathInv
  <2>5. \A a \in O : parent'[a] # a => Later(a)' \cap (Visited' \cup {cur}) = {}
    BY Zenon, <1>1, <2>2 DEF PathInv
  <2>6. PathInv(O)'
    BY Zenon, <1>1, <1>5, <1>6, <2>3, <2>4, <2>5 DEF PathInv
  <2>7. QED
    BY Zenon, <1>8, <2>6
<1>9. QED
  BY Zenon, <1>7, <1>8

(* A mount the walk has not met lies beside the way further on. *)
LEMMA PathAttached ==
  ASSUME WalkInv, NEW O \in SUBSET Mounts, PathInv(O), NEW m \in Mounts, NEW p \in Mounts,
         m \notin Visited \cup {cur},
         parent' = [parent EXCEPT ![m] = p], UNCHANGED <<cur, visited>>, changed'
  PROVE  PathInv(O)'
<1>0. parent \in [Mounts -> Mounts] /\ Visited' = Visited /\ Visited \subseteq Mounts
  BY DEF WalkInv, TreeInv, Visited
<1>1. /\ cur \in O /\ (\A a \in O : a <= cur /\ parent[a] \in O)
      /\ (\A a, b \in O : a < b => a <= parent[b])
      /\ O \subseteq Visited \cup {cur}
      /\ cur \notin Visited /\ Children(cur) \cap Visited = {}
      /\ \A x \in Visited : parent[x] \in Visited \cup {cur}
  BY Zenon DEF PathInv
<1>2. \A x \in Mounts : x # m => parent'[x] = parent[x]
  BY Zenon, <1>0
<1>3. \A a \in O : a # m /\ parent'[a] = parent[a]
  BY Zenon, <1>1, <1>2
<1>4. ASSUME NEW x \in Mounts PROVE Children(x)' \subseteq Children(x) \cup {m}
  BY Zenon, <1>2 DEF Children
<1>5. ASSUME NEW a \in O PROVE Later(a)' \subseteq Later(a) \cup {m}
  <2>1. parent'[a] = parent[a] /\ parent[a] \in Mounts
    BY Zenon, <1>0, <1>3
  <2>2. QED
    BY Zenon, <1>4, <2>1 DEF Later
<1>6. \A a \in O : parent'[a] # a => Later(a)' \cap (Visited' \cup {cur'}) = {}
  <2>1. \A a \in O : parent[a] # a => Later(a) \cap (Visited \cup {cur}) = {}
    BY Zenon DEF PathInv
  <2>2. QED
    BY <1>0, <1>3, <1>5, <2>1
<1>7. Children(cur)' \cap Visited' = {} /\ \A x \in Visited' : parent'[x] \in Visited' \cup {cur'}
  <2>1. cur \in Mounts /\ \A x \in Visited : x # m
    BY Zenon, <1>1
  <2>2. QED
    BY <1>0, <1>1, <1>2, <1>4, <2>1
<1>8. \A a \in O \ {cur} : a \in Visited' /\ \E b \in O \ {a} : parent'[b] = a
  BY Zenon, <1>0, <1>3 DEF PathInv
<1>9. QED
  BY Zenon, <1>0, <1>1, <1>3, <1>6, <1>7, <1>8 DEF PathInv

-----------------------------------------------------------------------------
(* A round of the walk adds cur to the mounts walked over. *)
LEMMA VisitsOne ==
  ASSUME WalkInv, walk = "walk", visited' = Append(visited, cur), UNCHANGED <<parent, changed>>
  PROVE  /\ visited' \in Seq(Mounts) /\ Visited' = Visited \cup {cur}
         /\ ~moved => MetOnce'
         /\ OrderInv'
<1>1. ~moved => \E O \in SUBSET Mounts : PathInv(O)
  BY Zenon DEF WalkInv
<1>2. visited \in Seq(Mounts) /\ cur \in Mounts /\ (~moved => MetOnce) /\ (moved => changed)
  BY Zenon DEF WalkInv
<1>3. /\ visited' \in Seq(Mounts) /\ Len(visited') = Len(visited) + 1 /\ Len(visited) \in Nat
      /\ visited'[Len(visited) + 1] = cur
      /\ \A i \in 1..Len(visited) : visited'[i] = visited[i]
  BY <1>2
<1>4. \A i \in 1..Len(visited') : i \in 1..Len(visited) \/ i = Len(visited) + 1
  BY <1>3
<1>5. Visited' = Visited \cup {cur}
  <2>1. \A i \in 1..Len(visited) : i \in 1..Len(visited')
    BY <1>3
  <2>2. Len(visited) + 1 \in 1..Len(visited')
    BY <1>3
  <2>3. Visited' = {visited'[i] : i \in 1..Len(visited')}
    BY Zenon DEF Visited
  <2>4. QED
    BY Zenon, <1>3, <1>4, <2>1, <2>2, <2>3 DEF Visited
<1>6. ~moved => cur \notin Visited
  BY Zenon, <1>1 DEF PathInv
<1>7. ASSUME ~moved PROVE MetOnce'
  <2>0. \A i, j \in 1..Len(visited) : visited[i] = visited[j] => i = j
    BY Zenon, <1>2, <1>7 DEF MetOnce
  <2>1. \A i \in 1..Len(visited) : visited'[i] \in Visited /\ visited'[i] # cur
    BY Zenon, <1>3, <1>6, <1>7 DEF Visited
  <2>2. ASSUME NEW i \in 1..Len(visited'), NEW j \in 1..Len(visited'), visited'[i] = visited'[j]
        PROVE  i = j
    <3>1. CASE i \in 1..Len(visited) /\ j \in 1..Len(visited)
      <4>1. visited[i] = visited[j]
        BY Zenon, <1>3, <2>2, <3>1
      <4>2. QED
        BY Zenon, <2>0, <3>1, <4>1
    <3>2. CASE i = Len(visited) + 1 \/ j = Len(visited) + 1
      <4>1. visited'[i] = cur /\ visited'[j] = cur
        BY Zenon, <1>3, <2>2, <3>2
      <4>2. QED
        BY Zenon, <1>4, <2>1, <4>1
    <3>3. QED
      BY Zenon, <1>4, <3>1, <3>2
  <2>3. QED
    BY Zenon, <2>2 DEF MetOnce
<1>8. OrderInv'
  <2> SUFFICES ASSUME ~changed, NEW i \in 1..Len(visited'), visited'[i] # 1
               PROVE  \E j \in 1..(i - 1) : visited'[j] = parent[visited'[i]]
    BY Zenon DEF OrderInv
  <2>0. PICK O \in SUBSET Mounts : PathInv(O)
    BY Zenon, <1>1, <1>2
  <2>1. CASE i \in 1..Len(visited)
    <3>1. PICK j \in 1..(i - 1) : visited[j] = parent[visited[i]]
      BY Zenon, <1>3, <2>1 DEF WalkInv, OrderInv
    <3>2. j \in 1..Len(visited)
      BY <1>3, <2>1, <3>1
    <3>3. QED
      BY Zenon, <1>3, <2>1, <3>1, <3>2
  <2>2. CASE i = Len(visited) + 1
    <3>1. visited'[i] = cur /\ cur # 1
      BY Zenon, <1>3, <2>2
    <3>2. parent[cur] # cur
      BY Zenon, <2>0, <3>1 DEF PathInv, InTree
    <3>3. parent[cur] \in Visited
      BY Zenon, <2>0, <3>2 DEF PathInv
    <3>4. PICK j \in 1..Len(visited) : visited[j] = parent[cur]
      BY Zenon, <3>3 DEF Visited
    <3>5. j \in 1..(i - 1)
      BY <1>3, <2>2, <3>4
    <3>6. QED
      BY Zenon, <1>3, <3>1, <3>4, <3>5
  <2>3. QED
    BY Zenon, <1>4, <2>1, <2>2
<1>9. QED
  BY Zenon, <1>3, <1>5, <1>7, <1>8

(* It lists a record unless the list has one of the type. *)
LEMMA ListsOne ==
  ASSUME WalkInv, walk = "walk", add_to_filesystem_record(cur, Len(visited) + 1),
         visited' = Append(visited, cur), walk' \in {"walk", "free"}, UNCHANGED fstype
  PROVE  ListedInv'
<1> DEFINE k == Len(visited) + 1
<1>0. visited \in Seq(Mounts) /\ cur \in Mounts
  BY Zenon DEF WalkInv
<1>1. /\ Len(visited) \in Nat /\ Len(visited') = k /\ k \in 1..Len(visited')
      /\ k \notin 1..Len(visited) /\ 1..Len(visited) \subseteq 1..Len(visited')
      /\ visited'[k] = cur /\ \A j \in 1..Len(visited) : visited'[j] = visited[j]
  BY <1>0
<1> DEFINE old(j) == fstype[visited[j]]
           new(j) == fstype'[visited'[j]]
<1>a. new(k) = fstype[cur] /\ \A j \in 1..Len(visited) : new(j) = old(j)
  BY Zenon, <1>1
<1>2. /\ mntList \in Seq(Nat) /\ \A i \in 1..Len(mntList) : mntList[i] \in mntLive
      /\ mntLive \cup noMem \subseteq 1..Len(visited) /\ mntLive \cap noMem = {}
      /\ \A i, j \in 1..Len(mntList) : old(mntList[i]) = old(mntList[j]) => i = j
      /\ \A m \in mntLive : \E i \in 1..Len(mntList) : old(mntList[i]) = old(m)
  BY Zenon DEF WalkInv, ListedInv, type
<1>b. SUFFICES
        /\ mntList' \in Seq(Nat) /\ \A i \in 1..Len(mntList') : mntList'[i] \in mntLive'
        /\ mntLive' \cup noMem' \subseteq 1..Len(visited') /\ mntLive' \cap noMem' = {}
        /\ \A i, j \in 1..Len(mntList') : new(mntList'[i]) = new(mntList'[j]) => i = j
        /\ \A m \in mntLive' : \E i \in 1..Len(mntList') : new(mntList'[i]) = new(m)
  BY Zenon DEF ListedInv, type
<1>c. /\ \A i \in 1..Len(mntList) : new(mntList[i]) = old(mntList[i])
      /\ \A m \in mntLive : new(m) = old(m)
  BY Zenon, <1>a, <1>2
<1> HIDE DEF old, new, k
<1>3. CASE noMem' = noMem \cup {k} /\ UNCHANGED <<mntLive, mntList>>
  <2>1. mntLive' \cap noMem' = {} /\ mntLive' \cup noMem' \subseteq 1..Len(visited')
    BY <1>1, <1>2, <1>3
  <2>2. QED
    BY <1>2, <1>3, <1>c, <2>1
<1>4. CASE /\ mntLive' = mntLive \cup {k} /\ UNCHANGED noMem
           /\ vfs_mount_point_compare(cur) /\ mntList' = mntList
  <2>1. mntLive' \cap noMem' = {} /\ mntLive' \cup noMem' \subseteq 1..Len(visited')
    BY <1>1, <1>2, <1>4
  <2>2. \E i \in 1..Len(mntList) : new(mntList[i]) = new(k)
    BY Zenon, <1>4, <1>a, <1>c DEF vfs_mount_point_compare, type, old
  <2>3. QED
    BY <1>2, <1>4, <1>c, <2>1, <2>2
<1>5. CASE /\ mntLive' = mntLive \cup {k} /\ UNCHANGED noMem
           /\ ~vfs_mount_point_compare(cur) /\ mntList' = Append(mntList, k)
  <2>1. /\ mntList' \in Seq(Nat) /\ Len(mntList') = Len(mntList) + 1 /\ Len(mntList) \in Nat
        /\ mntList'[Len(mntList) + 1] = k
        /\ \A i \in 1..Len(mntList) : mntList'[i] = mntList[i]
    BY <1>1, <1>2, <1>5
  <2>2. \A i \in 1..Len(mntList') : i \in 1..Len(mntList) \/ i = Len(mntList) + 1
    BY <2>1
  <2>3. mntLive' \cap noMem' = {} /\ mntLive' \cup noMem' \subseteq 1..Len(visited')
    BY <1>1, <1>2, <1>5
  <2>4. \A i \in 1..Len(mntList) : new(mntList[i]) # new(k)
    BY Zenon, <1>5, <1>a, <1>c DEF vfs_mount_point_compare, type, old
  <2>5. ASSUME NEW i \in 1..Len(mntList'), NEW j \in 1..Len(mntList'),
               new(mntList'[i]) = new(mntList'[j])
        PROVE  i = j
    <3>1. CASE i = Len(mntList) + 1 \/ j = Len(mntList) + 1
      BY Zenon, <2>1, <2>2, <2>4, <2>5, <3>1
    <3>2. CASE i \in 1..Len(mntList) /\ j \in 1..Len(mntList)
      <4>1. old(mntList[i]) = old(mntList[j])
        BY Zenon, <1>c, <2>1, <2>5, <3>2
      <4>2. QED
        BY Zenon, <1>2, <3>2, <4>1
    <3>3. QED
      BY Zenon, <2>2, <3>1, <3>2
  <2>6. ASSUME NEW m \in mntLive' PROVE \E i \in 1..Len(mntList') : new(mntList'[i]) = new(m)
    <3>1. CASE m = k
      <4>1. Len(mntList) + 1 \in 1..Len(mntList')
        BY <2>1
      <4>2. QED
        BY Zenon, <2>1, <3>1, <4>1
    <3>2. CASE m \in mntLive
      <4>1. PICK i \in 1..Len(mntList) : old(mntList[i]) = old(m)
        BY Zenon, <1>2, <3>2
      <4>2. i \in 1..Len(mntList') /\ mntList'[i] = mntList[i]
        BY <2>1
      <4>3. QED
        BY Zenon, <1>c, <3>2, <4>1, <4>2
    <3>3. QED
      BY Zenon, <1>5, <3>1, <3>2
  <2>7. \A i \in 1..Len(mntList') : mntList'[i] \in mntLive'
    BY Zenon, <1>2, <1>5, <2>1, <2>2
  <2>8. QED
    BY Zenon, <2>1, <2>3, <2>5, <2>6, <2>7
<1>6. QED
  BY Zenon, <1>3, <1>4, <1>5 DEF add_to_filesystem_record, k

(* A round of iterate_mount_point keeps the invariant. *)
LEMMA WalkRound ==
  ASSUME WalkInv, iterate_mount_point
  PROVE  WalkInv'
<1>0. /\ walk = "walk" /\ add_to_filesystem_record(cur, Len(visited) + 1)
      /\ visited' = Append(visited, cur) /\ UNCHANGED <<parent, fstype, changed, moved>>
  BY Zenon DEF iterate_mount_point
<1>2. /\ visited' \in Seq(Mounts) /\ Visited' = Visited \cup {cur} /\ OrderInv'
      /\ ~moved => MetOnce'
  BY Zenon, <1>0, VisitsOne
<1>3. TreeInv /\ TreeInv' /\ cur \in Mounts /\ (moved => changed)
  BY Zenon, <1>0 DEF WalkInv, TreeInv, InTree
<1>5. mntRefs = [m \in Mounts |-> IF m = cur THEN 1 ELSE 0]
  BY Zenon, <1>0 DEF WalkInv
<1>6. ASSUME NEW n \in Mounts, cur' = n, PutsAndGets(cur, n), UNCHANGED walk,
             ~moved => \E Q \in SUBSET Mounts : PathInv(Q)'
      PROVE  WalkInv'
  <2>1. mntRefs' = [m \in Mounts |-> IF m = n THEN 1 ELSE 0]
    BY <1>5, <1>6 DEF PutsAndGets
  <2>2. walk' = "walk" /\ ListedInv'
    BY Zenon, <1>0, <1>6, ListsOne
  <2>3. QED
    BY Zenon, <1>0, <1>2, <1>3, <1>6, <2>1, <2>2 DEF WalkInv
<1>7. CASE NextMount(cur) = {}
  <2>1. walk' = "free" /\ Puts(cur) /\ cur' = cur
    BY Zenon, <1>7 DEF iterate_mount_point
  <2>2. mntRefs' = [m \in Mounts |-> 0]
    BY <1>5, <2>1 DEF Puts
  <2>3. Children(cur) = {} /\ parent[climb[cur]] = climb[cur]
    BY Zenon, <1>7 DEF NextMount
  <2>4. ASSUME ~changed PROVE \A m \in Mounts : InTree(m) => m \in Visited \cup {cur}
    <3>0. PICK O \in SUBSET Mounts : PathInv(O)
      BY Zenon, <1>0, <1>3, <2>4 DEF WalkInv
    <3>1. LET c == climb[cur] IN
          /\ c \in O /\ (parent[c] = c \/ Later(c) # {})
          /\ \A b \in O : c < b => parent[b] # b /\ Later(b) = {}
      BY Zenon, <3>0, ClimbStops
    <3>2. climb[cur] = 1
      BY Zenon, <2>3, <2>4, <3>0, <3>1 DEF PathInv, InTree
    <3>3. ASSUME NEW b \in O, parent[b] # b PROVE Later(b) = {}
      <4>1. b \in Mounts /\ parent[1] = 1
        BY Zenon, <1>3 DEF TreeInv
      <4>2. 1 < b
        BY <3>3, <4>1, MountAssumption DEF Mounts
      <4>3. QED
        BY Zenon, <3>1, <3>2, <4>2
    <3>4. QED
      BY Zenon, <2>3, <2>4, <3>0, <3>3, WalkEnds
  <2>5. ~changed' => \A m \in Mounts : InTree(m)' => m \in Visited'
    BY Zenon, <1>0, <1>2, <2>4 DEF InTree
  <2>6. ListedInv'
    BY Zenon, <1>0, <2>1, ListsOne
  <2>7. mntRefs' = [m \in Mounts |-> IF walk' = "walk" /\ m = cur' THEN 1 ELSE 0]
    BY Zenon, <2>1, <2>2
  <2>8. QED
    BY Zenon, <1>0, <1>2, <1>3, <2>1, <2>5, <2>6, <2>7 DEF WalkInv
<1>8. CASE NextMount(cur) # {}
  <2>1. PICK n \in NextMount(cur) : cur' = n /\ PutsAndGets(cur, n) /\ UNCHANGED walk
    BY Zenon, <1>8 DEF iterate_mount_point
  <2>2. CASE Children(cur) # {}
    <3>1. n = First(Children(cur))
      BY Zenon, <2>1, <2>2 DEF NextMount
    <3>2. n \in Mounts
      <4>1. Children(cur) \in SUBSET Mounts
        BY Zenon DEF Children
      <4>2. QED
        BY Zenon, <2>2, <3>1, <4>1, FirstOf
    <3>3. ASSUME ~moved PROVE \E Q \in SUBSET Mounts : PathInv(Q)'
      <4>1. PICK O \in SUBSET Mounts : PathInv(O)
        BY Zenon, <1>0, <3>3 DEF WalkInv
      <4>2. PathInv(O \cup {n})'
        BY Zenon, <1>0, <1>2, <2>1, <2>2, <3>1, <3>2, <4>1, WalksDown
      <4>3. O \cup {n} \in SUBSET Mounts
        BY Zenon, <3>2
      <4>4. QED
        BY Zenon, <4>2, <4>3
    <3>4. QED
      BY Zenon, <1>6, <2>1, <3>2, <3>3
  <2>3. CASE Children(cur) = {}
    <3>1. parent[climb[cur]] # climb[cur] /\ n = First(Later(climb[cur]))
      BY Zenon, <2>1, <2>3 DEF NextMount
    <3>2. n \in Mounts
      <4>1. Later(climb[cur]) # {} /\ Later(climb[cur]) \in SUBSET Mounts
        BY Zenon, <1>3, <3>1, ClimbEnds DEF Later, Children
      <4>2. QED
        BY Zenon, <3>1, <4>1, FirstOf
    <3>3. ASSUME ~moved PROVE \E Q \in SUBSET Mounts : PathInv(Q)'
      <4>1. PICK O \in SUBSET Mounts : PathInv(O)
        BY Zenon, <1>0, <3>3 DEF WalkInv
      <4>2. LET c == climb[cur] IN
            /\ c \in O /\ (parent[c] = c \/ Later(c) # {})
            /\ \A b \in O : c < b => parent[b] # b /\ Later(b) = {}
        BY Zenon, <4>1, ClimbStops
      <4>3. PICK c \in O : c = climb[cur]
        BY Zenon, <4>2
      <4>4. parent[c] # c /\ Later(c) # {} /\ (\A b \in O : c < b => Later(b) = {}) /\ n = First(Later(c))
        BY Zenon, <3>1, <4>2, <4>3
      <4>5. PathInv({b \in O : b < c} \cup {n})'
        BY Zenon, <1>0, <1>2, <2>1, <2>3, <3>2, <4>1, <4>4, WalksAcross
      <4>6. {b \in O : b < c} \cup {n} \in SUBSET Mounts
        BY Zenon, <3>2
      <4>7. QED
        BY Zenon, <4>5, <4>6
    <3>4. QED
      BY Zenon, <1>6, <2>1, <3>2, <3>3
  <2>4. QED
    BY Zenon, <2>2, <2>3
<1>9. QED
  BY Zenon, <1>7, <1>8

(* Freeing the first record of the list: its type was listed once. *)
LEMMA FreesOne ==
  ASSUME WalkInv, walk = "free", mntList # <<>>,
         mntLive' = mntLive \ {Head(mntList)}, mntList' = Tail(mntList),
         UNCHANGED <<walk, fstype, visited, noMem>>
  PROVE  ListedInv'
<1> DEFINE ty(k) == fstype[visited[k]]
<1>1. /\ mntList \in Seq(Nat) /\ \A i \in 1..Len(mntList) : mntList[i] \in mntLive
      /\ mntLive \cup noMem \subseteq 1..Len(visited) /\ mntLive \cap noMem = {}
      /\ \A i, j \in 1..Len(mntList) : ty(mntList[i]) = ty(mntList[j]) => i = j
      /\ \A k \in mntLive :
            \/ \E i \in 1..Len(mntList) : ty(mntList[i]) = ty(k)
            \/ \E j \in 1..Len(visited) : j \notin mntLive \cup noMem /\ ty(j) = ty(k)
  BY Zenon DEF WalkInv, ListedInv, type
<1>2. SUFFICES
        /\ mntList' \in Seq(Nat) /\ \A i \in 1..Len(mntList') : mntList'[i] \in mntLive'
        /\ mntLive' \cup noMem \subseteq 1..Len(visited) /\ mntLive' \cap noMem = {}
        /\ \A i, j \in 1..Len(mntList') : ty(mntList'[i]) = ty(mntList'[j]) => i = j
        /\ \A k \in mntLive' :
              \/ \E i \in 1..Len(mntList') : ty(mntList'[i]) = ty(k)
              \/ \E j \in 1..Len(visited) : j \notin mntLive' \cup noMem /\ ty(j) = ty(k)
  BY Zenon DEF ListedInv, type
<1> HIDE DEF ty
<1>3. Len(mntList) \in Nat \ {0} /\ 1 \in 1..Len(mntList) /\ Head(mntList) = mntList[1]
  BY <1>1
<1>4. /\ Len(mntList') = Len(mntList) - 1
      /\ \A i \in 1..Len(mntList') : i + 1 \in 1..Len(mntList) /\ mntList'[i] = mntList[i + 1]
  BY <1>1, <1>3
<1>5. \A i \in 1..Len(mntList) : i # 1 => mntList[i] # mntList[1]
  BY Zenon, <1>1, <1>3
<1>6. mntList' \in Seq(Nat) /\ \A i \in 1..Len(mntList') : mntList'[i] \in mntLive'
  <2>1. ASSUME NEW i \in 1..Len(mntList') PROVE mntList'[i] \in mntLive'
    <3>1. i + 1 \in 1..Len(mntList) /\ i + 1 # 1 /\ mntList'[i] = mntList[i + 1]
      BY <1>4
    <3>2. mntList[i + 1] \in mntLive /\ mntList[i + 1] # mntList[1]
      BY Zenon, <1>1, <1>5, <3>1
    <3>3. QED
      BY Zenon, <1>3, <3>1, <3>2
  <2>2. mntList' \in Seq(Nat)
    BY <1>1
  <2>3. QED
    BY Zenon, <2>1, <2>2
<1>7. ASSUME NEW i \in 1..Len(mntList'), NEW j \in 1..Len(mntList'),
             ty(mntList'[i]) = ty(mntList'[j])
      PROVE  i = j
  <2>1. i + 1 \in 1..Len(mntList) /\ j + 1 \in 1..Len(mntList)
        /\ ty(mntList[i + 1]) = ty(mntList[j + 1])
    BY Zenon, <1>4, <1>7
  <2>2. i + 1 = j + 1
    BY Zenon, <1>1, <2>1
  <2>3. QED
    BY <2>2
<1>8. mntList[1] \in 1..Len(visited) /\ mntList[1] \notin mntLive' \cup noMem
  BY Zenon, <1>1, <1>3
<1>9. ASSUME NEW k \in mntLive'
      PROVE  \/ \E i \in 1..Len(mntList') : ty(mntList'[i]) = ty(k)
             \/ \E j \in 1..Len(visited) : j \notin mntLive' \cup noMem /\ ty(j) = ty(k)
  <2>1. k \in mntLive
    OBVIOUS
  <2>2. CASE \E j \in 1..Len(visited) : j \notin mntLive \cup noMem /\ ty(j) = ty(k)
    BY Zenon, <2>2
  <2>3. ASSUME NEW i \in 1..Len(mntList), ty(mntList[i]) = ty(k)
        PROVE  \/ \E h \in 1..Len(mntList') : ty(mntList'[h]) = ty(k)
               \/ \E j \in 1..Len(visited) : j \notin mntLive' \cup noMem /\ ty(j) = ty(k)
    <3>1. CASE i = 1
      BY Zenon, <1>8, <2>3, <3>1
    <3>2. CASE i # 1
      <4>1. i - 1 \in 1..Len(mntList') /\ (i - 1) + 1 = i
        BY <1>3, <1>4, <3>2
      <4>2. mntList'[i - 1] = mntList[i]
        BY Zenon, <1>4, <4>1
      <4>3. QED
        BY Zenon, <2>3, <4>1, <4>2
    <3>3. QED
      BY Zenon, <3>1, <3>2
  <2>4. QED
    BY Zenon, <1>1, <2>1, <2>2, <2>3
<1>10. QED
  BY Zenon, <1>1, <1>6, <1>7, <1>9

(* What a step that moves neither the tree nor the walk leaves alone. *)
LEMMA WalkFrame ==
  ASSUME WalkInv, UNCHANGED <<parent, visited, changed>>
  PROVE  /\ TreeInv /\ OrderInv /\ TreeInv' /\ OrderInv' /\ Visited' = Visited
         /\ \A m : InTree(m)' = InTree(m)
<1>1. TreeInv /\ OrderInv
  BY Zenon DEF WalkInv
<1>2. TreeInv' /\ \A m : InTree(m)' = InTree(m)
  BY Zenon, <1>1 DEF TreeInv, InTree
<1>3. OrderInv'
  BY Zenon, <1>1 DEF OrderInv
<1>4. Visited' = Visited
  BY Zenon DEF Visited
<1>5. QED
  BY Zenon, <1>1, <1>2, <1>3, <1>4

(* The records, the mounts met and the references, after a step that      *)
(* changes none of them.                                                  *)
LEMMA RecordsFrame ==
  ASSUME WalkInv, UNCHANGED <<fstype, visited, mntList, mntLive, noMem>>,
         walk' = walk \/ walk' = "undefined"
  PROVE  ListedInv' /\ visited' \in Seq(Mounts) /\ (~moved => MetOnce')
<1>1. ListedInv /\ visited \in Seq(Mounts) /\ (~moved => MetOnce)
  BY Zenon DEF WalkInv
<1>2. ListedInv'
  BY Zenon, <1>1 DEF ListedInv, type
<1>3. QED
  BY Zenon, <1>1, <1>2 DEF MetOnce

(* Until the tree changes, what the walk has met is in it. *)
LEMMA MetInTree ==
  ASSUME WalkInv, ~changed, NEW k \in 1..Len(visited)
  PROVE  InTree(visited[k])
<1>1. MetOnce /\ OrderInv /\ visited \in Seq(Mounts)
  BY Zenon DEF WalkInv
<1>2. SUFFICES ASSUME visited[k] # 1, parent[visited[k]] = visited[k] PROVE FALSE
  BY Zenon DEF InTree
<1>3. PICK j \in 1..(k - 1) : visited[j] = visited[k]
  BY Zenon, <1>1, <1>2 DEF OrderInv
<1>4. j \in 1..Len(visited) /\ j # k
  BY <1>1, <1>3
<1>5. QED
  BY Zenon, <1>1, <1>3, <1>4 DEF MetOnce

(* The other steps of the module keep the invariant. *)
LEMMA WalkRest ==
  ASSUME WalkInv, get_root_mount_point \/ FreesRecord \/ ReadsGone
  PROVE  WalkInv'
<1>1. CASE get_root_mount_point
  <2>0. /\ walk \in {"start", "climb"} /\ visited = <<>> /\ (~changed => InTree(cur))
        /\ cur \in Mounts /\ (moved => changed)
        /\ UNCHANGED <<parent, fstype, visited, mntList, mntLive, noMem, changed, moved>>
    BY Zenon, <1>1 DEF get_root_mount_point, records, WalkInv
  <2>1. /\ TreeInv' /\ TreeInv /\ OrderInv' /\ Visited = {} /\ Visited' = {}
        /\ \A m : InTree(m)' = InTree(m)
    <3>1. Visited = {}
      BY <2>0 DEF Visited
    <3>2. QED
      BY Zenon, <2>0, <3>1, WalkFrame
  <2>2. mntRefs = [m \in Mounts |-> 0]
    BY Zenon, <2>0 DEF WalkInv
  <2>3. mntList \in Seq(Nat) /\ (\A i \in 1..Len(mntList) : mntList[i] \in mntLive)
        /\ mntLive = {} /\ noMem = {} /\ 1..Len(mntList) = {}
    <3>1. ListedInv /\ 1..Len(visited) = {}
      BY <2>0 DEF WalkInv
    <3>2. mntLive = {} /\ noMem = {}
      BY Zenon, <3>1 DEF ListedInv
    <3>3. QED
      BY Zenon, <3>1, <3>2 DEF ListedInv
  <2>4. ListedInv' /\ MetOnce' /\ visited' = <<>> /\ visited' \in Seq(Mounts)
    <3>1. visited' = <<>> /\ 1..Len(visited') = {}
      BY <2>0
    <3>2. QED
      BY <2>0, <2>3, <3>1 DEF ListedInv, MetOnce
  <2>5. CASE cur' = parent[cur] /\ parent[cur] # cur /\ walk' = "climb" /\ UNCHANGED mntRefs
    <3>1. cur' \in Mounts /\ (~changed' => InTree(cur)')
      BY Zenon, <2>0, <2>1, <2>5 DEF TreeInv, InTree
    <3>2. mntRefs' = [m \in Mounts |-> IF walk' = "walk" /\ m = cur' THEN 1 ELSE 0]
      BY Zenon, <2>2, <2>5
    <3>3. QED
      BY Zenon, <2>0, <2>1, <2>4, <2>5, <3>1, <3>2 DEF WalkInv
  <2>6. CASE parent[cur] = cur /\ walk' = "walk" /\ Gets(cur) /\ UNCHANGED cur
    <3>1. mntRefs' = [m \in Mounts |-> IF m = cur THEN 1 ELSE 0]
      <4>1. mntRefs' = [mntRefs EXCEPT ![cur] = @ + 1]
        BY Zenon, <2>6 DEF Gets
      <4>2. mntRefs[cur] = 0
        BY Zenon, <2>0, <2>2
      <4>3. mntRefs' = [mntRefs EXCEPT ![cur] = 1]
        BY <4>1, <4>2
      <4>4. QED
        BY Zenon, <2>2, <4>3
    <3>2. ~changed' => cur' = 1 /\ InTree(cur)'
      BY Zenon, <2>0, <2>1, <2>6 DEF InTree
    <3>3. PathInv({cur})'
      <4>1. cur' = cur /\ parent'[cur] = cur /\ Visited' = {} /\ cur \in Nat
        BY <2>0, <2>1, <2>6, MountAssumption DEF Mounts
      <4>2. QED
        BY <3>2, <4>1 DEF PathInv
    <3>4. \E O \in SUBSET Mounts : PathInv(O)'
      <4>1. {cur'} \in SUBSET Mounts
        BY Zenon, <2>0, <2>6
      <4>2. QED
        BY Zenon, <3>3, <4>1
    <3>5. mntRefs' = [m \in Mounts |-> IF walk' = "walk" /\ m = cur' THEN 1 ELSE 0]
      BY Zenon, <2>6, <3>1
    <3>6. QED
      BY Zenon, <2>0, <2>1, <2>4, <2>6, <3>4, <3>5 DEF WalkInv
  <2>7. QED
    BY Zenon, <1>1, <2>5, <2>6 DEF get_root_mount_point
<1>2. CASE FreesRecord
  <2>0. walk = "free" /\ UNCHANGED <<parent, fstype, cur, mntRefs, visited, noMem, changed, moved>>
    BY Zenon, <1>2 DEF FreesRecord
  <2>1. TreeInv' /\ OrderInv' /\ Visited' = Visited /\ \A m : InTree(m)' = InTree(m)
    BY Zenon, <2>0, WalkFrame
  <2>a. /\ cur' \in Mounts /\ visited' \in Seq(Mounts) /\ (moved' => changed')
        /\ ~changed' => \A m \in Mounts : InTree(m)' => m \in Visited'
        /\ ~moved' => MetOnce'
        /\ mntRefs' = [m \in Mounts |-> 0]
    BY <2>0, <2>1 DEF WalkInv, MetOnce
  <2>2. CASE mntList # <<>>
    <3>1. mntLive' = mntLive \ {Head(mntList)} /\ mntList' = Tail(mntList) /\ UNCHANGED walk
      BY Zenon, <1>2, <2>2 DEF FreesRecord
    <3>2. ListedInv'
      BY Zenon, <2>0, <2>2, <3>1, FreesOne
    <3>3. walk' = "free"
      BY Zenon, <2>0, <3>1
    <3>4. QED
      BY Zenon, <2>1, <2>a, <3>2, <3>3 DEF WalkInv
  <2>3. CASE mntList = <<>>
    <3>1. walk' = "done" /\ UNCHANGED <<mntLive, mntList>>
      BY Zenon, <1>2, <2>3 DEF FreesRecord
    <3>2. ListedInv'
      <4>1. ListedInv
        BY Zenon DEF WalkInv
      <4>2. UNCHANGED <<fstype, visited, mntList, mntLive, noMem>> /\ walk # "walk" /\ walk' # "walk"
        BY Zenon, <2>0, <3>1
      <4>3. QED
        BY Zenon, <4>1, <4>2 DEF ListedInv, type
    <3>3. walk' = "done" /\ mntList' = <<>>
      BY Zenon, <2>3, <3>1
    <3>4. QED
      BY Zenon, <2>1, <2>a, <3>2, <3>3 DEF WalkInv
  <2>4. QED
    BY Zenon, <2>2, <2>3
<1>3. CASE ReadsGone
  <2>0. /\ walk' = "undefined"
        /\ UNCHANGED <<parent, fstype, cur, mntRefs, visited, mntList, mntLive, noMem, changed, moved>>
    BY Zenon, <1>3 DEF ReadsGone, records
  <2>1. TreeInv' /\ OrderInv'
    BY Zenon, <2>0, WalkFrame
  <2>2. ListedInv' /\ visited' \in Seq(Mounts) /\ (~moved' => MetOnce')
    BY Zenon, <2>0, RecordsFrame
  <2>3. changed
    <3>1. SUFFICES ASSUME ~changed PROVE FALSE
      OBVIOUS
    <3>2. CASE walk = "climb" /\ Gone(cur)
      BY Zenon, <3>1, <3>2 DEF WalkInv, Gone
    <3>3. ASSUME walk \in {"walk", "free"}, NEW i \in 1..Len(mntList), Gone(visited[mntList[i]])
          PROVE  FALSE
      <4>1. mntList[i] \in 1..Len(visited)
        BY Zenon, <3>3 DEF WalkInv, ListedInv
      <4>2. InTree(visited[mntList[i]])
        BY Zenon, <3>1, <3>3, <4>1, MetInTree
      <4>3. QED
        BY Zenon, <3>3, <4>2 DEF Gone
    <3>4. QED
      BY Zenon, <1>3, <3>2, <3>3 DEF ReadsGone
  <2>4. cur' \in Mounts /\ (moved' => changed')
    BY Zenon, <2>0 DEF WalkInv
  <2>5. QED
    BY Zenon, <2>0, <2>1, <2>2, <2>3, <2>4 DEF WalkInv
<1>4. QED
  BY Zenon, <1>1, <1>2, <1>3

(* A change of the tree keeps it. *)
LEMMA ChangesKeep ==
  ASSUME WalkInv, NEW m \in Mounts, NEW p \in Mounts, m # 1, p <= m, Changes(m, p),
         moved' => changed', moved => moved',
         walk = "walk" /\ ~moved' => \E O \in SUBSET Mounts : PathInv(O)'
  PROVE  WalkInv'
<1>0. /\ walk \in {"start", "climb", "walk", "free"} /\ changed'
      /\ parent' = [parent EXCEPT ![m] = p]
      /\ UNCHANGED <<walk, fstype, cur, mntRefs, visited, mntList, mntLive, noMem>>
  BY Zenon DEF Changes, records
<1>1. TreeInv'
  <2>1. TreeInv
    BY Zenon DEF WalkInv
  <2>2. \A x \in Mounts : x \in Nat
    BY MountAssumption DEF Mounts
  <2>3. 1 \in Mounts /\ parent' \in [Mounts -> Mounts] /\ parent'[1] = 1
    BY <1>0, <2>1, MountAssumption DEF TreeInv, Mounts
  <2>4. \A x \in Mounts : parent'[x] <= x
    BY Zenon, <1>0, <2>1, <2>2 DEF TreeInv
  <2>5. QED
    BY Zenon, <1>0, <2>3, <2>4 DEF TreeInv
<1>2. OrderInv'
  BY Zenon, <1>0 DEF OrderInv
<1>3. ListedInv' /\ visited' \in Seq(Mounts) /\ (~moved' => MetOnce')
  BY Zenon, <1>0, RecordsFrame
<1>4. /\ cur' \in Mounts /\ walk' \in {"start", "climb", "walk", "free"}
      /\ walk' \in {"start", "climb"} => visited' = <<>>
      /\ mntRefs' = [x \in Mounts |-> IF walk' = "walk" /\ x = cur' THEN 1 ELSE 0]
  BY Zenon, <1>0 DEF WalkInv
<1>5. walk' = "walk" /\ ~moved' => \E O \in SUBSET Mounts : PathInv(O)'
  BY Zenon, <1>0
<1>6. QED
  BY Zenon, <1>0, <1>1, <1>2, <1>3, <1>4, <1>5 DEF WalkInv

(* Each of the changes is one of those. *)
LEMMA TreeChanges ==
  ASSUME WalkInv, NEW m \in Mounts, NEW p \in Mounts, Detach(m) \/ Attach(m, p) \/ Moves(m, p)
  PROVE  WalkInv'
<1>0. /\ \A x \in Mounts : x \in Nat /\ parent[x] \in Mounts /\ parent[x] <= x
      /\ cur \in Mounts
  BY Zenon, WalkTypes
<1>1. /\ walk = "walk" /\ ~moved => \E O \in SUBSET Mounts : PathInv(O)
      /\ parent[1] = 1 /\ visited \in Seq(Mounts)
  BY Zenon DEF WalkInv, TreeInv
<1>2. CASE Detach(m)
  <2>0. /\ m # 1 /\ Children(m) = {} /\ Changes(m, m) /\ UNCHANGED moved
        /\ changed' /\ parent' = [parent EXCEPT ![m] = m] /\ UNCHANGED <<cur, visited>>
    BY Zenon, <1>2 DEF Detach, Changes
  <2>1. ASSUME walk = "walk", ~moved' PROVE \E O \in SUBSET Mounts : PathInv(O)'
    <3>1. PICK O \in SUBSET Mounts : PathInv(O)
      BY Zenon, <1>1, <2>0, <2>1
    <3>2. PathInv(IF m = cur THEN {cur} ELSE O)'
      BY Zenon, <2>0, <3>1, PathDetached
    <3>3. (IF m = cur THEN {cur} ELSE O) \in SUBSET Mounts
      OBVIOUS
    <3>4. QED
      BY Zenon, <3>2, <3>3
  <2>2. QED
    BY <1>0, <2>0, <2>1, ChangesKeep
<1>3. CASE Attach(m, p)
  <2>0. /\ m # 1 /\ m # cur /\ (\A i \in 1..Len(visited) : visited[i] # m) /\ p < m
        /\ Changes(m, p) /\ UNCHANGED moved
        /\ changed' /\ parent' = [parent EXCEPT ![m] = p] /\ UNCHANGED <<cur, visited>>
    BY Zenon, <1>3 DEF Attach, Fits, Changes, InTree
  <2>1. ASSUME walk = "walk", ~moved' PROVE \E O \in SUBSET Mounts : PathInv(O)'
    <3>1. PICK O \in SUBSET Mounts : PathInv(O)
      BY Zenon, <1>1, <2>0, <2>1
    <3>2. m \notin Visited \cup {cur}
      BY Zenon, <2>0 DEF Visited
    <3>3. QED
      BY Zenon, <2>0, <3>1, <3>2, PathAttached
  <2>2. p <= m
    BY <1>0, <2>0
  <2>3. QED
    BY Zenon, <2>0, <2>1, <2>2, ChangesKeep
<1>4. CASE Moves(m, p)
  <2>0. parent[m] # m /\ p < m /\ Changes(m, p) /\ moved' /\ changed'
    BY Zenon, <1>4 DEF Moves, Fits, Changes
  <2>1. m # 1 /\ p <= m
    BY <1>0, <1>1, <2>0
  <2>2. QED
    BY Zenon, <2>0, <2>1, ChangesKeep
<1>5. QED
  BY Zenon, <1>2, <1>3, <1>4

(* The walk keeps its invariant, and the invariant gives what Walked says. *)
LEMMA WalkKeeps ==
  /\ MountInit => WalkInv
  /\ WalkInv /\ [MountNext]_mountVars => WalkInv'
  /\ WalkInv => Walked
<1>1. ASSUME MountInit PROVE WalkInv
  <2>0. /\ walk = "start" /\ cur \in Mounts /\ InTree(cur) /\ visited = <<>> /\ mntList = <<>>
        /\ mntLive = {} /\ noMem = {} /\ changed = FALSE /\ moved = FALSE
        /\ mntRefs = [m \in Mounts |-> 0]
    BY Zenon, <1>1 DEF MountInit
  <2>1. TreeInv
    <3>1. /\ parent \in [Mounts -> Mounts]
          /\ \A m \in Mounts : parent[m] <= m
                                /\ (parent[m] # m => parent[m] = 1 \/ parent[parent[m]] # parent[m])
      BY Zenon, <1>1 DEF MountInit, Trees
    <3>2. parent[1] = 1
      BY <3>1, MountAssumption DEF Mounts
    <3>3. QED
      BY Zenon, <3>1, <3>2 DEF TreeInv, InTree
  <2>2. OrderInv /\ ListedInv /\ MetOnce
    BY <2>0 DEF OrderInv, ListedInv, MetOnce
  <2>3. QED
    BY <2>0, <2>1, <2>2 DEF WalkInv
<1>2. ASSUME WalkInv, [MountNext]_mountVars PROVE WalkInv'
  <2>1. CASE UNCHANGED mountVars
    <3>0. UNCHANGED <<walk, parent, fstype, cur, mntRefs, visited, mntList, mntLive, noMem, changed, moved>>
      BY Zenon, <2>1 DEF mountVars
    <3>1. Visited' = Visited /\ TreeInv' /\ OrderInv' /\ \A m : InTree(m)' = InTree(m)
      BY Zenon, <1>2, <3>0, WalkFrame
    <3>2. ListedInv' /\ (~moved' => MetOnce')
      BY Zenon, <1>2, <3>0, RecordsFrame
    <3>3. ASSUME NEW O \in SUBSET Mounts, PathInv(O) PROVE PathInv(O)'
      <4>1. \A m : Later(m)' = Later(m) /\ Children(m)' = Children(m)
        BY Zenon, <3>0 DEF Later, Children
      <4>2. QED
        BY Zenon, <3>0, <3>1, <3>3, <4>1 DEF PathInv
    <3>4. QED
      BY Zenon, <1>2, <3>0, <3>1, <3>2, <3>3 DEF WalkInv
  <2>2. CASE iterate_mount_point
    BY Zenon, <1>2, <2>2, WalkRound
  <2>3. CASE get_root_mount_point \/ FreesRecord \/ ReadsGone
    BY Zenon, <1>2, <2>3, WalkRest
  <2>4. ASSUME NEW m \in Mounts, NEW p \in Mounts, Detach(m) \/ Attach(m, p) \/ Moves(m, p)
        PROVE  WalkInv'
    BY Zenon, <1>2, <2>4, TreeChanges
  <2>5. QED
    BY Zenon, <1>2, <2>1, <2>2, <2>3, <2>4 DEF MountNext
<1>3. ASSUME WalkInv PROVE Walked
  <2>1. /\ ~moved => \A i, j \in 1..Len(visited) : visited[i] = visited[j] => i = j
        /\ walk = "undefined" => changed
        /\ \A i, j \in 1..Len(mntList) : type(mntList[i]) = type(mntList[j]) => i = j
    BY Zenon, <1>3 DEF WalkInv, ListedInv, MetOnce
  <2>a. walk # "undefined" =>
          \A m \in Mounts : mntRefs[m] = (IF walk = "walk" /\ m = cur THEN 1 ELSE 0)
    BY Zenon, <1>3 DEF WalkInv
  <2>2. ASSUME walk \in {"free", "done"}, ~changed, NEW m \in Mounts, InTree(m)
        PROVE  \E i \in 1..Len(visited) :
                 visited[i] = m /\ (m # 1 => \E j \in 1..(i - 1) : visited[j] = parent[m])
    <3>0. m \in Visited /\ OrderInv
      BY Zenon, <1>3, <2>2 DEF WalkInv
    <3>1. PICK i \in 1..Len(visited) : visited[i] = m
      BY Zenon, <3>0 DEF Visited
    <3>2. m # 1 => \E j \in 1..(i - 1) : visited[j] = parent[m]
      BY Zenon, <2>2, <3>0, <3>1 DEF OrderInv
    <3>3. QED
      BY Zenon, <3>1, <3>2
  <2>3. ASSUME walk = "done", NEW k \in mntLive
        PROVE  \E j \in 1..Len(visited) : j \notin mntLive \cup noMem /\ type(j) = type(k)
    <3>1. 1..Len(mntList) = {}
      BY <1>3, <2>3 DEF WalkInv
    <3>2. QED
      BY Zenon, <1>3, <2>3, <3>1 DEF WalkInv, ListedInv
  <2>4. QED
    BY Zenon, <2>1, <2>a, <2>2, <2>3 DEF Walked
<1>4. QED
  BY Zenon, <1>1, <1>2, <1>3

-----------------------------------------------------------------------------
(* rmmod_code.c: where the program is, the list and the exit code. *)
RmInv ==
  /\ rmStep \in {"open", "scan", "close", "delete", "exited", "undefined"}
  /\ rmStep = "open" => rmList = FALSE /\ rmRefs = 0
  /\ rmStep = "delete" => rmList = FALSE /\ rmRefs = 0
  /\ rmStep = "exited" => rmList = FALSE /\ rmExit \in {0, 1}
  /\ rmStep # "exited" => rmExit = -1
  /\ rmExit = 0 => rmUses = -1

(* The invariant of rmmod_code.c is inductive and says what is promised. *)
LEMMA RmmodKeeps ==
  /\ RmmodInit => RmInv
  /\ RmInv /\ [RmmodNext]_rmVars => RmInv'
  /\ RmInv => RemovalIsChecked
<1>1. RmmodInit => RmInv
  BY DEF RmmodInit, RmInv
<1>2. RmInv => RemovalIsChecked
  BY Zenon DEF RmInv, RemovalIsChecked
<1>3. ASSUME RmInv, [RmmodNext]_rmVars PROVE RmInv'
  <2>1. CASE OpensList
    BY Zenon, <1>3, <2>1 DEF RmInv, OpensList
  <2>2. CASE ScansList
    <3>1. rmExit = -1 /\ rmUses' = rmUses
      BY Zenon, <1>3, <2>2 DEF RmInv, ScansList
    <3>2. \/ rmStep' \in {"close", "undefined"} /\ rmExit' = rmExit
          \/ rmStep' = "exited" /\ rmExit' = 1 /\ rmList' = FALSE
      BY Zenon, <2>2 DEF ScansList, Exits
    <3>3. QED
      BY <3>1, <3>2 DEF RmInv
  <2>3. CASE check_usage
    <3>1. rmExit = -1 /\ rmUses' = rmUses /\ rmRefs' = rmRefs
      BY Zenon, <1>3, <2>3 DEF RmInv, check_usage
    <3>2. \/ rmRefs = 0 /\ rmStep' = "delete" /\ rmList' = FALSE /\ rmExit' = rmExit
          \/ rmStep' = "exited" /\ rmExit' = 1 /\ rmList' = FALSE
      BY Zenon, <2>3 DEF check_usage, Exits
    <3>3. QED
      BY <3>1, <3>2 DEF RmInv
  <2>4. CASE rmmod
    BY <1>3, <2>4 DEF RmInv, rmmod, Exits
  <2>5. CASE UsesChange
    BY <1>3, <2>5 DEF RmInv, UsesChange
  <2>6. CASE UNCHANGED rmVars
    BY Zenon, <1>3, <2>6 DEF RmInv, rmVars
  <2>7. QED
    BY Zenon, <1>3, <2>1, <2>2, <2>3, <2>4, <2>5, <2>6 DEF RmmodNext
<1>4. QED
  BY Zenon, <1>1, <1>2, <1>3

-----------------------------------------------------------------------------
(* createfd.c: the descriptor and the references at every place. *)
FdInv ==
  /\ fdKernel \in {"old", "new"}
  /\ fdStep \in {"start", "reserve", "open", "close", "done", "oops"}
  /\ fdFile \in {"none", "open", "error"}
  /\ fdStep = "start" => fdSlot = "free" /\ fdResult = 0 /\ fdRefs = 0 /\ fdFile = "none"
  /\ fdStep = "reserve" => /\ fdSlot = "free" /\ fdResult = 0
                           /\ fdRefs = IF fdFile = "open" THEN 1 ELSE 0
  /\ fdStep = "open" => fdSlot = "reserved" /\ fdResult = 0 /\ fdRefs = 1 /\ fdFile = "open"
  /\ fdStep = "close" =>
       \/ fdResult = -1 /\ fdSlot = "free" /\ fdRefs = IF fdFile = "open" THEN 1 ELSE 0
       \/ fdResult = 1 /\ fdFile = "open" /\ fdRefs = IF fdKernel = "old" THEN 2 ELSE 3
       \/ /\ fdResult \in {-1, -2} /\ fdSlot = "free" /\ fdFile = "open"
          /\ fdRefs = IF fdKernel = "old" THEN 1 ELSE 2
  /\ FdGivenBack

(* The invariant of createfd.c is inductive. *)
LEMMA FdKeeps ==
  /\ FdInit => FdInv
  /\ FdInv /\ [FdNext]_fdVars => FdInv'
<1>1. FdInit => FdInv
  BY Zenon DEF FdInit, FdInv, FdGivenBack
<1>2. ASSUME FdInv, [FdNext]_fdVars PROVE FdInv'
  <2>1. CASE OpensProc
    BY Zenon, <1>2, <2>1 DEF FdInv, OpensProc, FdGivenBack
  <2>2. CASE get_unused_fd
    BY Zenon, <1>2, <2>2 DEF FdInv, get_unused_fd, FdGivenBack
  <2>3. CASE create_fd
    <3>1. /\ fdSlot = "reserved" /\ fdRefs = 1 /\ fdFile = "open" /\ fdKernel \in {"old", "new"}
          /\ fdStep' = "close" /\ fdKernel' = fdKernel /\ fdFile' = fdFile
      BY Zenon, <1>2, <2>3 DEF FdInv, create_fd
    <3>2. \/ fdResult' = 1 /\ fdRefs' = IF fdKernel = "old" THEN 2 ELSE 3
          \/ /\ fdResult' \in {-1, -2} /\ fdSlot' = "free"
             /\ fdRefs' = IF fdKernel = "old" THEN 1 ELSE 2
      BY <2>3, <3>1 DEF create_fd
    <3>3. QED
      BY Zenon, <3>1, <3>2 DEF FdInv, FdGivenBack
  <2>4. CASE ClosesFd
    <3>1. /\ fdKernel \in {"old", "new"} /\ fdFile \in {"none", "open", "error"}
          /\ fdStep' = "done" /\ UNCHANGED <<fdKernel, fdFile>>
      BY Zenon, <1>2, <2>4 DEF FdInv, ClosesFd
    <3>2. /\ fdSlot' = "free" /\ fdRefs' <= 2
          /\ fdKernel = "old" => fdRefs' = (IF fdFile = "open" THEN 1 ELSE 0)
      BY <1>2, <2>4 DEF FdInv, ClosesFd
    <3>3. QED
      BY Zenon, <3>1, <3>2 DEF FdInv, FdGivenBack
  <2>5. CASE UNCHANGED fdVars
    BY Zenon, <1>2, <2>5 DEF FdInv, fdVars, FdGivenBack
  <2>6. QED
    BY Zenon, <1>2, <2>1, <2>2, <2>3, <2>4, <2>5 DEF FdNext
<1>3. QED
  BY Zenon, <1>1, <1>2

-----------------------------------------------------------------------------
(* The modules with one thread: what is left when, and who may stop it. *)
ThreadInv ==
  /\ threadModule \in {"out", "live", "join", "gone", "oops"}
  /\ threadStep \in {"none", "new", "alloc", "file", "check", "done", "oops"}
  /\ threadModule = "out" => threadStep = "none"
  /\ threadModule \in {"out", "live", "oops"} => threadStop = FALSE
  /\ threadModule # "out" => MyThread \in {"task", "error"}
  /\ threadStep = "done" => threadStop = TRUE /\ mydata # "live"
  /\ threadStep \in {"none", "new", "alloc"} => mydata # "live"
  /\ threadStep \in {"file", "check"} => mydata = "live"
  /\ threadModule = "oops" => MyThread = "error" \/ threadStep = "oops"
  /\ pidRefs \in 0..2
  /\ threadModule = "out" => pidRefs = 0
  /\ threadStep \in {"none", "new", "alloc"} => pidRefs <= 1

(* The invariant of the three modules is inductive and says what is promised. *)
LEMMA ThreadKeepsInv ==
  /\ ThreadInit => ThreadInv
  /\ ThreadInv /\ [ThreadNext]_threadVars => ThreadInv'
  /\ ThreadInv => ThreadEnds
<1>1. ThreadInit => ThreadInv
  BY DEF ThreadInit, ThreadInv
<1>2. ThreadInv => ThreadEnds
  BY DEF ThreadInv, ThreadEnds
<1>3. ASSUME ThreadInv, [ThreadNext]_threadVars PROVE ThreadInv'
  <2>1. CASE init_kthread
    <3>1. /\ threadModule = "out" /\ threadStep = "none" /\ threadStop = FALSE /\ mydata # "live"
          /\ pidRefs = 0
      BY Zenon, <1>3, <2>1 DEF ThreadInv, init_kthread
    <3>2. /\ threadModule' = "live" /\ threadStop' = FALSE /\ mydata' # "live"
          /\ MyThread' \in {"task", "error"} /\ threadStep' \in {"none", "new"}
      BY Zenon, <2>1, <3>1 DEF init_kthread
    <3>3. pidRefs' \in {0, 1}
      BY <2>1, <3>1 DEF init_kthread, get_tgid
    <3>4. QED
      BY <3>2, <3>3 DEF ThreadInv
  <2>2. CASE ThreadStarts
    BY Zenon, <1>3, <2>2 DEF ThreadInv, ThreadStarts, ThreadOnly
  <2>3. CASE exit_kthread
    BY Zenon, <1>3, <2>3 DEF ThreadInv, exit_kthread
  <2>4. CASE ThreadJoined
    BY Zenon, <1>3, <2>4 DEF ThreadInv, ThreadJoined
  <2>5. CASE CopiesData
    <3>1. /\ threadModule # "out" /\ pidRefs \in {0, 1} /\ mydata # "live"
          /\ UNCHANGED <<threadModule, MyThread, threadStop>>
      BY <1>3, <2>5 DEF ThreadInv, CopiesData, ThreadOnly
    <3>2. pidRefs' \in 0..2
      BY <2>5, <3>1 DEF CopiesData, get_tgid
    <3>3. \/ threadStep' = "oops" /\ mydata' = mydata
          \/ threadStep' \in {"file", "check"} /\ mydata' = "live"
      BY Zenon, <2>5 DEF CopiesData
    <3>4. threadModule = "oops" => MyThread = "error"
      BY Zenon, <1>3, <2>5 DEF ThreadInv, CopiesData
    <3>5. QED
      BY Zenon, <1>3, <3>1, <3>2, <3>3, <3>4 DEF ThreadInv
  <2>6. CASE ReadFile
    BY Zenon, <1>3, <2>6 DEF ThreadInv, ReadFile, ThreadOnly
  <2>7. CASE ChecksStop
    BY Zenon, <1>3, <2>7 DEF ThreadInv, ChecksStop, ThreadOnly
  <2>8. CASE UNCHANGED threadVars
    BY Zenon, <1>3, <2>8 DEF ThreadInv, threadVars
  <2>9. QED
    BY Zenon, <1>3, <2>1, <2>2, <2>3, <2>4, <2>5, <2>6, <2>7, <2>8
       DEF ThreadNext, MyPrintkHello, MyPrintkTgid, MyPrintkReader, MyPrintk
<1>4. QED
  BY Zenon, <1>1, <1>2, <1>3

-----------------------------------------------------------------------------
(* insmod_code.c.  Before it wraps to zero the size of the buffer is one   *)
(* of the doublings of the first.                                          *)
ImageInv(Sizes) ==
  /\ imgStep \in {"open", "malloc", "read", "load", "failed", "done", "undefined"}
  /\ imgBuffer \in {"none", "live", "freed"}
  /\ imgFile \in Nat /\ imgSize \in Nat /\ imgMax \in Nat
  /\ imgStep \in {"open", "malloc", "read"} => imgMax \in Sizes \ {UintRange}
  /\ imgStep \in {"open", "malloc"} => imgBuffer = "none" /\ imgSize = 0
  /\ imgStep = "open" => imgFd = FALSE
  /\ imgStep = "read" => imgSize < imgMax /\ imgBuffer = "live"
  /\ imgStep = "load" => /\ imgSize < imgMax /\ imgSize = imgFile
                         /\ imgBuffer = "live" /\ imgFd = FALSE
  /\ imgStep \in {"failed", "done"} => imgFd = FALSE /\ imgBuffer # "live"

(* The invariant of insmod_code.c is inductive and says what is promised. *)
LEMMA ImageKeeps ==
  ASSUME NEW Sizes \in SUBSET (1..UintRange), Doublings(Sizes)
  PROVE  /\ ImageInit => ImageInv(Sizes)
         /\ ImageInv(Sizes) /\ [ImageNext]_imgVars => ImageInv(Sizes)'
         /\ ImageInv(Sizes) => ImageWhole
<1> USE ImageAssumption
<1>1. ImageInit => ImageInv(Sizes)
  BY DEF ImageInit, ImageInv, Doublings
<1>2. ImageInv(Sizes) => ImageWhole
  BY DEF ImageInv, ImageWhole
<1>3. ASSUME ImageInv(Sizes), [ImageNext]_imgVars PROVE ImageInv(Sizes)'
  <2>1. CASE OpensImage
    BY Zenon, <1>3, <2>1 DEF ImageInv, OpensImage
  <2>2. CASE AllocatesImage
    <3>1. /\ imgMax \in Sizes \ {UintRange} /\ imgSize = 0 /\ imgFile \in Nat
          /\ UNCHANGED <<imgFile, imgMax, imgSize>>
      BY Zenon, <1>3, <2>2 DEF ImageInv, AllocatesImage
    <3>2. imgMax \in Nat /\ 0 < imgMax
      BY <3>1
    <3>3. \/ imgStep' = "read" /\ imgBuffer' = "live"
          \/ imgStep' = "failed" /\ imgBuffer' = "freed" /\ imgFd' = FALSE
      BY Zenon, <2>2 DEF AllocatesImage, OutError
    <3>4. QED
      BY Zenon, <3>1, <3>2, <3>3 DEF ImageInv
  <2>3. CASE ReadsPart
    <3>1. /\ imgStep = "read" /\ imgSize' \in Nat /\ imgSize' <= imgMax
          /\ imgBuffer = "live" /\ imgFile' = imgFile
      BY <1>3, <2>3 DEF ImageInv, ReadsPart
    <3>2. imgMax \in Sizes \ {UintRange} /\ imgMax \in 1..UintRange
      BY Zenon, <1>3, <3>1 DEF ImageInv
    <3>3. CASE imgSize' # imgMax
      <4>1. UNCHANGED <<imgStep, imgMax, imgBuffer, imgFd>> /\ imgSize' < imgMax
        BY <2>3, <3>1, <3>2, <3>3 DEF ReadsPart
      <4>2. imgFile' \in Nat
        BY Zenon, <1>3, <3>1 DEF ImageInv
      <4>3. QED
        BY <3>1, <3>2, <4>1, <4>2 DEF ImageInv
    <3>4. CASE imgSize' = imgMax
      <4> DEFINE max == (2 * imgMax) % UintRange
      <4>1. 2 * imgMax \in Sizes
        BY Zenon, <3>2 DEF Doublings
      <4>2. max # 0 => max = 2 * imgMax /\ max # UintRange
        BY <3>2, <4>1
      <4>3. Grows /\ max \in Nat
        BY <2>3, <3>2, <3>4 DEF ReadsPart
      <4>4. QED
        <5>1. imgMax' = max /\ imgMax' \in Nat /\ imgFile' \in Nat
          BY Zenon, <1>3, <3>1, <4>3 DEF ImageInv, Grows
        <5>2. CASE /\ max # 0 /\ imgStep' = "read" /\ UNCHANGED <<imgBuffer, imgFd>>
          <6>1. imgMax' \in Sizes \ {UintRange} /\ imgSize' < imgMax'
            BY <3>2, <3>4, <4>1, <4>2, <5>1, <5>2
          <6>2. QED
            BY Zenon, <3>1, <5>1, <5>2, <6>1 DEF ImageInv
        <5>3. CASE OutError
          BY Zenon, <3>1, <5>1, <5>3 DEF ImageInv, OutError
        <5>4. CASE imgStep' = "undefined" /\ imgBuffer' = "freed"
          BY Zenon, <3>1, <5>1, <5>4 DEF ImageInv
        <5>5. QED
          BY Zenon, <4>3, <5>2, <5>3, <5>4 DEF Grows
    <3>5. QED
      BY Zenon, <3>3, <3>4
  <2>4. CASE ReadEnds
    <3>1. /\ imgSize < imgMax /\ imgBuffer = "live" /\ imgFile' \in Nat
          /\ imgSize' \in Nat /\ imgMax' \in Nat /\ imgSize' = imgSize /\ imgMax' = imgMax
      BY Zenon, <1>3, <2>4 DEF ImageInv, ReadEnds
    <3>2. CASE OutError
      BY Zenon, <3>1, <3>2 DEF ImageInv, OutError
    <3>3. CASE ~OutError
      <4>1. imgStep' = "load" /\ imgFd' = FALSE /\ imgBuffer' = "live"
        BY Zenon, <2>4, <3>1, <3>3 DEF ReadEnds
      <4>2. imgSize' < imgMax' /\ imgSize' = imgFile'
        BY <1>3, <2>4, <3>1, <3>3 DEF ImageInv, ReadEnds
      <4>3. QED
        BY Zenon, <3>1, <4>1, <4>2 DEF ImageInv
    <3>4. QED
      BY Zenon, <3>2, <3>3
  <2>5. CASE Loads
    BY Zenon, <1>3, <2>5 DEF ImageInv, Loads
  <2>6. CASE UNCHANGED imgVars
    BY Zenon, <1>3, <2>6 DEF ImageInv, imgVars
  <2>7. QED
    BY Zenon, <1>3, <2>1, <2>2, <2>3, <2>4, <2>5, <2>6 DEF ImageNext
<1>4. QED
  BY Zenon, <1>1, <1>2, <1>3

-----------------------------------------------------------------------------
(* queue.c.  The records that went in are 1 to Stored; the first fifoOut   *)
(* of them are out and the others are in the fifo, in order.               *)
Stored == IF fifoSize = 128 \/ fifoCount < 10 THEN fifoCount ELSE 9

FifoInv ==
  /\ fifoStep \in {"alloc", "failed", "put", "peek", "get", "loaded", "gone"}
  /\ fifo \in Seq(Nat) /\ fifoOut \in Seq(Nat)
  /\ \A i \in 1..Len(fifoOut) : fifoOut[i] = i
  /\ fifoStep \in {"alloc", "put", "peek"} => Len(fifoOut) = 0
  /\ fifoStep = "alloc" => fifoCount = 0 /\ fifoUsed = 0 /\ Len(fifo) = 0
  /\ fifoStep \in {"put", "peek", "get"} =>
       /\ fifoSize \in {64, 128}
       /\ Len(fifoOut) + Len(fifo) = Stored
       /\ \A i \in 1..Len(fifo) : fifo[i] = Len(fifoOut) + i
  /\ fifoStep = "put" => fifoCount \in 0..9 /\ 2 * fifoUsed = fifoCount * (fifoCount + 3)
                         /\ fifoUsed \in Nat
  /\ fifoStep \in {"peek", "get", "loaded"} => fifoCount = 10
  /\ fifoStep = "loaded" => fifoSize \in {64, 128} /\ Len(fifoOut) = Stored

(* The invariant of queue.c is inductive and says what is promised. *)
LEMMA FifoKeeps ==
  /\ FifoInit => FifoInv
  /\ FifoInv /\ [FifoNext]_fifoVars => FifoInv'
  /\ FifoInv => RecordsInOrder
<1>1. FifoInit => FifoInv
  BY DEF FifoInit, FifoInv
<1>2. ASSUME FifoInv PROVE RecordsInOrder
  <2>1. ASSUME fifoStep = "loaded" PROVE Len(fifoOut) = IF fifoSize = 128 THEN 10 ELSE 9
    <3>1. fifoCount = 10 /\ Len(fifoOut) = Stored
      BY Zenon, <1>2, <2>1 DEF FifoInv
    <3>2. QED
      BY <3>1 DEF Stored
  <2>2. QED
    BY Zenon, <1>2, <2>1 DEF FifoInv, RecordsInOrder
<1>3. ASSUME FifoInv, [FifoNext]_fifoVars PROVE FifoInv'
  <2>1. CASE kfifo_alloc
    <3>1. /\ fifo' \in Seq(Nat) /\ fifoOut' \in Seq(Nat) /\ Len(fifo') = 0 /\ Len(fifoOut') = 0
          /\ fifoCount' = 0 /\ fifoUsed' = 0
      BY Zenon, <1>3, <2>1 DEF FifoInv, kfifo_alloc
    <3>2. Stored' = 0
      BY <3>1 DEF Stored
    <3>3. fifoStep' = "failed" \/ (fifoStep' = "put" /\ fifoSize' \in {64, 128})
      BY Zenon, <2>1 DEF kfifo_alloc
    <3>4. QED
      BY <3>1, <3>2, <3>3 DEF FifoInv
  <2>2. CASE kfifo_in
    <3>1. /\ fifoCount \in 0..9 /\ 2 * fifoUsed = fifoCount * (fifoCount + 3)
          /\ fifoUsed \in Nat /\ fifoSize \in {64, 128} /\ Len(fifoOut) = 0
          /\ fifo \in Seq(Nat) /\ Len(fifo) = fifoCount
          /\ \A i \in 1..Len(fifo) : fifo[i] = i
      <4>1. fifoStep = "put"
        BY Zenon, <2>2 DEF kfifo_in
      <4>2. /\ fifoCount \in 0..9 /\ 2 * fifoUsed = fifoCount * (fifoCount + 3)
            /\ fifoUsed \in Nat /\ fifoSize \in {64, 128} /\ Len(fifoOut) = 0 /\ fifo \in Seq(Nat)
        BY Zenon, <1>3, <4>1 DEF FifoInv
      <4>3. /\ Len(fifoOut) + Len(fifo) = Stored
            /\ \A i \in 1..Len(fifo) : fifo[i] = Len(fifoOut) + i
        BY Zenon, <1>3, <4>1 DEF FifoInv
      <4>4. Len(fifo) = fifoCount
        BY <4>2, <4>3 DEF Stored
      <4>5. \A i \in 1..Len(fifo) : fifo[i] = i
        BY <4>2, <4>3
      <4>6. QED
        BY Zenon, <4>2, <4>4, <4>5
    <3>2. fifoCount < 9 \/ fifoSize = 128 => fifoUsed + fifoCount + 2 <= fifoSize
      BY <3>1
    <3>3. fifoCount = 9 /\ fifoSize = 64 => ~(fifoUsed + fifoCount + 2 <= fifoSize)
      BY <3>1
    <3>4. /\ fifoCount' = fifoCount + 1 /\ fifoSize' = fifoSize /\ fifoOut' = fifoOut
          /\ fifoStep' = IF fifoCount + 1 < 10 THEN "put" ELSE "peek"
      BY Zenon, <2>2 DEF kfifo_in
    <3>5. CASE fifoCount < 9 \/ fifoSize = 128
      <4>1. fifo' = Append(fifo, fifoCount + 1) /\ fifoUsed' = fifoUsed + fifoCount + 2
        BY <2>2, <3>1, <3>2, <3>5 DEF kfifo_in
      <4>2. /\ fifo' \in Seq(Nat) /\ Len(fifo') = fifoCount + 1
            /\ \A i \in 1..Len(fifo') : fifo'[i] = i
        BY <3>1, <4>1
      <4>3. 2 * fifoUsed' = fifoCount' * (fifoCount' + 3) /\ fifoUsed' \in Nat
        BY <3>1, <3>4, <4>1
      <4>4. Stored' = fifoCount + 1
        BY <3>1, <3>4, <3>5 DEF Stored
      <4>5. fifoStep' \in {"put", "peek"} /\ (fifoStep' = "put" => fifoCount' \in 0..9)
            /\ (fifoStep' = "peek" => fifoCount' = 10)
        BY <3>1, <3>4
      <4>6. fifoOut' \in Seq(Nat) /\ Len(fifoOut') = 0
        BY Zenon, <1>3, <3>1, <3>4 DEF FifoInv
      <4>7. /\ Len(fifoOut') + Len(fifo') = Stored'
            /\ \A i \in 1..Len(fifo') : fifo'[i] = Len(fifoOut') + i
        BY <3>1, <4>2, <4>4, <4>6
      <4>8. fifoSize' \in {64, 128} /\ \A i \in 1..Len(fifoOut') : fifoOut'[i] = i
        BY <3>1, <3>4, <4>6
      <4>9. QED
        BY Zenon, <4>2, <4>3, <4>5, <4>6, <4>7, <4>8 DEF FifoInv
    <3>6. CASE fifoCount = 9 /\ fifoSize = 64
      <4>1. fifo' = fifo /\ fifoUsed' = fifoUsed
        BY <2>2, <3>1, <3>3, <3>6 DEF kfifo_in
      <4>2. fifoStep' = "peek" /\ fifoCount' = 10 /\ Stored' = 9
        BY <3>4, <3>6 DEF Stored
      <4>3. fifoOut' \in Seq(Nat) /\ Len(fifoOut') = 0
        BY Zenon, <1>3, <3>1, <3>4 DEF FifoInv
      <4>4. /\ Len(fifoOut') + Len(fifo') = Stored'
            /\ \A i \in 1..Len(fifo') : fifo'[i] = Len(fifoOut') + i
        <5>1. Len(fifo) = 9 /\ \A i \in 1..9 : fifo[i] = i
          BY Zenon, <3>1, <3>6
        <5>2. QED
          BY <4>1, <4>2, <4>3, <5>1
      <4>5. QED
        <5>1. fifo' \in Seq(Nat) /\ fifoSize' \in {64, 128}
          BY Zenon, <3>1, <3>4, <4>1
        <5>2. \A i \in 1..Len(fifoOut') : fifoOut'[i] = i
          BY <4>3
        <5>3. QED
          BY Zenon, <4>2, <4>3, <4>4, <5>1, <5>2 DEF FifoInv
    <3>7. QED
      BY <3>1, <3>5, <3>6
  <2>3. CASE kfifo_out_peek
    BY Zenon, <1>3, <2>3 DEF FifoInv, kfifo_out_peek, Stored
  <2>4. CASE kfifo_out
    <3>1. /\ fifo \in Seq(Nat) /\ fifoOut \in Seq(Nat)
          /\ Len(fifoOut) + Len(fifo) = Stored /\ fifoStep = "get"
          /\ \A i \in 1..Len(fifo) : fifo[i] = Len(fifoOut) + i
          /\ \A i \in 1..Len(fifoOut) : fifoOut[i] = i
          /\ Stored' = Stored
      BY Zenon, <1>3, <2>4 DEF FifoInv, kfifo_out, Stored
    <3>2. CASE fifo # <<>>
      <4>1. Len(fifo) \in Nat \ {0} /\ Head(fifo) = Len(fifoOut) + 1
        BY <3>1, <3>2
      <4>2. /\ fifo' = Tail(fifo) /\ fifoOut' = Append(fifoOut, Head(fifo))
            /\ fifoStep' = "get" /\ UNCHANGED <<fifoSize, fifoCount>>
        BY Zenon, <2>4, <3>1, <3>2 DEF kfifo_out
      <4>3. /\ fifoOut' \in Seq(Nat) /\ Len(fifoOut') = Len(fifoOut) + 1
            /\ \A i \in 1..Len(fifoOut') : fifoOut'[i] = i
        BY <3>1, <4>1, <4>2
      <4>4. fifo' \in Seq(Nat) /\ Len(fifo') = Len(fifo) - 1
        BY <3>1, <3>2, <4>2
      <4>5. \A i \in 1..Len(fifo') : fifo'[i] = Len(fifoOut') + i
        BY <3>1, <3>2, <4>1, <4>2, <4>3, <4>4
      <4>6. QED
        <5>1. fifoSize' \in {64, 128} /\ fifoCount' = 10
          BY Zenon, <1>3, <3>1, <4>2 DEF FifoInv
        <5>2. Len(fifoOut') + Len(fifo') = Stored'
          BY <3>1, <4>1, <4>3, <4>4
        <5>3. QED
          BY Zenon, <4>2, <4>3, <4>4, <4>5, <5>1, <5>2 DEF FifoInv
    <3>3. CASE fifo = <<>>
      <4>1. fifoStep' = "loaded" /\ UNCHANGED <<fifo, fifoOut, fifoSize, fifoCount>>
        BY Zenon, <2>4, <3>3 DEF kfifo_out
      <4>2. fifoSize \in {64, 128} /\ fifoCount = 10
        BY Zenon, <1>3, <3>1 DEF FifoInv
      <4>3. Len(fifoOut) = Stored
        BY <3>1, <3>3
      <4>4. QED
        BY Zenon, <3>1, <4>1, <4>2, <4>3 DEF FifoInv
    <3>4. QED
      BY Zenon, <3>2, <3>3
  <2>5. CASE example_exit
    BY Zenon, <1>3, <2>5 DEF FifoInv, example_exit
  <2>6. CASE UNCHANGED fifoVars
    BY Zenon, <1>3, <2>6 DEF FifoInv, fifoVars, Stored
  <2>7. QED
    BY Zenon, <1>3, <2>1, <2>2, <2>3, <2>4, <2>5, <2>6 DEF FifoNext
<1>4. QED
  BY Zenon, <1>1, <1>2, <1>3

-----------------------------------------------------------------------------
(* Arithmetic for the digits of a number: multiplication and division by   *)
(* the base are monotonic, and division makes a number smaller.            *)
LEMMA TimesMonotonic ==
  ASSUME NEW b \in Nat, NEW i \in Int, NEW j \in Int, i <= j
  PROVE  b * i <= b * j
  OBVIOUS

(* A number is the base times its quotient, and a rest. *)
LEMMA QuotientAndRest ==
  ASSUME NEW b \in Nat \ {0, 1}, NEW n \in Nat
  PROVE  \E q, r \in Nat : n = b * q + r /\ r < b /\ n \div b = q
<1> DEFINE q == n \div b
           r == n % b
<1>1. q \in Int /\ r \in 0..(b - 1)
  OBVIOUS
<1>2. n = b * q + r
  OBVIOUS
<1>3. q >= 0
  <2>1. SUFFICES ASSUME q <= -1 PROVE FALSE
    BY <1>1
  <2>2. b * q <= b * (-1)
    BY <1>1, <2>1
  <2>3. QED
    BY <1>1, <1>2, <2>2
<1>4. QED
  BY <1>1, <1>2, <1>3

(* A number of more than one digit is larger than its quotient. *)
LEMMA QuotientSmaller ==
  ASSUME NEW b \in Nat \ {0, 1}, NEW n \in Nat
  PROVE  n \div b \in Nat /\ (n >= b => n \div b < n)
<1>1. PICK q \in Nat, r \in Nat : n = b * q + r /\ r < b /\ n \div b = q
  BY Zenon, QuotientAndRest
<1>2. ASSUME n >= b PROVE q < n
  <2>1. q # 0
    BY <1>1, <1>2
  <2>2. b * q >= 2 * q
    BY <1>1
  <2>3. QED
    BY <1>1, <2>1, <2>2
<1>3. QED
  BY Zenon, <1>1, <1>2

(* Of two numbers the larger has the larger quotient. *)
LEMMA QuotientMonotonic ==
  ASSUME NEW b \in Nat \ {0, 1}, NEW n \in Nat, NEW m \in Nat, m <= n
  PROVE  m \div b <= n \div b
<1>1. PICK q \in Nat, r \in Nat : n = b * q + r /\ r < b /\ n \div b = q
  BY Zenon, QuotientAndRest
<1>2. PICK p \in Nat, s \in Nat : m = b * p + s /\ s < b /\ m \div b = p
  BY Zenon, QuotientAndRest
<1>3. SUFFICES ASSUME q + 1 <= p PROVE FALSE
  BY <1>1, <1>2
<1>4. b * (q + 1) <= b * p
  BY <1>3, TimesMonotonic
<1>5. b * (q + 1) = b * q + b
  OBVIOUS
<1>6. QED
  BY <1>1, <1>2, <1>4, <1>5

-----------------------------------------------------------------------------
(* The digits of the numbers up to N, counted by the same rule. *)
CountsTo(f, N) ==
  /\ f \in [0..N -> Nat]
  /\ \A n \in 0..N : f[n] = IF n < Base THEN 1 ELSE 1 + f[n \div Base]

(* There is such a count for every N, or a least N without one. *)
LEMMA CountExists == \A N \in Nat : \E f : CountsTo(f, N)
<1> USE ProcAssumption
<1> DEFINE S == {N \in Nat : ~\E f : CountsTo(f, N)}
<1>1. SUFFICES ASSUME S # {} PROVE FALSE
  OBVIOUS
<1>2. PICK N \in S : \A k \in S : N <= k
  BY Zenon, <1>1, LeastOf
<1>3. N \in Nat /\ ~\E f : CountsTo(f, N)
  OBVIOUS
<1>4. CASE N = 0
  <2> DEFINE f == [n \in 0..0 |-> 1]
  <2>1. CountsTo(f, 0)
    BY DEF CountsTo
  <2>2. QED
    BY Zenon, <1>3, <1>4, <2>1
<1>5. CASE N # 0
  <2>1. N - 1 \in Nat /\ N - 1 \notin S
    BY <1>2, <1>3, <1>5
  <2>2. PICK f : CountsTo(f, N - 1)
    BY Zenon, <2>1
  <2>3. f \in [0..(N - 1) -> Nat]
    BY Zenon, <2>2 DEF CountsTo
  <2>4. \A n \in 0..(N - 1) : f[n] = IF n < Base THEN 1 ELSE 1 + f[n \div Base]
    BY Zenon, <2>2 DEF CountsTo
  <2> DEFINE g == [n \in 0..N |-> IF n < N THEN f[n] ELSE
                                  IF N < Base THEN 1 ELSE 1 + f[N \div Base]]
  <2>5. ASSUME NEW n \in 0..N, ~(n < Base)
        PROVE  n \div Base \in 0..(N - 1) /\ n \div Base < n
    BY <1>3, <2>5, QuotientSmaller
  <2>6. ASSUME NEW n \in 0..N
        PROVE  g[n] \in Nat /\ g[n] = IF n < Base THEN 1 ELSE 1 + g[n \div Base]
    <3>1. CASE n < Base
      <4>1. CASE n < N
        <5>1. n \in 0..(N - 1) /\ g[n] = f[n]
          BY <1>3, <4>1
        <5>2. f[n] = 1
          BY Zenon, <2>4, <3>1, <5>1
        <5> HIDE DEF g
        <5>3. QED
          BY <3>1, <5>1, <5>2
      <4>2. CASE n = N
        BY <3>1, <4>2
      <4>3. n < N \/ n = N
        BY <1>3
      <4>4. QED
        BY Zenon, <4>1, <4>2, <4>3
    <3>2. CASE ~(n < Base)
      <4>1. n \div Base \in 0..(N - 1) /\ f[n \div Base] \in Nat
        BY Zenon, <2>3, <2>5, <3>2
      <4>2. g[n \div Base] = f[n \div Base]
        <5>1. n \div Base \in 0..N /\ n \div Base < N
          BY <1>3, <4>1
        <5>2. QED
          BY Zenon, <5>1
      <4>3. g[n] = 1 + f[n \div Base]
        <5>1. CASE n = N
          BY <1>3, <3>2, <5>1
        <5>2. CASE n # N
          <6>1. n \in 0..(N - 1) /\ n < N
            BY <1>3, <5>2
          <6>2. f[n] = 1 + f[n \div Base]
            BY Zenon, <2>4, <3>2, <6>1
          <6>3. QED
            BY Zenon, <6>1, <6>2
        <5>3. QED
          BY Zenon, <5>1, <5>2
      <4>4. 1 + f[n \div Base] \in Nat
        BY <4>1
      <4> HIDE DEF g
      <4>5. QED
        BY Zenon, <3>2, <4>2, <4>3, <4>4
    <3>3. QED
      BY Zenon, <3>1, <3>2
  <2>7. CountsTo(g, N)
    BY Zenon, <2>6 DEF CountsTo
  <2>8. QED
    BY Zenon, <1>3, <2>7
<1>6. QED
  BY Zenon, <1>4, <1>5

(* Two counts agree where both are defined. *)
LEMMA CountUnique ==
  ASSUME NEW N \in Nat, NEW M \in Nat, NEW f, CountsTo(f, N), NEW g, CountsTo(g, M)
  PROVE  \A n \in 0..N : n <= M => f[n] = g[n]
<1> USE ProcAssumption
<1> DEFINE S == {n \in Nat : n <= N /\ n <= M /\ f[n] # g[n]}
<1>1. SUFFICES ASSUME S # {} PROVE FALSE
  OBVIOUS
<1>2. PICK n \in S : \A k \in S : n <= k
  BY Zenon, <1>1, LeastOf
<1>3. n \in 0..N /\ n \in 0..M /\ f[n] # g[n]
  OBVIOUS
<1>4. /\ f[n] = IF n < Base THEN 1 ELSE 1 + f[n \div Base]
      /\ g[n] = IF n < Base THEN 1 ELSE 1 + g[n \div Base]
  BY Zenon, <1>3 DEF CountsTo
<1>5. CASE n < Base
  BY Zenon, <1>3, <1>4, <1>5
<1>6. CASE ~(n < Base)
  <2>1. n \div Base \in Nat /\ n \div Base < n
    <3>1. n \in Nat /\ n >= Base
      BY <1>3, <1>6
    <3> HIDE DEF S
    <3>2. QED
      BY Zenon, <3>1, QuotientSmaller
  <2>2. n \div Base \notin S
    <3> HIDE DEF S
    <3>1. n \in Nat /\ ~(n <= n \div Base)
      BY <1>3, <2>1
    <3>2. QED
      BY Zenon, <1>2, <3>1
  <2>3. f[n \div Base] = g[n \div Base]
    <3>1. n \div Base <= N /\ n \div Base <= M
      BY <1>3, <2>1
    <3>2. QED
      BY Zenon, <2>1, <2>2, <3>1
  <2>4. QED
    BY Zenon, <1>3, <1>4, <1>6, <2>3
<1>7. QED
  BY Zenon, <1>5, <1>6

(* So the rule for digits defines a function, the one the model uses. *)
LEMMA DigitsRule ==
  /\ digits \in [Nat -> Nat \ {0}]
  /\ \A n \in Nat : digits[n] = IF n < Base THEN 1 ELSE 1 + digits[n \div Base]
<1> USE ProcAssumption
<1> DEFINE C(n) == CHOOSE f : CountsTo(f, n)
           F == [n \in Nat |-> C(n)[n]]
           G(f) == [n \in Nat |-> IF n < Base THEN 1 ELSE 1 + f[n \div Base]]
<1>1. \A n \in Nat : CountsTo(C(n), n)
  BY Zenon, CountExists
<1> HIDE DEF C
<1>2. ASSUME NEW n \in Nat PROVE F[n] = IF n < Base THEN 1 ELSE 1 + F[n \div Base]
  <2>1. C(n)[n] = IF n < Base THEN 1 ELSE 1 + C(n)[n \div Base]
    <3>1. n \in 0..n /\ CountsTo(C(n), n)
      BY <1>1
    <3>2. QED
      BY Zenon, <3>1 DEF CountsTo
  <2>2. CASE n < Base
    BY Zenon, <2>1, <2>2
  <2>3. CASE ~(n < Base)
    <3>1. n \div Base \in Nat /\ n \div Base < n
      BY <2>3, QuotientSmaller
    <3>2. CountsTo(C(n), n) /\ CountsTo(C(n \div Base), n \div Base)
      BY Zenon, <1>1, <3>1
    <3>3. C(n \div Base)[n \div Base] = C(n)[n \div Base]
      BY <3>1, <3>2, CountUnique
    <3>4. QED
      BY Zenon, <2>1, <2>3, <3>1, <3>3
  <2>4. QED
    BY Zenon, <2>2, <2>3
<1>3. F = G(F)
  BY Zenon, <1>2
<1>4. digits = CHOOSE f : f = G(f)
  BY Zenon DEF digits
<1> HIDE DEF F, G
<1>5. digits = G(digits)
  BY Zenon, <1>3, <1>4
<1> USE DEF G
<1>6. \A n \in Nat : digits[n] = IF n < Base THEN 1 ELSE 1 + digits[n \div Base]
  BY Zenon, <1>5
<1>7. \A n \in Nat : digits[n] \in Nat \ {0}
  <2> DEFINE S == {n \in Nat : digits[n] \notin Nat \ {0}}
  <2>1. SUFFICES ASSUME S # {} PROVE FALSE
    OBVIOUS
  <2>2. PICK n \in S : \A k \in S : n <= k
    BY Zenon, <2>1, LeastOf
  <2>3. n >= Base
    BY <1>6
  <2>4. n \div Base \in Nat /\ n \div Base < n
    BY Zenon, <2>3, QuotientSmaller
  <2>5. n \div Base \notin S
    BY <2>2, <2>4
  <2>6. QED
    BY <1>6, <2>3, <2>4, <2>5
<1>8. DOMAIN digits = Nat /\ digits = [n \in Nat |-> digits[n]]
  BY Zenon, <1>5
<1>9. QED
  BY Zenon, <1>6, <1>7, <1>8

(* The larger number has no fewer digits. *)
LEMMA DigitsMonotonic == \A n \in Nat : \A m \in 0..n : digits[m] <= digits[n]
<1> USE ProcAssumption
<1> DEFINE S == {n \in Nat : ~\A m \in 0..n : digits[m] <= digits[n]}
<1>1. SUFFICES ASSUME S # {} PROVE FALSE
  OBVIOUS
<1>2. PICK n \in S : \A k \in S : n <= k
  BY Zenon, <1>1, LeastOf
<1>3. PICK m \in 0..n : ~(digits[m] <= digits[n])
  OBVIOUS
<1>4. n \in Nat /\ m \in Nat /\ m <= n
  OBVIOUS
<1>5. /\ digits[n] = IF n < Base THEN 1 ELSE 1 + digits[n \div Base]
      /\ digits[m] = IF m < Base THEN 1 ELSE 1 + digits[m \div Base]
      /\ digits[n] \in Nat \ {0} /\ digits[m] \in Nat \ {0}
  BY Zenon, <1>4, DigitsRule
<1>6. ~(m < Base) /\ ~(n < Base)
  BY <1>3, <1>4, <1>5
<1>7. /\ n \div Base \in Nat /\ n \div Base < n
      /\ m \div Base \in Nat /\ m \div Base <= n \div Base
  BY <1>4, <1>6, QuotientSmaller, QuotientMonotonic
<1>8. digits[m \div Base] <= digits[n \div Base]
  BY <1>2, <1>7
<1>9. QED
  <2>1. digits[n \div Base] \in Nat /\ digits[m \div Base] \in Nat
    BY Zenon, <1>7, DigitsRule
  <2>2. digits[n] = 1 + digits[n \div Base] /\ digits[m] = 1 + digits[m \div Base]
    BY Zenon, <1>5, <1>6
  <2>3. digits[m] <= digits[n]
    BY <1>8, <2>1, <2>2
  <2>4. QED
    BY Zenon, <1>3, <2>3

-----------------------------------------------------------------------------
(* A number within the range of a type is itself after the conversion. *)
LEMMA WrappedInRange ==
  ASSUME NEW max \in Nat, NEW v \in (-max)..max
  PROVE  Wrapped(v, max) = v
<1>1. v + max + 1 \in 0..(2 * max + 1)
  OBVIOUS
<1>2. (v + max + 1) % (2 * max + 2) = v + max + 1
  BY <1>1
<1>3. QED
  BY <1>2 DEF Wrapped

(* A text a new kernel takes is a number within the range of an int. *)
LEMMA ShortTextsFit ==
  ASSUME NEW v \in Int, TextLength(v) <= NewLimit
  PROVE  v \in (-IntMax)..IntMax
<1> USE ProcAssumption
<1> DEFINE a == IF v < 0 THEN -v ELSE v
<1>1. a \in Nat /\ digits[a] \in Nat /\ digits[IntMax + 1] \in Nat
  BY DigitsRule
<1>2. digits[a] <= NewLimit
  BY <1>1 DEF TextLength
<1>3. ASSUME a > IntMax PROVE FALSE
  <2>1. IntMax + 1 \in 0..a
    BY <1>1, <1>3
  <2>2. digits[IntMax + 1] <= digits[a]
    BY Zenon, <1>1, <2>1, DigitsMonotonic
  <2>3. QED
    BY <1>1, <1>2, <2>2, ProcSizes
<1>4. QED
  BY <1>1, <1>3

(* procfs.c: where the entry is, and what it keeps. *)
ProcInv ==
  /\ procKernel \in {"old", "new"}
  /\ procModule \in {"out", "dir"} => procEntry = "none"
  /\ procModule = "live" => procEntry \in {"none", IF procDir = "made" THEN "dir" ELSE "root"}
  /\ Kept /\ Removed

(* The invariant of what procfs.c keeps is inductive. *)
LEMMA ProcKeeps ==
  /\ ProcInit => ProcInv
  /\ ProcInv /\ [ProcNext]_procVars => ProcInv'
<1>1. ProcInit => ProcInv
  BY Zenon DEF ProcInit, ProcInv, Kept, Removed
<1>2. ASSUME ProcInv, [ProcNext]_procVars PROVE ProcInv'
  <2>1. CASE init_procfs
    BY Zenon, <1>2, <2>1 DEF ProcInv, Kept, Removed, init_procfs
  <2>2. CASE procfs_create_entry
    BY Zenon, <1>2, <2>2 DEF ProcInv, Kept, Removed, procfs_create_entry
  <2>3. CASE procfs_read_long \/ dummy_proc_open
    BY Zenon, <1>2, <2>3 DEF ProcInv, Kept, Removed, procfs_read_long, dummy_proc_open, entryVars
  <2>4. CASE procfs_cleanup
    BY Zenon, <1>2, <2>4 DEF ProcInv, Kept, Removed, procfs_cleanup
  <2>5. ASSUME NEW v \in Texts, procfs_write_long(v) PROVE ProcInv'
    <3>1. v \in Int
      BY ProcAssumption DEF Texts
    <3>2. /\ TextLength(v) <= Limit /\ test_proc' = Parsed(v) /\ written' = v
          /\ UNCHANGED <<procKernel, procModule, procDir, procEntry>>
      BY Zenon, <2>5 DEF procfs_write_long, entryVars
    <3>3. CASE procKernel = "new"
      <4>1. v \in (-IntMax)..IntMax
        BY Zenon, <3>1, <3>2, <3>3, ShortTextsFit DEF Limit
      <4>2. v \in (-LongMax)..LongMax
        BY <4>1, ProcAssumption, ProcSizes
      <4>3. Wrapped(v, LongMax) = v /\ Wrapped(v, IntMax) = v
        BY Zenon, <4>1, <4>2, WrappedInRange, ProcAssumption
      <4>4. Parsed(v) = v
        BY Zenon, <3>3, <4>3 DEF Parsed
      <4>5. QED
        BY Zenon, <1>2, <3>2, <4>4 DEF ProcInv, Kept, Removed
    <3>4. CASE procKernel = "old"
      <4>1. Parsed(v) = Wrapped(v, LongMax)
        BY Zenon, <3>4 DEF Parsed
      <4>2. Kept'
        BY Zenon, <3>2, <3>4, <4>1 DEF Kept, Wrapped
      <4>3. QED
        BY Zenon, <1>2, <3>2, <4>2 DEF ProcInv, Removed
    <3>5. QED
      BY Zenon, <1>2, <3>3, <3>4 DEF ProcInv
  <2>6. CASE UNCHANGED procVars
    BY Zenon, <1>2, <2>6 DEF ProcInv, Kept, Removed, procVars, entryVars, Wrapped
  <2>7. QED
    BY Zenon, <1>2, <2>1, <2>2, <2>3, <2>4, <2>5, <2>6 DEF ProcNext
<1>3. QED
  BY Zenon, <1>1, <1>2

(* A text has a length. *)
LEMMA TextHasLength ==
  ASSUME NEW v \in Int
  PROVE  TextLength(v) \in Nat
<1>1. \A n \in Nat : digits[n] \in Nat
  BY Zenon, DigitsRule
<1>2. QED
  BY <1>1 DEF TextLength

(* What a write keeps is a number. *)
LEMMA ParsedIsInt ==
  ASSUME NEW v \in Int
  PROVE  Parsed(v) \in Int
<1>1. ASSUME NEW x \in Int, NEW max \in Nat PROVE Wrapped(x, max) \in Int
  <2>1. x + max + 1 \in Int /\ 2 * max + 2 \in Nat \ {0}
    OBVIOUS
  <2>2. (x + max + 1) % (2 * max + 2) \in Int
    BY <2>1
  <2>3. QED
    BY <2>2 DEF Wrapped
<1>2. Wrapped(v, LongMax) \in Int
  BY Zenon, <1>1, ProcAssumption
<1>3. Wrapped(Wrapped(v, LongMax), IntMax) \in Int
  BY Zenon, <1>1, <1>2, ProcAssumption
<1>4. QED
  BY Zenon, <1>2, <1>3 DEF Parsed

\* procfs.c: what the reader was given so far.  On a new kernel it is nothing or
\* a count; on an old one, while nobody writes, no more than the text.
ReadInv ==
  /\ procKernel \in {"old", "new"} /\ test_proc \in Int /\ readCount \in Nat
  /\ ppos \in Nat /\ got = ppos /\ overwritten \in BOOLEAN /\ readEnd \in BOOLEAN /\ torn \in BOOLEAN
  /\ procKernel = "new" => ppos \in {0, readCount}
  /\ got # 0 /\ ~overwritten => readback = test_proc
  /\ procKernel = "old" /\ ~overwritten => ppos <= TextLength(test_proc) + 1
  /\ ReadOnce

(* That is inductive too. *)
LEMMA ReadKeeps ==
  /\ ProcInit => ReadInv
  /\ ReadInv /\ [ProcNext]_procVars => ReadInv'
<1>1. ASSUME ProcInit PROVE ReadInv
  <2>1. TextLength(test_proc) \in Nat /\ test_proc \in Int
    BY <1>1, TextHasLength DEF ProcInit
  <2>2. ppos <= TextLength(test_proc) + 1 /\ readCount \in Nat /\ ppos \in Nat
    BY <1>1, <2>1 DEF ProcInit
  <2>3. QED
    BY Zenon, <1>1, <2>1, <2>2 DEF ProcInit, ReadInv, ReadOnce
<1>2. ASSUME ReadInv, [ProcNext]_procVars PROVE ReadInv'
  <2>0. TextLength(test_proc) \in Nat
    BY Zenon, <1>2, TextHasLength DEF ReadInv
  <2>1. CASE init_procfs \/ procfs_create_entry \/ procfs_cleanup \/ UNCHANGED procVars
    <3>1. UNCHANGED <<procKernel, test_proc, readVars>>
      BY Zenon, <2>1 DEF init_procfs, procfs_create_entry, procfs_cleanup, procVars, entryVars
    <3>2. QED
      BY Zenon, <1>2, <3>1 DEF ReadInv, ReadOnce, readVars, TextLength
  <2>2. ASSUME NEW v \in Texts, procfs_write_long(v) PROVE ReadInv'
    <3>1. v \in Int
      BY ProcAssumption DEF Texts
    <3>2. /\ test_proc' = Parsed(v) /\ overwritten' = TRUE
          /\ UNCHANGED <<procKernel, readCount, ppos, readEnd, got, torn>>
      BY Zenon, <2>2 DEF procfs_write_long, entryVars
    <3>3. test_proc' \in Int
      BY Zenon, <3>1, <3>2, ParsedIsInt
    <3>4. QED
      BY Zenon, <1>2, <3>2, <3>3 DEF ReadInv, ReadOnce
  <2>3. CASE dummy_proc_open
    <3>1. /\ readCount' \in 1..(OldLimit + 2) /\ ppos' = 0 /\ got' = 0
          /\ readEnd' = FALSE /\ torn' = FALSE /\ overwritten' = FALSE
          /\ UNCHANGED <<procKernel, test_proc>>
      BY Zenon, <2>3 DEF dummy_proc_open, entryVars
    <3>2. readCount' \in Nat /\ TextLength(test_proc)' \in Nat
      BY <2>0, <3>1, ProcAssumption DEF TextLength
    <3>3. ppos' <= TextLength(test_proc)' + 1 /\ ppos' \in Nat
      BY <3>1, <3>2
    <3>4. procKernel' \in {"old", "new"} /\ test_proc' \in Int
      BY Zenon, <1>2, <3>1 DEF ReadInv
    <3>5. QED
      BY Zenon, <3>1, <3>2, <3>3, <3>4 DEF ReadInv, ReadOnce
  <2>4. CASE procfs_read_long
    <3>0. /\ readCount # 0 /\ ~readEnd
          /\ UNCHANGED <<procKernel, test_proc, readCount, overwritten>>
          /\ TextLength(test_proc)' = TextLength(test_proc)
      BY Zenon, <2>4 DEF procfs_read_long, entryVars, TextLength
    <3>1. CASE procKernel = "new" /\ Ends
      BY Zenon, <1>2, <3>0, <3>1 DEF ReadInv, ReadOnce, Ends
    <3>2. CASE procKernel = "new" /\ ppos < readCount /\ Given(readCount) /\ ppos' = ppos + readCount
      BY <1>2, <3>0, <3>2 DEF ReadInv, ReadOnce, Given
    <3>3. CASE procKernel = "old" /\ TextLength(test_proc) + 1 - ppos <= 0 /\ Ends
      BY <1>2, <2>0, <3>0, <3>3 DEF ReadInv, ReadOnce, Ends
    <3>4. ASSUME NEW n, procKernel = "old", TextLength(test_proc) + 1 - ppos > 0,
                 n = IF TextLength(test_proc) + 1 - ppos < readCount
                     THEN TextLength(test_proc) + 1 - ppos ELSE readCount,
                 Given(n), ppos' = ppos + n
          PROVE  ReadInv'
      <4>1. n \in Nat \ {0} /\ ppos + n <= TextLength(test_proc) + 1
        BY <1>2, <2>0, <3>0, <3>4 DEF ReadInv
      <4>2. QED
        BY <1>2, <2>0, <3>0, <3>4, <4>1 DEF ReadInv, ReadOnce, Given
    <3>5. CASE procKernel = "new"
      BY Zenon, <2>4, <3>1, <3>2, <3>5 DEF procfs_read_long, NewRead
    <3>6. CASE procKernel = "old"
      <4> DEFINE left == TextLength(test_proc) + 1 - ppos
                 n == IF left < readCount THEN left ELSE readCount
      <4>1. IF left <= 0 THEN Ends ELSE Given(n) /\ ppos' = ppos + n
        BY Zenon, <2>4, <3>6 DEF procfs_read_long, OldRead
      <4>2. CASE left <= 0
        BY Zenon, <3>3, <3>6, <4>1, <4>2
      <4>3. CASE ~(left <= 0)
        <5>1. left > 0
          BY <1>2, <2>0, <4>3 DEF ReadInv
        <5>2. Given(n) /\ ppos' = ppos + n
          BY Zenon, <4>1, <4>3
        <5>3. QED
          BY Zenon, <3>4, <3>6, <5>1, <5>2
      <4>4. QED
        BY Zenon, <4>2, <4>3
    <3>7. QED
      BY Zenon, <1>2, <3>5, <3>6 DEF ReadInv
  <2>5. QED
    BY Zenon, <1>2, <2>1, <2>2, <2>3, <2>4 DEF ProcNext
<1>3. QED
  BY Zenon, <1>1, <1>2

-----------------------------------------------------------------------------
(* A step of the whole is a step of each program, or leaves it alone. *)
LEMMA EachMovesAlone ==
  ASSUME [Next]_vars
  PROVE  /\ [ProcNext]_procVars /\ [FdNext]_fdVars /\ [ImageNext]_imgVars
         /\ [ThreadNext]_threadVars /\ [FifoNext]_fifoVars /\ [RmmodNext]_rmVars
         /\ [MountNext]_mountVars
  BY Zenon DEF Next, vars

-----------------------------------------------------------------------------
(***************************************************************************)
(* What insmod_code.c hands to init_module is the whole file, for every    *)
(* length and every way the reads are cut, and rmmod_code.c asks the       *)
(* kernel only for a module it counted no use of.  The sizes must be       *)
(* doublings of the first that arrive at the range of an unsigned int, as  *)
(* 16384 and 2^32 do.                                                      *)
(***************************************************************************)
THEOREM ToolsDoWhatTheyReport == Spec => []ToolsAreRight
<1> DEFINE Inv == RmInv /\ \E Sizes \in SUBSET (1..UintRange) : Doublings(Sizes) /\ ImageInv(Sizes)
<1>1. Init => Inv
  BY Zenon, RmmodKeeps, ImageKeeps, ImageDoubles DEF Init
<1>2. Inv /\ [Next]_vars => Inv'
  <2>1. ASSUME NEW Sizes \in SUBSET (1..UintRange), Doublings(Sizes), ImageInv(Sizes),
               [Next]_vars
        PROVE  ImageInv(Sizes)'
    BY Zenon, <2>1, ImageKeeps, EachMovesAlone
  <2>2. QED
    BY Zenon, <2>1, RmmodKeeps, EachMovesAlone DEF Doublings
<1>3. Inv => ToolsAreRight
  BY Zenon, RmmodKeeps, ImageKeeps DEF ToolsAreRight
<1>4. QED
  BY <1>1, <1>2, <1>3, PTL DEF Spec

(***************************************************************************)
(* The number procfs_write_long keeps is the one written, but for a text   *)
(* too large for a long on an old kernel; procfs_read_long gives it to a   *)
(* reader once and whole, if nobody writes meanwhile and the read does not *)
(* fail; and the records of testfunc come out in order: for every base and *)
(* limit for which a number too large for an int is too long a text.       *)
(***************************************************************************)
THEOREM WhatGoesInComesOut == Spec => []DataIsKept
<1>1. Init => ProcInv /\ ReadInv /\ FifoInv
  BY Zenon, ProcKeeps, ReadKeeps, FifoKeeps DEF Init
<1>2. ProcInv /\ ReadInv /\ FifoInv /\ [Next]_vars => (ProcInv /\ ReadInv /\ FifoInv)'
  BY Zenon, ProcKeeps, ReadKeeps, FifoKeeps, EachMovesAlone
<1>3. ProcInv /\ ReadInv /\ FifoInv => DataIsKept
  BY Zenon, FifoKeeps DEF ProcInv, ReadInv, DataIsKept
<1>4. QED
  BY <1>1, <1>2, <1>3, PTL DEF Spec

(***************************************************************************)
(* procfs_cleanup, create_fd with init_createfd_test, and MyPrintk with    *)
(* exit_kthread give back the entry, the descriptor and the memory, but    *)
(* for the exceptions AllGivenBack names.                                  *)
(***************************************************************************)
THEOREM WhatIsTakenIsGivenBack == Spec => []AllGivenBack
<1>1. Init => ProcInv /\ FdInv /\ ThreadInv
  BY Zenon, ProcKeeps, FdKeeps, ThreadKeepsInv DEF Init
<1>2. ProcInv /\ FdInv /\ ThreadInv /\ [Next]_vars => (ProcInv /\ FdInv /\ ThreadInv)'
  BY Zenon, ProcKeeps, FdKeeps, ThreadKeepsInv, EachMovesAlone
<1>3. ProcInv /\ FdInv /\ ThreadInv => AllGivenBack
  BY Zenon, ThreadKeepsInv DEF ProcInv, FdInv, AllGivenBack
<1>4. QED
  BY <1>1, <1>2, <1>3, PTL DEF Spec

(***************************************************************************)
(* iterate_mount_point gives every reference back, and meets no mount      *)
(* twice unless one is moved under it; if the tree does not change it      *)
(* meets every mount, each after its parent, and reads none that is gone;  *)
(* and the list it fills has no type twice: for every tree, every          *)
(* assignment of types and every mount that the walk starts below.         *)
(***************************************************************************)
THEOREM EveryMountIsWalkedOnce == Spec => []Walked
<1>1. Init => WalkInv
  BY Zenon, WalkKeeps DEF Init
<1>2. WalkInv /\ [Next]_vars => WalkInv'
  BY Zenon, WalkKeeps, EachMovesAlone
<1>3. WalkInv => Walked
  BY Zenon, WalkKeeps
<1>4. QED
  BY <1>1, <1>2, <1>3, PTL DEF Spec
=============================================================================
