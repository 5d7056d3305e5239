----------------------------- MODULE ListOrder ------------------------------
(***************************************************************************)
(* What it means for the memory of BsdQueue to hold a list: the positions  *)
(* of a list, and the chain of words that represents it.                   *)
(***************************************************************************)
EXTENDS BsdQueue, Naturals, Sequences

Kinds == {"SLIST", "STAILQ", "DLIST", "TAILQ", "CIRCLEQ"}

\* What the two questions of the table at the head of queue.h say of a family.
HasTail(k) == k \in {"STAILQ", "TAILQ", "CIRCLEQ"}
HasBack(k) == k \in {"DLIST", "TAILQ", "CIRCLEQ"}
End(k) == IF k = "CIRCLEQ" THEN ListHead ELSE NULL

Linked(s) == {s[i] : i \in 1..Len(s)}
InsertedAfter(s, i, e) ==
  [j \in 1..Len(s) + 1 |-> IF j <= i THEN s[j] ELSE IF j = i + 1 THEN e ELSE s[j - 1]]
Without(s, i, n) ==
  [j \in 1..Len(s) - n |-> IF j < i THEN s[j] ELSE s[j + n]]

\* The i-th cell of the list s of family k, its head being the 0-th.
Node(k, s, i) == IF i = 0 THEN ListHead ELSE IF i \in 1..Len(s) THEN s[i] ELSE End(k)

\* The words of memory chain exactly the entries the caller has linked, each
\* once, in the caller's order: every next leads to the following entry and the
\* last one to the end mark; where the family has back pointers every one leads
\* to the cell before; where it has a last pointer that one designates the last
\* cell, the head itself when the list is empty.
Chained(k, m, s) ==
  /\ \A i, j \in 1..Len(s) : s[i] = s[j] => i = j
  /\ \A i \in 0..Len(s) : m.next[Node(k, s, i)] = Node(k, s, i + 1)
  /\ HasBack(k) => \A i \in 1..Len(s) : m.prev[Node(k, s, i)] = Node(k, s, i - 1)
  /\ HasTail(k) => m.prev[ListHead] = Node(k, s, Len(s))

\* The entry at position i as a loop that runs backwards sees it.
Behind(k, s, i) == IF i = 0 THEN End(k) ELSE s[i]
=============================================================================
