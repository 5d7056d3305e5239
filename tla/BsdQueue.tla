------------------------------ MODULE BsdQueue ------------------------------
(***************************************************************************)
(* The list macros of queue.h: SLIST, STAILQ, DLIST, TAILQ and CIRCLEQ, as *)
(* operators from a memory to the memory after the macro.                  *)
(*                                                                         *)
(* The memory m holds the two words of every entry and of the head:        *)
(*   m.next[e]         sle_next, stqe_next, le_next, tqe_next, cqe_next    *)
(*   m.next[ListHead]  slh_first, stqh_first, lh_first, tqh_first,         *)
(*                     cqh_first                                           *)
(*   m.prev[e]         le_prev, tqe_prev, cqe_prev                         *)
(*   m.prev[ListHead]  stqh_last, tqh_last, cqh_last                       *)
(* A word that holds the address of a next field (le_prev, tqe_prev,       *)
(* stqh_last, tqh_last) is modelled by the entry, or the head, that field  *)
(* belongs to.  The entry of a TAILQ is laid out like its head, which is   *)
(* what TAILQ_LAST and TAILQ_PREV rely on: the second word of either one   *)
(* is m.prev.  A family that has no second word leaves m.prev alone.       *)
(***************************************************************************)
CONSTANTS Elems,      \* the structures a program can link
          ListHead,   \* the head of the list
          NULL

ASSUME QueueAssumption == /\ ListHead \notin Elems
                          /\ NULL \notin Elems \cup {ListHead}

Cells == Elems \cup {ListHead}
Words == Cells \cup {NULL}
Memory == [next : [Cells -> Words], prev : [Cells -> Words]]

\* Fault: INIT forgets to set the head's first word.
HeadNotSet == [next |-> [c \in Cells |-> IF c = ListHead THEN "unset" ELSE NULL],
               prev |-> [c \in Cells |-> NULL]]

\* A list head after *_HEAD_INITIALIZER or *_INIT; nothing is known of the
\* words of an entry that was never linked, taken as NULL here.
SLIST_INIT == [next |-> [c \in Cells |-> NULL], prev |-> [c \in Cells |-> NULL]]
STAILQ_INIT == [SLIST_INIT EXCEPT !.prev[ListHead] = ListHead]
DLIST_INIT == SLIST_INIT
TAILQ_INIT == STAILQ_INIT
CIRCLEQ_INIT == [STAILQ_INIT EXCEPT !.next[ListHead] = ListHead]

(***************************************************************************)
(* SLIST.  An insertion at the head is the insertion after an entry with   *)
(* slh_first in the place of sle_next; so it is in the next three families.*)
(***************************************************************************)
SLIST_INSERT_AFTER(m, c, elm) ==
  [m EXCEPT !.next = [@ EXCEPT ![elm] = m.next[c], ![c] = elm]]

SLIST_INSERT_HEAD(m, elm) == SLIST_INSERT_AFTER(m, ListHead, elm)

SLIST_REMOVE_HEAD(m) ==
  [m EXCEPT !.next[ListHead] = m.next[m.next[ListHead]]]

\* The last statement of SLIST_REMOVE, once the search has found curelm.
SLIST_REMOVE_AFTER(m, curelm) ==
  [m EXCEPT !.next[curelm] = m.next[m.next[curelm]]]

(***************************************************************************)
(* STAILQ.                                                                 *)
(***************************************************************************)
STAILQ_INSERT_AFTER(m, c, elm) ==
  [next |-> [m.next EXCEPT ![elm] = m.next[c], ![c] = elm],
   prev |-> IF m.next[c] = NULL THEN [m.prev EXCEPT ![ListHead] = elm]
                                ELSE m.prev]

STAILQ_INSERT_HEAD(m, elm) == STAILQ_INSERT_AFTER(m, ListHead, elm)

STAILQ_INSERT_TAIL(m, elm) ==
  [next |-> [m.next EXCEPT ![elm] = NULL, ![m.prev[ListHead]] = elm],
   prev |-> [m.prev EXCEPT ![ListHead] = elm]]

\* Makes x the entry after c, and c the last one when there is no x.
STAILQ_CUT(m, c, x) ==
  [next |-> [m.next EXCEPT ![c] = x],
   prev |-> IF x = NULL THEN [m.prev EXCEPT ![ListHead] = c] ELSE m.prev]

STAILQ_REMOVE_HEAD(m) == STAILQ_CUT(m, ListHead, m.next[m.next[ListHead]])
STAILQ_REMOVE_HEAD_UNTIL(m, elm) == STAILQ_CUT(m, ListHead, m.next[elm])
STAILQ_REMOVE_AFTER(m, curelm) == STAILQ_CUT(m, curelm, m.next[m.next[curelm]])

(***************************************************************************)
(* DLIST.                                                                  *)
(***************************************************************************)
DLIST_INSERT_AFTER(m, c, elm) ==
  LET x == m.next[c]
      p == IF x # NULL THEN [m.prev EXCEPT ![x] = elm] ELSE m.prev
  IN  [next |-> [m.next EXCEPT ![elm] = x, ![c] = elm],
       prev |-> [p EXCEPT ![elm] = c]]

DLIST_INSERT_HEAD(m, elm) == DLIST_INSERT_AFTER(m, ListHead, elm)

DLIST_INSERT_BEFORE(m, listelm, elm) ==
  LET c == m.prev[listelm]
  IN  [next |-> [m.next EXCEPT ![elm] = listelm, ![c] = elm],
       prev |-> [m.prev EXCEPT ![elm] = c, ![listelm] = elm]]

DLIST_REMOVE(m, elm) ==
  LET x == m.next[elm]
  IN  [next |-> [m.next EXCEPT ![m.prev[elm]] = x],
       prev |-> IF x # NULL THEN [m.prev EXCEPT ![x] = m.prev[elm]] ELSE m.prev]

(***************************************************************************)
(* TAILQ.                                                                  *)
(***************************************************************************)
TAILQ_INSERT_AFTER(m, c, elm) ==
  LET x == m.next[c]
      p == IF x # NULL THEN [m.prev EXCEPT ![x] = elm]
                       ELSE [m.prev EXCEPT ![ListHead] = elm]
  IN  [next |-> [m.next EXCEPT ![elm] = x, ![c] = elm],
       prev |-> [p EXCEPT ![elm] = c]]

TAILQ_INSERT_HEAD(m, elm) == TAILQ_INSERT_AFTER(m, ListHead, elm)
TAILQ_INSERT_BEFORE(m, listelm, elm) == DLIST_INSERT_BEFORE(m, listelm, elm)

\* Fault: the last pointer is not moved.
InsertTailKeepsLast(m, elm) ==
  LET c == m.prev[ListHead]
  IN  [next |-> [m.next EXCEPT ![elm] = NULL, ![c] = elm],
       prev |-> [m.prev EXCEPT ![elm] = c]]

TAILQ_INSERT_TAIL(m, elm) ==
  LET c == m.prev[ListHead]
  IN  [next |-> [m.next EXCEPT ![elm] = NULL, ![c] = elm],
       prev |-> [m.prev EXCEPT ![elm] = c, ![ListHead] = elm]]

\* Faults: the last pointer, or the back pointer of the entry that
\* follows, is left as it was.
RemoveKeepsLast(m, elm) ==
  LET x == m.next[elm]
  IN  [next |-> [m.next EXCEPT ![m.prev[elm]] = x],
       prev |-> IF x # NULL THEN [m.prev EXCEPT ![x] = m.prev[elm]] ELSE m.prev]

RemoveKeepsBack(m, elm) ==
  LET x == m.next[elm]
  IN  [next |-> [m.next EXCEPT ![m.prev[elm]] = x],
       prev |-> IF x # NULL THEN m.prev
                            ELSE [m.prev EXCEPT ![ListHead] = m.prev[elm]]]

TAILQ_REMOVE(m, elm) ==
  LET x == m.next[elm]
  IN  [next |-> [m.next EXCEPT ![m.prev[elm]] = x],
       prev |-> IF x # NULL THEN [m.prev EXCEPT ![x] = m.prev[elm]]
                            ELSE [m.prev EXCEPT ![ListHead] = m.prev[elm]]]

TAILQ_LAST(m) == m.next[m.prev[m.prev[ListHead]]]

\* Fault: the entry that owns the next field, also when that is
\* the head.
PrevIsOwner(m, elm) == m.prev[elm]

TAILQ_PREV(m, elm) == m.next[m.prev[m.prev[elm]]]

(***************************************************************************)
(* CIRCLEQ.  Here the second words are plain pointers to entries.          *)
(***************************************************************************)
CIRCLEQ_INSERT_AFTER(m, listelm, elm) ==
  LET x == m.next[listelm]
      p == [m.prev EXCEPT ![elm] = listelm]
  IN  [next |-> [m.next EXCEPT ![elm] = x, ![listelm] = elm],
       prev |-> IF x = ListHead THEN [p EXCEPT ![ListHead] = elm]
                                ELSE [p EXCEPT ![x] = elm]]

CIRCLEQ_INSERT_BEFORE(m, listelm, elm) ==
  LET c == m.prev[listelm]
      n == [m.next EXCEPT ![elm] = listelm]
  IN  [next |-> IF c = ListHead THEN [n EXCEPT ![ListHead] = elm]
                                ELSE [n EXCEPT ![c] = elm],
       prev |-> [m.prev EXCEPT ![elm] = c, ![listelm] = elm]]

CIRCLEQ_INSERT_HEAD(m, elm) ==
  LET x == m.next[ListHead]
      p == [m.prev EXCEPT ![elm] = ListHead]
  IN  [next |-> [m.next EXCEPT ![elm] = x, ![ListHead] = elm],
       prev |-> IF m.prev[ListHead] = ListHead THEN [p EXCEPT ![ListHead] = elm]
                                               ELSE [p EXCEPT ![x] = elm]]

CIRCLEQ_INSERT_TAIL(m, elm) ==
  LET c == m.prev[ListHead]
      n == [m.next EXCEPT ![elm] = ListHead]
  IN  [next |-> IF m.next[ListHead] = ListHead THEN [n EXCEPT ![ListHead] = elm]
                                               ELSE [n EXCEPT ![c] = elm],
       prev |-> [m.prev EXCEPT ![elm] = c, ![ListHead] = elm]]

CIRCLEQ_REMOVE(m, elm) ==
  LET x == m.next[elm]
      c == m.prev[elm]
  IN  [next |-> IF c = ListHead THEN [m.next EXCEPT ![ListHead] = x]
                                ELSE [m.next EXCEPT ![c] = x],
       prev |-> IF x = ListHead THEN [m.prev EXCEPT ![ListHead] = c]
                                ELSE [m.prev EXCEPT ![x] = c]]
=============================================================================
