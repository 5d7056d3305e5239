------------------------------ MODULE ListUse -------------------------------
(***************************************************************************)
(* A program that keeps one list of any of the five families of queue.h    *)
(* and calls its macros within their contract: it inserts an entry that is *)
(* not linked, next to one that is, and removes one that is.  Both programs*)
(* of the repository that include queue.h do so with a TAILQ.              *)
(*                                                                         *)
(* q is the list the caller means, kept beside the memory the macros work  *)
(* on, and at is the position in q a loop has come to; neither is read by a*)
(* macro.                                                                  *)
(***************************************************************************)
EXTENDS ListOrder

VARIABLES kind,    \* the family, fixed by the declaration of the list
          mem,     \* the memory of BsdQueue
          q,       \* the entries the caller has linked, in order
          mode,    \* "idle", or the loop under way
          cur,     \* its variable: var of *_FOREACH, curelm of *_REMOVE
          target,  \* the entry *_REMOVE looks for
          at       \* the position of q the loop is at

vars == <<kind, mem, q, mode, cur, target, at>>

Empty(k) == CASE k = "SLIST" -> SLIST_INIT
              [] k = "STAILQ" -> STAILQ_INIT
              [] k = "DLIST" -> DLIST_INIT
              [] k = "TAILQ" -> TAILQ_INIT
              [] k = "CIRCLEQ" -> CIRCLEQ_INIT

Init == /\ kind \in Kinds
        /\ mem = Empty(kind)
        /\ q = <<>>
        /\ mode = "idle" /\ cur = NULL /\ target = NULL /\ at = 0

Idle == mode = "idle" /\ UNCHANGED <<kind, mode, cur, target, at>>

InsertHead(e) ==
  /\ Idle
  /\ e \notin Linked(q)
  /\ mem' = CASE kind = "SLIST" -> SLIST_INSERT_HEAD(mem, e)
              [] kind = "STAILQ" -> STAILQ_INSERT_HEAD(mem, e)
              [] kind = "DLIST" -> DLIST_INSERT_HEAD(mem, e)
              [] kind = "TAILQ" -> TAILQ_INSERT_HEAD(mem, e)
              [] kind = "CIRCLEQ" -> CIRCLEQ_INSERT_HEAD(mem, e)
  /\ q' = InsertedAfter(q, 0, e)

InsertTail(e) ==
  /\ Idle
  /\ HasTail(kind)
  /\ e \notin Linked(q)
  /\ mem' = CASE kind = "STAILQ" -> STAILQ_INSERT_TAIL(mem, e)
              [] kind = "TAILQ" -> TAILQ_INSERT_TAIL(mem, e)
              [] kind = "CIRCLEQ" -> CIRCLEQ_INSERT_TAIL(mem, e)
  /\ q' = InsertedAfter(q, Len(q), e)

InsertAfter(i, e) ==
  /\ Idle
  /\ e \notin Linked(q)
  /\ mem' = CASE kind = "SLIST" -> SLIST_INSERT_AFTER(mem, q[i], e)
              [] kind = "STAILQ" -> STAILQ_INSERT_AFTER(mem, q[i], e)
              [] kind = "DLIST" -> DLIST_INSERT_AFTER(mem, q[i], e)
              [] kind = "TAILQ" -> TAILQ_INSERT_AFTER(mem, q[i], e)
              [] kind = "CIRCLEQ" -> CIRCLEQ_INSERT_AFTER(mem, q[i], e)
  /\ q' = InsertedAfter(q, i, e)

InsertBefore(i, e) ==
  /\ Idle
  /\ HasBack(kind)
  /\ e \notin Linked(q)
  /\ mem' = CASE kind = "DLIST" -> DLIST_INSERT_BEFORE(mem, q[i], e)
              [] kind = "TAILQ" -> TAILQ_INSERT_BEFORE(mem, q[i], e)
              [] kind = "CIRCLEQ" -> CIRCLEQ_INSERT_BEFORE(mem, q[i], e)
  /\ q' = InsertedAfter(q, i - 1, e)

\* *_REMOVE of the families that need no search.
Remove(i) ==
  /\ Idle
  /\ HasBack(kind)
  /\ mem' = CASE kind = "DLIST" -> DLIST_REMOVE(mem, q[i])
              [] kind = "TAILQ" -> TAILQ_REMOVE(mem, q[i])
              [] kind = "CIRCLEQ" -> CIRCLEQ_REMOVE(mem, q[i])
  /\ q' = Without(q, i, 1)

\* *_REMOVE_HEAD, and *_REMOVE of the first entry, which calls it.
RemoveHead ==
  /\ Idle
  /\ ~HasBack(kind)
  /\ q # <<>>
  /\ mem' = CASE kind = "SLIST" -> SLIST_REMOVE_HEAD(mem)
              [] kind = "STAILQ" -> STAILQ_REMOVE_HEAD(mem)
  /\ q' = Without(q, 1, 1)

RemoveHeadUntil(i) ==
  /\ Idle
  /\ kind = "STAILQ"
  /\ mem' = STAILQ_REMOVE_HEAD_UNTIL(mem, q[i])
  /\ q' = Without(q, 1, i)

\* SLIST_REMOVE and STAILQ_REMOVE of another entry: the search for the entry
\* before it, one step a round.
RemoveStart(i) ==
  /\ mode = "idle"
  /\ ~HasBack(kind)
  /\ mem.next[ListHead] # q[i]
  /\ mode' = "remove"
  /\ cur' = mem.next[ListHead]
  /\ target' = q[i]
  /\ at' = 1
  /\ UNCHANGED <<kind, mem, q>>

RemoveSearch ==
  /\ mode = "remove"
  /\ mem.next[cur] # target
  /\ cur' = mem.next[cur]
  /\ at' = at + 1
  /\ UNCHANGED <<kind, mem, q, mode, target>>

RemoveFound ==
  /\ mode = "remove"
  /\ mem.next[cur] = target
  /\ mem' = CASE kind = "SLIST" -> SLIST_REMOVE_AFTER(mem, cur)
              [] kind = "STAILQ" -> STAILQ_REMOVE_AFTER(mem, cur)
  /\ q' = Without(q, at + 1, 1)
  /\ mode' = "idle" /\ cur' = NULL /\ target' = NULL /\ at' = 0
  /\ UNCHANGED kind

\* *_FOREACH and *_FOREACH_REVERSE with a body that leaves the list alone.
ForeachStart ==
  /\ mode = "idle"
  /\ mode' = "forward"
  /\ cur' = mem.next[ListHead]
  /\ at' = 1
  /\ UNCHANGED <<kind, mem, q, target>>

ForeachNext ==
  /\ mode = "forward"
  /\ cur # End(kind)
  /\ cur' = mem.next[cur]
  /\ at' = at + 1
  /\ UNCHANGED <<kind, mem, q, mode, target>>

ReverseStart ==
  /\ mode = "idle"
  /\ kind \in {"TAILQ", "CIRCLEQ"}
  /\ mode' = "reverse"
  /\ cur' = IF kind = "TAILQ" THEN TAILQ_LAST(mem) ELSE mem.prev[ListHead]
  /\ at' = Len(q)
  /\ UNCHANGED <<kind, mem, q, target>>

ReverseNext ==
  /\ mode = "reverse"
  /\ cur # End(kind)
  /\ cur' = IF kind = "TAILQ" THEN TAILQ_PREV(mem, cur) ELSE mem.prev[cur]
  /\ at' = at - 1
  /\ UNCHANGED <<kind, mem, q, mode, target>>

ForeachEnd ==
  /\ mode \in {"forward", "reverse"}
  /\ cur = End(kind)
  /\ mode' = "idle" /\ cur' = NULL /\ at' = 0
  /\ UNCHANGED <<kind, mem, q, target>>

Next == \/ \E e \in Elems : InsertHead(e) \/ InsertTail(e)
        \/ \E i \in 1..Len(q), e \in Elems : InsertAfter(i, e) \/ InsertBefore(i, e)
        \/ \E i \in 1..Len(q) : Remove(i) \/ RemoveHeadUntil(i) \/ RemoveStart(i)
        \/ RemoveHead \/ RemoveSearch \/ RemoveFound
        \/ ForeachStart \/ ForeachNext \/ ReverseStart \/ ReverseNext \/ ForeachEnd

Spec == Init /\ [][Next]_vars

-----------------------------------------------------------------------------
\* The memory is a memory and the caller's list a list of entries.
TypeOK == /\ kind \in Kinds
          /\ mem \in Memory
          /\ q \in Seq(Elems)
          /\ mode \in {"idle", "remove", "forward", "reverse"}
          /\ cur \in Words
          /\ target \in Elems \cup {NULL}
          /\ at \in Nat

\* After any sequence of macros the list in memory is the list the caller means
\* (every INSERT, REMOVE and INIT macro of queue.h).
ListIsChained == Chained(kind, mem, q)

\* Every loop of queue.h is at the entry whose turn it is: FOREACH visits the
\* entries first to last and FOREACH_REVERSE last to first, through TAILQ_LAST
\* and TAILQ_PREV for a TAILQ, each once and all of them before it stops; the
\* search of SLIST_REMOVE and STAILQ_REMOVE stays before the entry it looks for
\* and so never runs off the list.
LoopsAreInStep ==
  /\ mode = "forward" => at \in 1..Len(q) + 1 /\ cur = Node(kind, q, at)
  /\ mode = "reverse" => at \in 0..Len(q) /\ cur = Behind(kind, q, at)
  /\ mode = "remove" => /\ at \in 1..Len(q) - 1
                        /\ cur = q[at]
                        /\ \E i \in at + 1..Len(q) : target = q[i]
=============================================================================
