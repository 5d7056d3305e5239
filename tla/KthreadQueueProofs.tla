------------------------- MODULE KthreadQueueProofs -------------------------
(***************************************************************************)
(* The queue of Kthread_Queue/thread.c for any number of records: what the *)
(* drain loop touches is allocated, the queue is a FIFO, unloading in order*)
(* leaves nothing behind and stops only tasks that are there.              *)
(*                                                                         *)
(* The invariant has two parts.  QueueInv ties the words of memory, the    *)
(* allocated records and the variables of the drain loop to the queue;     *)
(* ModuleInv says how far test_exit has come when a thread has ended.      *)
(***************************************************************************)
EXTENDS KthreadQueue, ListProofs

\* The allocated records are the queued ones and the one thread1 is about to
\* queue; thread2 drains under the lock and stands on the oldest record.
QueueInv ==
  /\ TypeOK
  /\ QueueIsChained
  /\ live = Linked(q) \cup (IF pc[1] = "insert" THEN {rec} ELSE {})
  /\ pc[1] = "insert" => rec \in Elems /\ rec \notin Linked(q)
  /\ pc[2] = "drain" => /\ lock = "thread2"
                        /\ var = Node("TAILQ", q, 1)
                        /\ tmp = IF var = NULL THEN NULL ELSE Node("TAILQ", q, 2)

\* A thread that has ended was stopped or killed, between rounds; test_exit has
\* waited for thread1 before it clears status2; a round of thread2 that saw this
\* leaves the queue empty.
ModuleInv ==
  /\ \A t \in Threads : task[t] = "gone" => t \in sig \cup stop
  /\ 1 \in stop => module \notin {"init1", "init2", "loaded", "stop1"}
  /\ 2 \in stop => module \in {"join2", "gone", "oops"}
  /\ task[1] = "none" <=> module = "init1"
  /\ task[2] = "none" <=> module \in {"init1", "init2"}
  /\ \A t \in Threads : task[t] \notin {"run", "gone"} => pc[t] = "wait"
  /\ task[1] = "gone" => pc[1] # "insert"
  /\ task[2] = "gone" => pc[2] \in {"wait", "check"}
  /\ status[2] = 0 => task[1] = "gone"
  /\ module \in {"joined1", "stop2", "join2", "gone"} => task[1] = "gone"
  /\ module = "gone" => task[2] = "gone"
  /\ last => status[2] = 0
  /\ last /\ pc[2] \notin {"work", "drain"} => q = <<>>
  /\ StopsAreSafe

QueueIndInv == QueueInv /\ ModuleInv

-----------------------------------------------------------------------------
\* Facts about a TAILQ whose words chain s, at its two ends.
LEMMA EndsOfChain ==
  ASSUME NEW m \in Memory, NEW s \in Seq(Elems), Chained("TAILQ", m, s)
  PROVE  /\ m.next[ListHead] = Node("TAILQ", s, 1)
         /\ Node("TAILQ", s, 1) = NULL <=> s = <<>>
         /\ s # <<>> => /\ Node("TAILQ", s, 1) = s[1] /\ s[1] \in Elems
                        /\ m.next[s[1]] = Node("TAILQ", s, 2)
                        /\ m.prev[s[1]] = ListHead
                        /\ 1 \in 1..Len(s)
         /\ Node("TAILQ", s, 2) \in Linked(s) \cup {NULL}
         /\ Node("TAILQ", s, 1) \in Linked(s) \cup {NULL}
<1>1. "TAILQ" \in Kinds /\ HasBack("TAILQ") /\ End("TAILQ") = NULL
  BY DEF Kinds, HasBack, End
<1>2. 0 \in 0..Len(s) /\ Len(s) \in Nat /\ (s # <<>> => 1 \in 1..Len(s) /\ 1 \in 0..Len(s))
  BY EmptySeq
<1>3. m.next[ListHead] = Node("TAILQ", s, 1)
  <2>1. m.next[Node("TAILQ", s, 0)] = Node("TAILQ", s, 0 + 1)
    BY <1>1, <1>2, CellFacts
  <2> QED
    BY <2>1 DEF Node
<1>4. ASSUME s # <<>>
      PROVE  /\ Node("TAILQ", s, 1) = s[1] /\ s[1] \in Elems
             /\ m.next[s[1]] = Node("TAILQ", s, 2)
             /\ m.prev[s[1]] = ListHead
  <2>1. Node("TAILQ", s, 1) = s[1] /\ s[1] \in Elems
    BY <1>1, <1>2, <1>4, NodeFacts
  <2>2. /\ m.next[Node("TAILQ", s, 1)] = Node("TAILQ", s, 1 + 1)
        /\ m.prev[Node("TAILQ", s, 1)] = Node("TAILQ", s, 1 - 1)
    BY <1>1, <1>2, <1>4, CellFacts
  <2>3. Node("TAILQ", s, 1 - 1) = ListHead /\ 1 + 1 = 2
    BY DEF Node
  <2> QED
    BY <2>1, <2>2, <2>3
<1>5. Node("TAILQ", s, 1) = NULL <=> s = <<>>
  BY <1>1, <1>2, <1>4, QueueAssumption DEF Node
<1>6. /\ Node("TAILQ", s, 2) \in Linked(s) \cup {NULL}
      /\ Node("TAILQ", s, 1) \in Linked(s) \cup {NULL}
  BY <1>1 DEF Node, Linked
<1> QED
  BY <1>2, <1>3, <1>4, <1>5, <1>6

\* TAILQ_INSERT_TAIL appends.
LEMMA InsertAppends ==
  ASSUME NEW m \in Memory, NEW s \in Seq(Elems), Chained("TAILQ", m, s),
         NEW e \in Elems, e \notin Linked(s)
  PROVE  /\ TAILQ_INSERT_TAIL(m, e) \in Memory
         /\ Chained("TAILQ", TAILQ_INSERT_TAIL(m, e), Append(s, e))
         /\ Append(s, e) \in Seq(Elems)
         /\ Linked(Append(s, e)) = Linked(s) \cup {e}
<1>1. "TAILQ" \in Kinds /\ Len(s) \in 0..Len(s)
  BY DEF Kinds
<1>2. Append(s, e) = InsertedAfter(s, Len(s), e)
  <2>1. /\ Append(s, e) \in Seq(Elems) /\ Len(Append(s, e)) = Len(s) + 1
        /\ \A i \in 1..Len(s) + 1 : Append(s, e)[i] = IF i = Len(s) + 1 THEN e ELSE s[i]
    OBVIOUS
  <2>2. /\ InsertedAfter(s, Len(s), e) \in Seq(Elems)
        /\ Len(InsertedAfter(s, Len(s), e)) = Len(s) + 1
    BY <1>1, InsertFacts
  <2>3. \A i \in 1..Len(s) + 1 :
          InsertedAfter(s, Len(s), e)[i] = IF i = Len(s) + 1 THEN e ELSE s[i]
    BY DEF InsertedAfter
  <2> QED
    BY <2>1, <2>2, <2>3, SeqEqual
<1>3. TAILQ_INSERT_TAIL(m, e) \in Memory /\ Chained("TAILQ", TAILQ_INSERT_TAIL(m, e), Append(s, e))
  BY <1>1, <1>2, TailqInsertTail, ChainInsert
<1>4. Append(s, e) \in Seq(Elems) /\ Len(Append(s, e)) = Len(s) + 1 /\ Len(s) \in Nat
  OBVIOUS
<1>5. \A i \in 1..Len(s) + 1 : Append(s, e)[i] = IF i = Len(s) + 1 THEN e ELSE s[i]
  OBVIOUS
<1>6. Linked(Append(s, e)) \subseteq Linked(s) \cup {e}
  BY <1>4, <1>5 DEF Linked
<1>7. e \in Linked(Append(s, e)) /\ Linked(s) \subseteq Linked(Append(s, e))
  BY <1>4, <1>5 DEF Linked
<1> QED
  BY <1>3, <1>4, <1>6, <1>7

\* TAILQ_REMOVE of the first record leaves the tail of the queue.
LEMMA RemoveDequeues ==
  ASSUME NEW m \in Memory, NEW s \in Seq(Elems), Chained("TAILQ", m, s), s # <<>>
  PROVE  /\ TAILQ_REMOVE(m, s[1]) \in Memory
         /\ Chained("TAILQ", TAILQ_REMOVE(m, s[1]), Tail(s))
         /\ Tail(s) \in Seq(Elems)
         /\ Linked(Tail(s)) = Linked(s) \ {s[1]}
         /\ Node("TAILQ", Tail(s), 1) = Node("TAILQ", s, 2)
<1>1. /\ "TAILQ" \in Kinds /\ HasBack("TAILQ") /\ 1 \in 1..Len(s) /\ Len(s) \in Nat
      /\ 1 \in 1..Len(s) - 1 + 1
  BY EmptySeq DEF Kinds, HasBack
<1>2. /\ Tail(s) \in Seq(Elems) /\ Len(Tail(s)) = Len(s) - 1
      /\ \A i \in 1..Len(s) - 1 : Tail(s)[i] = s[i + 1]
  BY HeadTailProperties
<1>3. Tail(s) = Without(s, 1, 1)
  <2>1. Without(s, 1, 1) \in Seq(Elems) /\ Len(Without(s, 1, 1)) = Len(s) - 1
    BY <1>1, WithoutFacts
  <2>2. \A i \in 1..Len(s) - 1 : Without(s, 1, 1)[i] = s[i + 1]
    BY <1>1 DEF Without
  <2> QED
    BY <1>2, <2>1, <2>2, SeqEqual
<1>4. Node("TAILQ", s, 1) = s[1]
  BY <1>1, NodeFacts
<1>5. TAILQ_REMOVE(m, s[1]) \in Memory /\ TakesOut("TAILQ", m, s, 1, 1, TAILQ_REMOVE(m, s[1]))
  BY <1>1, <1>4, DoubleRemove
<1>6. Chained("TAILQ", TAILQ_REMOVE(m, s[1]), Tail(s))
  BY <1>1, <1>3, <1>5, ChainRemove
<1>7. \A i, j \in 1..Len(s) : s[i] = s[j] => i = j
  BY DEF Chained
<1>8. Linked(Tail(s)) \subseteq Linked(s) \ {s[1]}
  BY <1>1, <1>2, <1>7 DEF Linked
<1>9. ASSUME NEW i \in 1..Len(s), s[i] # s[1]
      PROVE  s[i] \in Linked(Tail(s))
  <2>1. i - 1 \in 1..Len(s) - 1 /\ (i - 1) + 1 = i
    BY <1>1, <1>9
  <2>2. Tail(s)[i - 1] = s[i]
    BY <1>2, <2>1
  <2> QED
    BY <1>2, <2>1, <2>2 DEF Linked
<1>10. Linked(Tail(s)) = Linked(s) \ {s[1]}
  BY <1>8, <1>9 DEF Linked
<1>11. Node("TAILQ", Tail(s), 1) = Node("TAILQ", s, 2)
  BY <1>1, <1>2 DEF Node
<1> QED
  BY <1>2, <1>5, <1>6, <1>10, <1>11

-----------------------------------------------------------------------------
\* The state test_init starts from.
LEMMA QueueInitInv == Init => QueueIndInv
<1> SUFFICES ASSUME Init PROVE QueueIndInv
  OBVIOUS
<1>1. TypeOK
  <2>1. mem \in Memory
    BY DEF Init, TAILQ_INIT, STAILQ_INIT, SLIST_INIT, Memory, Cells, Words
  <2>2. q \in Seq(Elems) /\ live \in SUBSET Elems /\ stop \in SUBSET Threads
        /\ sig \in SUBSET Threads
    BY EmptySeq DEF Init
  <2> QED
    BY <2>1, <2>2 DEF Init, TypeOK
<1>2. QueueIsChained
  <2>1. /\ mem.next[ListHead] = NULL /\ mem.prev[ListHead] = ListHead
    BY DEF Init, TAILQ_INIT, STAILQ_INIT, SLIST_INIT, Cells
  <2> QED
    BY <2>1 DEF QueueIsChained, Chained, Node, End, Init
<1>3. QueueInv
  BY <1>1, <1>2 DEF QueueInv, Init, Linked, Threads
<1>4. ModuleInv
  BY DEF ModuleInv, StopsAreSafe, Init, Threads
<1> QED
  BY <1>3, <1>4 DEF QueueIndInv

\* Steps that leave the queue and the drain loop alone.
LEMMA QuietKeepsQueue ==
  ASSUME QueueInv, TypeOK', UNCHANGED <<queue, lock, rec, var, tmp>>,
         pc'[1] = pc[1] \/ (pc[1] # "insert" /\ pc'[1] # "insert"),
         pc'[2] = pc[2] \/ (pc[2] # "drain" /\ pc'[2] # "drain")
  PROVE  QueueInv'
BY DEF QueueInv, QueueIsChained, queue

\* The kernel's steps and those of test_init and test_exit.
LEMMA KernelKeeps ==
  ASSUME QueueIndInv, NEW t \in Threads, Module(t) \/ FirstRun(t) \/ Signal(t)
  PROVE  QueueIndInv'
<1>1. TypeOK /\ QueueInv /\ ModuleInv
  BY DEF QueueIndInv, QueueInv
<1>2. UNCHANGED <<queue, lock, rec, var, tmp, pc, last>>
  BY DEF Module, Creates, Wakes, kthread_stop, Joined, FirstRun, Signal
<1>3. TypeOK'
  <2>1. mem' \in Memory /\ q' \in Seq(Elems) /\ live' \in SUBSET Elems
    BY <1>1, <1>2 DEF TypeOK, queue
  <2>2. CASE FirstRun(t)
    BY <1>1, <1>2, <2>1, <2>2 DEF TypeOK, FirstRun, Threads
  <2>7. CASE Signal(t)
    BY <1>1, <1>2, <2>1, <2>7 DEF TypeOK, Signal, Threads
  <2>3. CASE Creates(t)
    BY <1>1, <1>2, <2>1, <2>3 DEF TypeOK, Creates, kthread_run, Threads
  <2>4. CASE Wakes(t)
    BY <1>1, <1>2, <2>1, <2>4 DEF TypeOK, Wakes, Threads
  <2>5. CASE kthread_stop(t)
    BY <1>1, <1>2, <2>1, <2>5 DEF TypeOK, kthread_stop, Threads
  <2>6. CASE Joined(t)
    BY <1>1, <1>2, <2>1, <2>6 DEF TypeOK, Joined, Threads
  <2> QED
    BY <2>2, <2>3, <2>4, <2>5, <2>6, <2>7 DEF Module
<1>4. QueueInv'
  BY <1>1, <1>2, <1>3, QuietKeepsQueue
<1>5. ModuleInv'
  <2>1. CASE Creates(t)
    BY <1>1, <1>2, <2>1 DEF Creates, kthread_run, ModuleInv, StopsAreSafe, TypeOK, Threads, queue
  <2>2. CASE Wakes(t)
    BY <1>1, <1>2, <2>2 DEF Wakes, ModuleInv, StopsAreSafe, TypeOK, Threads, queue
  <2>3. CASE kthread_stop(t)
    BY <1>1, <1>2, <2>3 DEF kthread_stop, ModuleInv, StopsAreSafe, TypeOK, Threads, queue
  <2>4. CASE Joined(t)
    BY <1>1, <1>2, <2>4 DEF Joined, ModuleInv, StopsAreSafe, TypeOK, Threads, queue
  <2>5. CASE FirstRun(t)
    BY <1>1, <1>2, <2>5 DEF FirstRun, ModuleInv, StopsAreSafe, TypeOK, Threads, queue
  <2>6. CASE Signal(t)
    BY <1>1, <1>2, <2>6 DEF Signal, ModuleInv, StopsAreSafe, TypeOK, Threads, queue
  <2> QED
    BY <2>1, <2>2, <2>3, <2>4, <2>5, <2>6 DEF Module
<1> QED
  BY <1>4, <1>5 DEF QueueIndInv

\* The steps both thread functions have.
LEMMA RoundKeeps ==
  ASSUME QueueIndInv, NEW t \in Threads, WaitReturns(t) \/ Checks(t)
  PROVE  QueueIndInv'
<1>1. TypeOK /\ QueueInv /\ ModuleInv
  BY DEF QueueIndInv, QueueInv
<1>2. UNCHANGED <<queue, lock, rec, var, tmp, status, stop, sig, module>>
  BY DEF WaitReturns, Checks
<1>3. /\ task' \in [Threads -> {"none", "new", "error", "run", "gone"}]
      /\ pc' \in [Threads -> {"wait", "work", "insert", "drain", "check"}]
      /\ pc'[1] = pc[1] \/ (pc[1] # "insert" /\ pc'[1] # "insert")
      /\ pc'[2] = pc[2] \/ (pc[2] # "drain" /\ pc'[2] # "drain")
  BY <1>1 DEF TypeOK, WaitReturns, Checks, Ends, GoesTo, Threads
<1>4. last' \in BOOLEAN
  BY <1>1 DEF TypeOK, WaitReturns, Checks
<1>5. TypeOK'
  BY <1>1, <1>2, <1>3, <1>4 DEF TypeOK, queue
<1>6. QueueInv'
  BY <1>1, <1>2, <1>3, <1>5, QuietKeepsQueue
<1>7. ModuleInv'
  <2>1. CASE WaitReturns(t) /\ t \in sig
    BY <1>1, <1>2, <2>1 DEF WaitReturns, Ends, ModuleInv, StopsAreSafe, TypeOK, Threads, queue
  <2>2. CASE WaitReturns(t) /\ t \notin sig
    BY <1>1, <1>2, <2>2 DEF WaitReturns, GoesTo, ModuleInv, StopsAreSafe, TypeOK, Threads, queue
  <2>3. CASE Checks(t)
    BY <1>1, <1>2, <2>3 DEF Checks, Ends, GoesTo, ModuleInv, StopsAreSafe, TypeOK, Threads, queue
  <2> QED
    BY <2>1, <2>2, <2>3
<1> QED
  BY <1>6, <1>7 DEF QueueIndInv

\* thread1 allocates and queues a record.
LEMMA Thread1Keeps ==
  ASSUME QueueIndInv, Thread1
  PROVE  QueueIndInv'
<1>1. TypeOK /\ QueueInv /\ ModuleInv
  BY DEF QueueIndInv, QueueInv
<1>2. CASE AllocationFails
  <2>1. TypeOK'
    BY <1>1, <1>2 DEF TypeOK, AllocationFails, GoesTo, queue, Threads
  <2>2. QueueInv'
    BY <1>1, <1>2, <2>1, QuietKeepsQueue DEF AllocationFails, GoesTo, TypeOK, Threads
  <2>3. ModuleInv'
    BY <1>1, <1>2 DEF AllocationFails, GoesTo, ModuleInv, StopsAreSafe, TypeOK, Threads, queue
  <2> QED
    BY <2>2, <2>3 DEF QueueIndInv
<1>3. CASE Allocates
  <2>1. PICK r \in Elems \ live : live' = live \cup {r} /\ rec' = r
    BY <1>3 DEF Allocates
  <2>2. /\ UNCHANGED <<mem, q, lock, status, stop, sig, var, tmp, module, last, task>>
        /\ pc' = [pc EXCEPT ![1] = "insert"] /\ pc[1] = "work" /\ task[1] = "run"
    BY <1>3 DEF Allocates, GoesTo
  <2>3. TypeOK'
    BY <1>1, <2>1, <2>2 DEF TypeOK, Threads
  <2>4. /\ pc'[1] = "insert" /\ pc'[2] = pc[2]
    BY <1>1, <2>2 DEF TypeOK, Threads
  <2>5. QueueInv'
    BY <1>1, <2>1, <2>2, <2>3, <2>4 DEF QueueInv, QueueIsChained
  <2>6. ModuleInv'
    BY <1>1, <2>2, <2>4 DEF ModuleInv, StopsAreSafe, TypeOK, Threads
  <2> QED
    BY <2>5, <2>6 DEF QueueIndInv
<1>4. CASE Inserts
  <2>1. /\ UNCHANGED <<live, lock, status, stop, sig, var, tmp, module, last, task>>
        /\ mem' = TAILQ_INSERT_TAIL(mem, rec) /\ q' = Append(q, rec) /\ rec' = NULL
        /\ pc' = [pc EXCEPT ![1] = "check"] /\ pc[1] = "insert" /\ task[1] = "run"
        /\ lock = "none"
    BY <1>4 DEF Inserts, GoesTo
  <2>2. /\ mem \in Memory /\ q \in Seq(Elems) /\ Chained("TAILQ", mem, q)
        /\ rec \in Elems /\ rec \notin Linked(q) /\ live = Linked(q) \cup {rec}
    BY <1>1, <2>1 DEF QueueInv, QueueIsChained, TypeOK
  <2>3. /\ mem' \in Memory /\ Chained("TAILQ", mem', q') /\ q' \in Seq(Elems)
        /\ Linked(q') = Linked(q) \cup {rec}
    BY <2>1, <2>2, InsertAppends
  <2>4. pc'[1] = "check" /\ pc'[2] = pc[2] /\ pc[2] # "drain"
    BY <1>1, <2>1 DEF TypeOK, Threads, QueueInv
  <2>5. TypeOK'
    BY <1>1, <2>1, <2>3 DEF TypeOK, Threads
  <2>6. QueueInv'
    BY <2>1, <2>2, <2>3, <2>4, <2>5 DEF QueueInv, QueueIsChained
  <2>7. ModuleInv'
    BY <1>1, <2>1, <2>4 DEF ModuleInv, StopsAreSafe, TypeOK, Threads
  <2> QED
    BY <2>6, <2>7 DEF QueueIndInv
<1> QED
  BY <1>2, <1>3, <1>4 DEF Thread1

\* thread2 drains the queue.
LEMMA Thread2Keeps ==
  ASSUME QueueIndInv, Thread2
  PROVE  QueueIndInv'
<1>1. TypeOK /\ QueueInv /\ ModuleInv
  BY DEF QueueIndInv, QueueInv
<1>2. /\ mem \in Memory /\ q \in Seq(Elems) /\ Chained("TAILQ", mem, q)
      /\ Linked(q) \subseteq Elems
  BY <1>1 DEF QueueInv, QueueIsChained, TypeOK, Linked
<1>3. CASE DrainStarts
  <2>1. /\ UNCHANGED <<mem, q, live, status, stop, sig, rec, module, last, task>>
        /\ var' = mem.next[ListHead] /\ tmp' = After(mem, mem.next[ListHead])
        /\ lock' = "thread2"
        /\ pc' = [pc EXCEPT ![2] = "drain"] /\ pc[2] = "work" /\ task[2] = "run"
    BY <1>3 DEF DrainStarts, GoesTo, queue
  <2>2. var' = Node("TAILQ", q, 1) /\ var' \in Elems \cup {NULL}
    BY <1>2, <2>1, EndsOfChain
  <2>3. tmp' = IF var' = NULL THEN NULL ELSE Node("TAILQ", q, 2)
    BY <1>2, <2>1, <2>2, EndsOfChain DEF After
  <2>4. tmp' \in Elems \cup {NULL}
    BY <1>2, <2>3, EndsOfChain
  <2>5. pc'[1] = pc[1] /\ pc'[2] = "drain"
    BY <1>1, <2>1 DEF TypeOK, Threads
  <2>6. TypeOK'
    BY <1>1, <2>1, <2>2, <2>4 DEF TypeOK, Threads
  <2>7. QueueInv'
    BY <1>1, <2>1, <2>2, <2>3, <2>5, <2>6 DEF QueueInv, QueueIsChained
  <2>8. ModuleInv'
    BY <1>1, <2>1, <2>5 DEF ModuleInv, StopsAreSafe, TypeOK, Threads
  <2> QED
    BY <2>7, <2>8 DEF QueueIndInv
<1>4. CASE Removes
  <2>1. /\ UNCHANGED <<status, task, stop, sig, module, lock, pc, rec, last>>
        /\ mem' = TAILQ_REMOVE(mem, var) /\ q' = Tail(q) /\ live' = live \ {var}
        /\ var' = tmp /\ tmp' = After(mem', tmp) /\ var # NULL
        /\ pc[2] = "drain" /\ task[2] = "run"
    BY <1>4 DEF Removes, kernel
  <2>2. /\ var = Node("TAILQ", q, 1) /\ tmp = Node("TAILQ", q, 2) /\ lock = "thread2"
        /\ live = Linked(q) \cup (IF pc[1] = "insert" THEN {rec} ELSE {})
        /\ pc[1] = "insert" => rec \in Elems /\ rec \notin Linked(q)
    BY <1>1, <2>1 DEF QueueInv
  <2>3. q # <<>> /\ var = q[1] /\ var \in Linked(q)
    BY <1>2, <2>1, <2>2, EndsOfChain
  <2>4. /\ mem' \in Memory /\ Chained("TAILQ", mem', q') /\ q' \in Seq(Elems)
        /\ Linked(q') = Linked(q) \ {var} /\ Node("TAILQ", q', 1) = tmp
    BY <1>2, <2>1, <2>2, <2>3, RemoveDequeues
  <2>5. var' = Node("TAILQ", q', 1)
    BY <2>1, <2>4
  <2>6. tmp' = IF var' = NULL THEN NULL ELSE Node("TAILQ", q', 2)
    BY <2>1, <2>4, <2>5, EndsOfChain DEF After
  <2>7. /\ var' \in Elems \cup {NULL} /\ tmp' \in Elems \cup {NULL}
        /\ Linked(q') \subseteq Elems
    BY <1>2, <2>4, <2>5, <2>6, EndsOfChain
  <2>8. live' = Linked(q') \cup (IF pc[1] = "insert" THEN {rec} ELSE {})
    BY <2>1, <2>2, <2>3, <2>4
  <2>9. TypeOK'
    BY <1>1, <2>1, <2>4, <2>7 DEF TypeOK
  <2>10. QueueInv'
    BY <2>1, <2>2, <2>4, <2>5, <2>6, <2>8, <2>9 DEF QueueInv, QueueIsChained
  <2>11. ModuleInv'
    BY <1>1, <2>1 DEF ModuleInv, StopsAreSafe
  <2> QED
    BY <2>10, <2>11 DEF QueueIndInv
<1>5. CASE DrainEnds
  <2>1. /\ UNCHANGED <<mem, q, live, status, stop, sig, rec, var, tmp, module, last, task>>
        /\ lock' = "none" /\ var = NULL
        /\ pc' = [pc EXCEPT ![2] = "check"] /\ pc[2] = "drain" /\ task[2] = "run"
    BY <1>5 DEF DrainEnds, GoesTo, queue
  <2>2. pc'[1] = pc[1] /\ pc'[2] = "check"
    BY <1>1, <2>1 DEF TypeOK, Threads
  <2>3. q = <<>>
    BY <1>1, <1>2, <2>1, EndsOfChain DEF QueueInv
  <2>4. TypeOK'
    BY <1>1, <2>1 DEF TypeOK, Threads
  <2>5. QueueInv'
    BY <1>1, <2>1, <2>2, <2>4 DEF QueueInv, QueueIsChained
  <2>6. ModuleInv'
    BY <1>1, <2>1, <2>2, <2>3 DEF ModuleInv, StopsAreSafe, TypeOK, Threads
  <2> QED
    BY <2>5, <2>6 DEF QueueIndInv
<1> QED
  BY <1>3, <1>4, <1>5 DEF Thread2

-----------------------------------------------------------------------------
\* Every step keeps the invariant.
LEMMA QueueNextInv == QueueIndInv /\ [Next]_vars => QueueIndInv'
<1> SUFFICES ASSUME QueueIndInv, [Next]_vars PROVE QueueIndInv'
  OBVIOUS
<1>1. CASE Thread1
  BY <1>1, Thread1Keeps
<1>2. CASE Thread2
  BY <1>2, Thread2Keeps
<1>3. ASSUME NEW t \in Threads, Module(t) \/ FirstRun(t) \/ Signal(t)
      PROVE  QueueIndInv'
  BY <1>3, KernelKeeps
<1>4. ASSUME NEW t \in Threads, Round(t) \/ WaitTimesOut(t)
      PROVE  QueueIndInv'
  BY <1>4, RoundKeeps DEF Round, WaitWoken, WaitTimesOut
<1>5. CASE UNCHANGED vars
  <2>1. TypeOK'
    BY <1>5 DEF QueueIndInv, QueueInv, TypeOK, vars
  <2>2. QueueInv'
    BY <1>5, <2>1, QuietKeepsQueue DEF QueueIndInv, vars, queue
  <2>3. ModuleInv'
    BY <1>5 DEF QueueIndInv, ModuleInv, StopsAreSafe, vars
  <2> QED
    BY <2>2, <2>3 DEF QueueIndInv
<1> QED
  BY <1>1, <1>2, <1>3, <1>4, <1>5 DEF Next, Over

\* The invariant holds in every state.
LEMMA QueueAlways == Spec => []QueueIndInv
BY QueueInitInv, QueueNextInv, PTL DEF Spec

\* The invariant gives the safety properties of the module.
LEMMA QueueGoals ==
  ASSUME QueueIndInv
  PROVE  TypeOK /\ NoStaleAccess /\ QueueIsChained /\ NothingLeft /\ StopsAreSafe
<1>1. TypeOK /\ QueueIsChained /\ StopsAreSafe
  BY DEF QueueIndInv, QueueInv, ModuleInv
<1>2. NoStaleAccess
  <2> SUFFICES ASSUME pc[2] = "drain", var # NULL
               PROVE  Touched \subseteq live
    BY DEF NoStaleAccess
  <2>1. /\ mem \in Memory /\ q \in Seq(Elems) /\ Chained("TAILQ", mem, q)
        /\ var = Node("TAILQ", q, 1) /\ tmp = Node("TAILQ", q, 2)
        /\ Linked(q) \subseteq live
    BY DEF QueueIndInv, QueueInv, TypeOK, QueueIsChained
  <2>2. q # <<>> /\ var = q[1]
    BY <2>1, EndsOfChain
  <2> QED
    BY <2>1, <2>2, EndsOfChain DEF Touched
<1>3. NothingLeft
  <2> SUFFICES ASSUME module = "gone", last
               PROVE  live = {}
    BY DEF NothingLeft
  <2>1. pc[2] \in {"wait", "check"} /\ pc[1] # "insert"
    BY DEF QueueIndInv, ModuleInv
  <2>2. q = <<>>
    BY <2>1 DEF QueueIndInv, ModuleInv
  <2>3. live = Linked(<<>>)
    BY <2>1, <2>2 DEF QueueIndInv, QueueInv
  <2> QED
    BY <2>3 DEF Linked
<1> QED
  BY <1>1, <1>2, <1>3

\* The variables of the module always have their types.
THEOREM QueueTypes == Spec => []TypeOK
BY QueueAlways, QueueGoals, PTL

\* However the two threads and rmmod interleave, the words of the TAILQ form the
\* chain of the queued records, for any number of them.
THEOREM QueueStaysChained == Spec => []QueueIsChained
BY QueueAlways, QueueGoals, PTL

\* The drain loop of test_thread2 never touches a record that is not allocated,
\* whatever thread1 does meanwhile and however many records there are.
THEOREM DrainIsSafe == Spec => []NoStaleAccess
BY QueueAlways, QueueGoals, PTL

\* When the last round of thread2 saw status2 = 0, rmmod leaves no record.
THEOREM OrderedUnloadLeavesNothing == Spec => []NothingLeft
BY QueueAlways, QueueGoals, PTL

\* test_exit runs into a missing task only after a signal or a failed creation.
THEOREM StopsFindTheirTask == Spec => []StopsAreSafe
BY QueueAlways, QueueGoals, PTL

\* Every step of the module is a step of a FIFO, or changes nothing of it.
LEMMA StepsAreFifoSteps == QueueIndInv /\ [Next]_vars => [F!Next]_<<q, live>>
<1> SUFFICES ASSUME QueueIndInv, [Next]_vars PROVE [F!Next]_<<q, live>>
  OBVIOUS
<1>1. CASE Allocates
  <2>1. PICK r \in Elems \ live : live' = live \cup {r}
    BY <1>1 DEF Allocates
  <2>2. F!Allocate(r)
    BY <1>1, <2>1 DEF Allocates, F!Allocate
  <2> QED
    BY <2>2 DEF F!Next
<1>2. CASE Inserts
  <2>1. F!Queued = Linked(q)
    BY DEF F!Queued, Linked
  <2>2. rec \in Elems /\ rec \in live /\ rec \notin Linked(q)
    BY <1>2 DEF Inserts, QueueIndInv, QueueInv
  <2>3. F!Put(rec)
    BY <1>2, <2>1, <2>2 DEF Inserts, F!Put
  <2> QED
    BY <2>2, <2>3 DEF F!Next
<1>3. CASE Removes
  <2>1. /\ mem \in Memory /\ q \in Seq(Elems) /\ Chained("TAILQ", mem, q)
        /\ var = Node("TAILQ", q, 1) /\ var # NULL
    BY <1>3 DEF Removes, QueueIndInv, QueueInv, TypeOK, QueueIsChained
  <2>2. q # <<>> /\ var = Head(q)
    BY <2>1, EndsOfChain
  <2>3. F!Get
    BY <1>3, <2>2 DEF Removes, F!Get
  <2> QED
    BY <2>3 DEF F!Next
<1>4. CASE AllocationFails \/ DrainStarts \/ DrainEnds \/ Over \/ UNCHANGED vars
  BY <1>4 DEF AllocationFails, DrainStarts, DrainEnds, Over, queue, vars
<1>5. CASE \E t \in Threads : \/ Module(t) \/ Round(t)
                              \/ WaitTimesOut(t) \/ FirstRun(t) \/ Signal(t)
  BY <1>5 DEF Module, Creates, Wakes, kthread_stop, Joined, Round, WaitWoken, WaitReturns,
       WaitTimesOut, Checks, FirstRun, Signal, queue
<1> QED
  BY <1>1, <1>2, <1>3, <1>4, <1>5 DEF Next, Thread1, Thread2

\* The queue of the module implements a FIFO of records, each freed exactly when
\* it leaves.
THEOREM QueueImplementsFifo == Spec => ImplementsFifo
<1>1. Init => F!Init
  BY DEF Init, F!Init
<1> QED
  BY <1>1, QueueAlways, StepsAreFifoSteps, PTL DEF Spec, ImplementsFifo, F!Spec
=============================================================================
