---------------------------- MODULE KthreadQueue ----------------------------
(***************************************************************************)
(* Kthread_Queue/thread.c: a kernel module whose thread1 queues a record a *)
(* round and whose thread2 empties the queue a round, over the TAILQ of    *)
(* queue.h and one spin lock, until test_exit stops both.                  *)
(*                                                                         *)
(* kthread_run, kthread_stop, the first run of a thread, signals and the   *)
(* wait queues are the kernel's.  A wait of at most two seconds may end by *)
(* its timeout at any time, and must end once its condition holds or a     *)
(* signal is pending.                                                      *)
(***************************************************************************)
EXTENDS ListOrder

VARIABLES
  mem,      \* scanQueue and the link fields, as in BsdQueue
  q,        \* the queued records in order; no code reads it
  live,     \* the records allocated and not freed
  lock,     \* scanQueueLock: its holder, or "none"
  status,   \* status1 and status2
  task,     \* the tasks behind thread1 and thread2
  stop,     \* the tasks kthread_stop was called on
  sig,      \* the threads with a signal pending
  pc,       \* where each thread function is
  rec,      \* tempInsert of test_thread1
  var,      \* tempInsert of test_thread2
  tmp,      \* tmp of test_thread2
  module,   \* where test_init or test_exit is
  last      \* whether the last round of thread2 found status2 = 0; not read

vars == <<mem, q, live, lock, status, task, stop, sig, pc, rec, var, tmp, module, last>>
queue == <<mem, q, live>>
kernel == <<status, task, stop, sig, module>>

Threads == {1, 2}

Init ==
  /\ mem = TAILQ_INIT /\ q = <<>> /\ live = {}
  /\ lock = "none"
  /\ status = [t \in Threads |-> 1]
  /\ task = [t \in Threads |-> "none"]
  /\ stop = {} /\ sig = {}
  /\ pc = [t \in Threads |-> "wait"]
  /\ rec = NULL /\ var = NULL /\ tmp = NULL
  /\ module = "init1"
  /\ last = FALSE

(***************************************************************************)
(* The kernel: a task may fail to be created; a created task runs its      *)
(* function unless it was stopped before it first ran; a running thread may*)
(* be sent SIGKILL or SIGTERM.                                             *)
(***************************************************************************)
kthread_run(t) == \E s \in {"new", "error"} : task' = [task EXCEPT ![t] = s]

FirstRun(t) ==
  /\ task[t] = "new"
  /\ task' = [task EXCEPT ![t] = IF t \in stop THEN "gone" ELSE "run"]
  /\ UNCHANGED <<queue, lock, status, stop, sig, pc, rec, var, tmp, module, last>>

Signal(t) ==
  /\ task[t] = "run" /\ t \notin sig
  /\ sig' = sig \cup {t}
  /\ UNCHANGED <<queue, lock, status, task, stop, pc, rec, var, tmp, module, last>>

\* The thread function returns.
Ends(t) == task' = [task EXCEPT ![t] = "gone"] /\ UNCHANGED pc
GoesTo(t, l) == pc' = [pc EXCEPT ![t] = l] /\ UNCHANGED task

(***************************************************************************)
(* The rounds of test_thread1 and test_thread2.                            *)
(***************************************************************************)
WaitReturns(t) ==
  /\ task[t] = "run" /\ pc[t] = "wait"
  /\ IF t \in sig THEN Ends(t) ELSE GoesTo(t, "work")
  /\ last' = IF t = 2 /\ t \notin sig THEN status[2] = 0 ELSE last
  /\ UNCHANGED <<queue, lock, status, stop, sig, rec, var, tmp, module>>

WaitWoken(t) == (status[t] = 0 \/ t \in sig) /\ WaitReturns(t)
WaitTimesOut(t) == status[t] # 0 /\ t \notin sig /\ WaitReturns(t)

\* kmalloc; when it fails the round goes on without a record.
Allocates ==
  /\ task[1] = "run" /\ pc[1] = "work"
  /\ \E r \in Elems \ live : live' = live \cup {r} /\ rec' = r
  /\ GoesTo(1, "insert")
  /\ UNCHANGED <<mem, q, lock, status, stop, sig, var, tmp, module, last>>

AllocationFails ==
  /\ task[1] = "run" /\ pc[1] = "work"
  /\ GoesTo(1, "check")
  /\ UNCHANGED <<queue, lock, status, stop, sig, rec, var, tmp, module, last>>

\* The critical section of thread1 is one step: no one else runs it meanwhile.
Inserts ==
  /\ pc[1] = "insert" /\ task[1] = "run"
  /\ lock = "none"
  /\ mem' = TAILQ_INSERT_TAIL(mem, rec)
  /\ q' = Append(q, rec)
  /\ rec' = NULL
  /\ GoesTo(1, "check")
  /\ UNCHANGED <<live, lock, status, stop, sig, var, tmp, module, last>>

After(m, r) == IF r # NULL THEN m.next[r] ELSE NULL

\* spin_lock and the first half of TAILQ_FOREACH_SAFE.
DrainStarts ==
  /\ task[2] = "run" /\ pc[2] = "work"
  /\ lock = "none"
  /\ lock' = "thread2"
  /\ var' = mem.next[ListHead]
  /\ tmp' = After(mem, mem.next[ListHead])
  /\ GoesTo(2, "drain")
  /\ UNCHANGED <<queue, status, stop, sig, rec, module, last>>

\* Fault: kfree is forgotten.
RemovesOnly ==
  /\ pc[2] = "drain" /\ task[2] = "run"
  /\ var # NULL
  /\ mem' = TAILQ_REMOVE(mem, var)
  /\ q' = Tail(q)
  /\ var' = tmp
  /\ tmp' = After(mem', tmp)
  /\ UNCHANGED <<kernel, lock, pc, rec, last, live>>

\* One round of the loop: TAILQ_REMOVE, kfree, and the step to the next record.
Removes ==
  /\ pc[2] = "drain" /\ task[2] = "run"
  /\ var # NULL
  /\ mem' = TAILQ_REMOVE(mem, var)
  /\ q' = Tail(q)
  /\ live' = live \ {var}
  /\ var' = tmp
  /\ tmp' = After(mem', tmp)
  /\ UNCHANGED <<kernel, lock, pc, rec, last>>

DrainEnds ==
  /\ pc[2] = "drain" /\ task[2] = "run"
  /\ var = NULL
  /\ lock' = "none"
  /\ GoesTo(2, "check")
  /\ UNCHANGED <<queue, status, stop, sig, rec, var, tmp, module, last>>

\* Fault: a thread ends as soon as its flag is cleared.
EndsOnFlag(t) ==
  /\ task[t] = "run" /\ pc[t] = "check"
  /\ IF t \in stop \/ status[t] = 0 THEN Ends(t) ELSE GoesTo(t, "wait")
  /\ UNCHANGED <<queue, lock, status, stop, sig, rec, var, tmp, module, last>>

\* kthread_should_stop at the end of a round.
Checks(t) ==
  /\ task[t] = "run" /\ pc[t] = "check"
  /\ IF t \in stop THEN Ends(t) ELSE GoesTo(t, "wait")
  /\ UNCHANGED <<queue, lock, status, stop, sig, rec, var, tmp, module, last>>

(***************************************************************************)
(* test_init and test_exit.  kthread_stop uses the task it is given: one   *)
(* that never existed, or that is gone, is an access to memory that is not *)
(* the task's any more ("oops").  Otherwise it waits for the task to end.  *)
(***************************************************************************)
Creates(t) ==
  /\ module = (IF t = 1 THEN "init1" ELSE "init2")
  /\ kthread_run(t)
  /\ module' = IF t = 1 THEN "init2" ELSE "loaded"
  /\ UNCHANGED <<queue, lock, status, stop, sig, pc, rec, var, tmp, last>>

\* Faults: both flags are cleared before thread1 is stopped, or
\* neither is.
WakesBoth(t) ==
  /\ module = (IF t = 1 THEN "loaded" ELSE "joined1")
  /\ status' = [s \in Threads |-> 0]
  /\ module' = IF t = 1 THEN "stop1" ELSE "stop2"
  /\ UNCHANGED <<queue, lock, task, stop, sig, pc, rec, var, tmp, last>>

WakesNone(t) ==
  /\ module = (IF t = 1 THEN "loaded" ELSE "joined1")
  /\ module' = IF t = 1 THEN "stop1" ELSE "stop2"
  /\ UNCHANGED <<status, queue, lock, task, stop, sig, pc, rec, var, tmp, last>>

\* status = 0 and wake_up.
Wakes(t) ==
  /\ module = (IF t = 1 THEN "loaded" ELSE "joined1")
  /\ status' = [status EXCEPT ![t] = 0]
  /\ module' = IF t = 1 THEN "stop1" ELSE "stop2"
  /\ UNCHANGED <<queue, lock, task, stop, sig, pc, rec, var, tmp, last>>

kthread_stop(t) ==
  /\ module = (IF t = 1 THEN "stop1" ELSE "stop2")
  /\ IF task[t] \in {"new", "run"}
       THEN /\ stop' = stop \cup {t}
            /\ module' = IF t = 1 THEN "join1" ELSE "join2"
       ELSE module' = "oops" /\ UNCHANGED stop
  /\ UNCHANGED <<queue, lock, status, task, sig, pc, rec, var, tmp, last>>

Joined(t) ==
  /\ module = (IF t = 1 THEN "join1" ELSE "join2")
  /\ task[t] = "gone"
  /\ module' = IF t = 1 THEN "joined1" ELSE "gone"
  /\ UNCHANGED <<queue, lock, status, task, stop, sig, pc, rec, var, tmp, last>>

\* Nothing more can happen to this module.
Over == module \in {"gone", "oops"} /\ UNCHANGED vars

Module(t) == Creates(t) \/ Wakes(t) \/ kthread_stop(t) \/ Joined(t)
Round(t) == WaitWoken(t) \/ Checks(t)
Thread1 == Allocates \/ AllocationFails \/ Inserts
Thread2 == DrainStarts \/ Removes \/ DrainEnds

Next == \/ Thread1 \/ Thread2 \/ Over
        \/ \E t \in Threads : \/ Module(t) \/ Round(t)
                              \/ WaitTimesOut(t) \/ FirstRun(t) \/ Signal(t)

Spec == Init /\ [][Next]_vars

(***************************************************************************)
(* The scheduler runs every task that can run, a spin lock that is freed is*)
(* obtained at last, and rmmod goes on once it was started.  A timeout is  *)
(* not relied on, and neither is kmalloc.                                  *)
(***************************************************************************)
FairSpec == /\ Spec
            /\ WF_vars(Thread1) /\ WF_vars(Thread2)
            /\ SF_vars(Inserts) /\ SF_vars(DrainStarts)
            /\ \A t \in Threads : /\ WF_vars(Round(t)) /\ WF_vars(FirstRun(t))
                                  /\ WF_vars(kthread_stop(t)) /\ WF_vars(Joined(t))
            /\ WF_vars(Wakes(2))
-----------------------------------------------------------------------------
TypeOK ==
  /\ mem \in Memory /\ q \in Seq(Elems) /\ live \in SUBSET Elems
  /\ lock \in {"none", "thread2"}
  /\ status \in [Threads -> {0, 1}]
  /\ task \in [Threads -> {"none", "new", "error", "run", "gone"}]
  /\ stop \in SUBSET Threads /\ sig \in SUBSET Threads
  /\ pc \in [Threads -> {"wait", "work", "insert", "drain", "check"}]
  /\ rec \in Elems \cup {NULL} /\ var \in Elems \cup {NULL} /\ tmp \in Elems \cup {NULL}
  /\ module \in {"init1", "init2", "loaded", "stop1", "join1", "joined1", "stop2",
                 "join2", "gone", "oops"}
  /\ last \in BOOLEAN

\* The records a round of the drain loop reads or writes: the one it removes,
\* its neighbours, and the one whose link it follows afterwards.
Touched == {var, tmp, mem.next[var], mem.prev[var]} \ {NULL, ListHead}

\* The drain loop never touches a record that is not allocated, although it
\* frees the record it stands on (TAILQ_FOREACH_SAFE with kfree in its body).
NoStaleAccess == pc[2] = "drain" /\ var # NULL => Touched \subseteq live

\* The queue in memory is the queue of the records not yet removed, whatever the
\* two threads do.
QueueIsChained == Chained("TAILQ", mem, q)

\* test_exit stops thread1 before it tells thread2 to finish: when the last
\* round of thread2 was the one that found status2 = 0, unloading leaves no
\* record behind.
NothingLeft == module = "gone" /\ last => live = {}

\* kthread_stop is called on a task that is not there only when a thread was
\* killed by a signal or could not be created.
StopsAreSafe == module = "oops" => sig # {} \/ \E t \in Threads : task[t] = "error"

F == INSTANCE Fifo WITH Records <- Elems, fifo <- q

\* Records leave in the order they were queued, each is freed once and exactly
\* when it leaves, and only an allocated one is queued.
ImplementsFifo == F!Spec

\* Once rmmod has begun it returns, or runs into a missing task, even if no
\* timeout ever helps: the flag and the wake-up reach a waiting thread.
UnloadFinishes == module = "stop1" ~> module \in {"gone", "oops"}
=============================================================================
