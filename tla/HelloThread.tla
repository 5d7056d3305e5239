----------------------------- MODULE HelloThread -----------------------------
(***************************************************************************)
(* The three modules that start one thread at load and stop it at exit:    *)
(* Kernel_Thread/thread.c, GetGroup_pid_From_ThreadId/get_tgid.c, and      *)
(* Kernel_Thread_ReadingFileFromKernel/thread.c, whose thread reads a file *)
(* in every round.  No result is tested: the memory, the file and the      *)
(* thread itself may be missing.                                           *)
(***************************************************************************)
EXTENDS Naturals

VARIABLES
  threadKind,    \* "hello", "tgid" or "reader"
  threadModule,  \* "out", "live", "join", "gone" or "oops"
  MyThread,      \* "null", "task" or "error"
  threadStep,    \* where MyPrintk is
  threadStop,    \* kthread_stop was called
  mydata,        \* "none", "live" or "freed"
  pidRefs        \* the references to process numbers

threadVars == <<threadKind, threadModule, MyThread, threadStep, threadStop, mydata, pidRefs>>

ThreadInit ==
  /\ threadKind \in {"hello", "tgid", "reader"}
  /\ threadModule = "out" /\ MyThread = "null"
  /\ threadStep = "none" /\ threadStop = FALSE /\ mydata = "none" /\ pidRefs = 0

\* find_get_pid takes a reference that nothing gives back.
get_tgid == pidRefs' = IF threadKind = "tgid" THEN pidRefs + 1 ELSE pidRefs

init_kthread ==
  /\ threadModule = "out" /\ threadModule' = "live"
  /\ \/ MyThread' = "task" /\ threadStep' = "new"
     \/ MyThread' = "error" /\ UNCHANGED threadStep
  /\ get_tgid
  /\ UNCHANGED <<threadKind, threadStop, mydata>>

ThreadOnly == UNCHANGED <<threadKind, threadModule, MyThread, threadStop>>

\* A thread stopped before it first runs does not call MyPrintk.
ThreadStarts ==
  /\ threadStep = "new"
  /\ threadStep' = IF threadStop THEN "done" ELSE "alloc"
  /\ UNCHANGED <<mydata, pidRefs>> /\ ThreadOnly

CopiesData ==
  /\ threadStep = "alloc"
  /\ \/ /\ mydata' = "live" /\ get_tgid
        /\ threadStep' = IF threadKind = "reader" THEN "file" ELSE "check"
     \/ threadStep' = "oops" /\ UNCHANGED <<mydata, pidRefs>>
  /\ ThreadOnly

\* An error of filp_open is not null and is read through; null is closed.
ReadFile ==
  /\ threadStep = "file"
  /\ threadStep' \in {"check", "oops"}
  /\ UNCHANGED <<mydata, pidRefs>> /\ ThreadOnly

\* kthread_should_stop, then a round or the end.
ChecksStop ==
  /\ threadStep = "check"
  /\ IF threadStop
     THEN threadStep' = "done" /\ mydata' = "freed"
     ELSE /\ threadStep' = IF threadKind = "reader" THEN "file" ELSE "check"
          /\ UNCHANGED mydata
  /\ UNCHANGED pidRefs /\ ThreadOnly

MyPrintk == CopiesData \/ ChecksStop
MyPrintkTgid == threadKind = "tgid" /\ MyPrintk
MyPrintkHello == threadKind = "hello" /\ MyPrintk
MyPrintkReader == threadKind = "reader" /\ (MyPrintk \/ ReadFile)

\* kthread_stop of an error number, or of a task that is gone, is undefined.
exit_kthread ==
  /\ threadModule = "live"
  /\ IF MyThread = "task" /\ threadStep \notin {"done", "oops"}
     THEN threadModule' = "join" /\ threadStop' = TRUE
     ELSE threadModule' = "oops" /\ UNCHANGED threadStop
  /\ UNCHANGED <<threadKind, MyThread, threadStep, mydata, pidRefs>>

ThreadJoined ==
  /\ threadModule = "join" /\ threadStep \in {"done", "oops"}
  /\ threadModule' = "gone"
  /\ UNCHANGED <<threadKind, MyThread, threadStep, threadStop, mydata, pidRefs>>

ThreadNext ==
  \/ init_kthread \/ ThreadStarts \/ exit_kthread \/ ThreadJoined
  \/ MyPrintkHello \/ MyPrintkTgid \/ MyPrintkReader

\* The thread uses its copy of the text only while it has it and has freed it
\* when the module is gone, and exit stops a thread that runs: the exceptions
\* are a thread that could not be created and one that lacked its memory or
\* its file (MyPrintk, exit_kthread).  What it leaves behind are the references
\* of get_tgid, one for each call: never more than two for a load.
ThreadEnds ==
  /\ threadStep \in {"file", "check"} => mydata = "live"
  /\ threadModule = "gone" /\ threadStep = "done" => mydata # "live"
  /\ threadModule = "oops" => MyThread = "error" \/ threadStep = "oops"
  /\ pidRefs <= 2
=============================================================================
