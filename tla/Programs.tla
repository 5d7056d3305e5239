------------------------------ MODULE Programs ------------------------------
(***************************************************************************)
(* The small programs of the repository, each run by itself: which one is  *)
(* chosen at the start, and the state of the others stays as it is.        *)
(***************************************************************************)
EXTENDS MountIter, ProcEntry, CreateFd, ModuleImage, HelloThread, KernelFifo, RmmodTool

VARIABLE program

vars == <<program, mountVars, procVars, fdVars, imgVars, threadVars, fifoVars, rmVars>>

\* A program that is not run starts in one fixed state.
Init ==
  /\ program \in {"mount", "proc", "fd", "image", "thread", "fifo", "rmmod"}
  /\ MountInit /\ ProcInit /\ FdInit /\ ImageInit /\ ThreadInit /\ FifoInit /\ RmmodInit
  /\ program # "mount" => /\ parent = [m \in Mounts |-> 1] /\ cur = 1
                          /\ fstype = [m \in Mounts |-> CHOOSE t \in FsTypes : TRUE]
  /\ program # "proc" => procKernel = "new"
  /\ program # "fd" => fdKernel = "new"
  /\ program # "image" => imgFile = 0
  /\ program # "thread" => threadKind = "hello"
  /\ program # "rmmod" => rmUses = 0 /\ rmCounts = TRUE

Ended ==
  \/ walk \in {"done", "undefined"} \/ procModule = "gone" \/ fdStep \in {"done", "oops"}
  \/ imgStep \in {"failed", "done", "undefined"}
  \/ threadModule \in {"gone", "oops"} \/ fifoStep \in {"failed", "gone"}
  \/ rmStep \in {"exited", "undefined"}

Next ==
  \/ program = "mount" /\ MountNext
       /\ UNCHANGED <<program, procVars, fdVars, imgVars, threadVars, fifoVars, rmVars>>
  \/ program = "proc" /\ ProcNext
       /\ UNCHANGED <<program, mountVars, fdVars, imgVars, threadVars, fifoVars, rmVars>>
  \/ program = "fd" /\ FdNext
       /\ UNCHANGED <<program, mountVars, procVars, imgVars, threadVars, fifoVars, rmVars>>
  \/ program = "image" /\ ImageNext
       /\ UNCHANGED <<program, mountVars, procVars, fdVars, threadVars, fifoVars, rmVars>>
  \/ program = "thread" /\ ThreadNext
       /\ UNCHANGED <<program, mountVars, procVars, fdVars, imgVars, fifoVars, rmVars>>
  \/ program = "fifo" /\ FifoNext
       /\ UNCHANGED <<program, mountVars, procVars, fdVars, imgVars, threadVars, rmVars>>
  \/ program = "rmmod" /\ RmmodNext
       /\ UNCHANGED <<program, mountVars, procVars, fdVars, imgVars, threadVars, fifoVars>>
  \/ Ended /\ UNCHANGED vars

Spec == Init /\ [][Next]_vars

\* What goes in comes out: the number written to the entry is the one kept and
\* the one a reader gets, and the records of the fifo are taken out in order,
\* with the exceptions the definitions name (procfs_write_long and
\* procfs_read_long of procfs.c, testfunc of queue.c).
DataIsKept == Kept /\ ReadOnce /\ RecordsInOrder

\* Every program gives back what it took: the proc entry, the descriptor and
\* its references, the thread and its memory, with the exceptions the
\* definitions name (procfs_cleanup, create_fd, exit_kthread).
AllGivenBack == Removed /\ FdGivenBack /\ ThreadEnds

\* The two tools for modules do what they report: what is loaded is the whole
\* file, and what is removed was not in use (module_image_size of
\* insmod_code.c, check_usage and rmmod of rmmod_code.c).
ToolsAreRight == ImageWhole /\ RemovalIsChecked
=============================================================================
