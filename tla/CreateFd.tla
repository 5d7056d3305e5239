------------------------------ MODULE CreateFd ------------------------------
(***************************************************************************)
(* CreateUnusedFd/createfd.c: at load, a second descriptor for an open     *)
(* file.  Before 3.6 dentry_open takes over the references it is given,    *)
(* also when it fails; later ones take references of their own.            *)
(***************************************************************************)
EXTENDS Integers

VARIABLES
  fdKernel,   \* "old" before 3.6, else "new"
  fdStep,     \* where init_createfd_test is
  fdSlot,     \* the descriptor: "free", "reserved" or "installed"
  fdResult,   \* what create_fd returned: 0 for none yet, 1 for a descriptor
  fdRefs,     \* the references to the dentry and the mount, filp's included
  fdFile      \* filp: "none", "open" or "error"

fdVars == <<fdKernel, fdStep, fdSlot, fdResult, fdRefs, fdFile>>

FdInit ==
  /\ fdKernel \in {"old", "new"}
  /\ fdStep = "start" /\ fdSlot = "free" /\ fdResult = 0
  /\ fdRefs = 0 /\ fdFile = "none"

\* An error of filp_open is not null, and create_fd reads through it.
OpensProc ==
  /\ fdStep = "start"
  /\ \/ fdFile' = "open" /\ fdRefs' = 1 /\ fdStep' = "reserve"
     \/ fdFile' = "error" /\ fdStep' = "reserve" /\ UNCHANGED fdRefs
  /\ UNCHANGED <<fdKernel, fdSlot, fdResult>>

get_unused_fd ==
  /\ fdStep = "reserve"
  /\ \/ fdSlot' = "reserved" /\ fdStep' = (IF fdFile = "open" THEN "open" ELSE "oops") /\ UNCHANGED fdResult
     \/ fdResult' = -1 /\ fdStep' = "close" /\ UNCHANGED fdSlot
  /\ UNCHANGED <<fdKernel, fdRefs, fdFile>>

\* dget, mntget, dentry_open, and what follows it.
\* Fault: the descriptor is not given back when the open fails.
KeepsReserved ==
  /\ fdStep = "open"
  /\ \/ fdSlot' = "installed" /\ fdResult' = 1 /\ fdRefs' = fdRefs + (IF fdKernel = "old" THEN 1 ELSE 2)
     \/ fdResult' \in {-1, -2} /\ fdRefs' = fdRefs + (IF fdKernel = "old" THEN 0 ELSE 1) /\ UNCHANGED fdSlot
  /\ fdStep' = "close"
  /\ UNCHANGED <<fdKernel, fdFile>>

create_fd ==
  /\ fdStep = "open"
  /\ \/ /\ fdSlot' = "installed" /\ fdResult' = 1
        /\ fdRefs' = fdRefs + (IF fdKernel = "old" THEN 1 ELSE 2)
     \/ /\ fdSlot' = "free" /\ fdResult' \in {-1, -2}
        /\ fdRefs' = fdRefs + (IF fdKernel = "old" THEN 0 ELSE 1)
  /\ fdStep' = "close"
  /\ UNCHANGED <<fdKernel, fdFile>>

\* sys_close of whatever is not -1; of an error number it does nothing.
ClosesFd ==
  /\ fdStep = "close" /\ fdStep' = "done"
  /\ IF fdResult = 1
     THEN fdSlot' = "free" /\ fdRefs' = fdRefs - 1
     ELSE UNCHANGED <<fdSlot, fdRefs>>
  /\ UNCHANGED <<fdKernel, fdResult, fdFile>>

FdNext == OpensProc \/ get_unused_fd \/ create_fd \/ ClosesFd

\* After load the descriptor is free again, and on old kernels the only
\* references left are those of filp, which is never closed; later kernels
\* keep one more when create_fd got as far as dentry_open (create_fd,
\* init_createfd_test).
FdGivenBack ==
  fdStep = "done" => /\ fdSlot = "free"
                     /\ fdKernel = "old" => fdRefs = (IF fdFile = "open" THEN 1 ELSE 0)
                     /\ fdRefs <= 2
=============================================================================
