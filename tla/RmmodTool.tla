------------------------------ MODULE RmmodTool ------------------------------
(***************************************************************************)
(* Userspace_RmmodCode/rmmod_code.c: the module's line of /proc/modules is *)
(* read, and if it counts no use the kernel is asked to remove the module. *)
(* The uses come and go meanwhile; the kernel removes only an unused one.  *)
(***************************************************************************)
EXTENDS Integers

CONSTANT UseMax  \* the uses a module can have at once

ASSUME RmmodAssumption == UseMax \in Nat \ {0}

VARIABLES
  rmStep,   \* where the program is
  rmUses,   \* the uses of the module, or -1 when it is not there
  rmCounts, \* whether the lines of the list have a count
  rmList,   \* whether the list is open
  rmRefs,   \* refs
  rmExit    \* the exit code, -1 before the end

rmVars == <<rmStep, rmUses, rmCounts, rmList, rmRefs, rmExit>>

RmmodInit ==
  /\ rmStep = "open" /\ rmUses \in (-1)..UseMax /\ rmCounts \in BOOLEAN
  /\ rmList = FALSE /\ rmRefs = 0 /\ rmExit = -1

Exits(code) == rmStep' = "exited" /\ rmExit' = code /\ rmList' = FALSE

\* Without /proc the kernel decides alone.  After another error the list is
\* read through a null pointer.
OpensList ==
  /\ rmStep = "open"
  /\ \/ rmStep' = "scan" /\ rmList' = TRUE
     \/ rmStep' \in {"delete", "undefined"} /\ UNCHANGED rmList
  /\ UNCHANGED <<rmUses, rmCounts, rmRefs, rmExit>>

\* The module's line.  A line without a count leaves refs as it is, which is
\* not set; a line too long ends the program; a module that is not listed is
\* reported through a function called with the wrong arguments.
ScansList ==
  /\ rmStep = "scan"
  /\ \/ /\ rmUses >= 0 /\ rmCounts /\ rmStep' = "close"
        /\ rmRefs' = rmUses /\ UNCHANGED <<rmList, rmExit>>
     \/ /\ rmUses >= 0 /\ ~rmCounts /\ rmStep' = "close"
        /\ rmRefs' \in 0..UseMax /\ UNCHANGED <<rmList, rmExit>>
     \/ Exits(1) /\ UNCHANGED rmRefs
     \/ rmUses = -1 /\ rmStep' = "undefined" /\ UNCHANGED <<rmList, rmRefs, rmExit>>
  /\ UNCHANGED <<rmUses, rmCounts>>

\* The end of check_usage, and its result in rmmod.
check_usage ==
  /\ rmStep = "close"
  /\ IF rmRefs = 0 THEN rmStep' = "delete" /\ rmList' = FALSE /\ UNCHANGED rmExit ELSE Exits(1)
  /\ UNCHANGED <<rmUses, rmCounts, rmRefs>>

\* delete_module with O_NONBLOCK, and the exit code.
rmmod ==
  /\ rmStep = "delete"
  /\ \/ rmUses = 0 /\ rmUses' = -1 /\ Exits(0)
     \/ Exits(1) /\ UNCHANGED rmUses
  /\ UNCHANGED <<rmCounts, rmRefs>>

UsesChange ==
  /\ rmStep # "exited" /\ rmUses >= 0
  /\ rmUses' \in (0..UseMax) \ {rmUses}
  /\ UNCHANGED <<rmStep, rmCounts, rmList, rmRefs, rmExit>>

RmmodNext == OpensList \/ ScansList \/ check_usage \/ rmmod \/ UsesChange

\* The kernel is asked only if no use was counted, with the list closed, and
\* the program reports success only if the module went, whatever its uses
\* did between the look and the request (check_usage, rmmod, main).
RemovalIsChecked ==
  /\ rmStep = "delete" => ~rmList /\ rmRefs = 0
  /\ rmStep = "exited" => ~rmList /\ rmExit \in {0, 1}
  /\ rmExit = 0 => rmUses = -1
=============================================================================
