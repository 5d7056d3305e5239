------------------------------ MODULE Fanotify ------------------------------
(***************************************************************************)
(* The two fanotify programs, with processes that open the watched files:  *)
(* test_fan.c, a daemon that allows every open and ends on SIGINT or       *)
(* SIGTERM, and fanotify.c, a command line tool with ignore masks.         *)
(*                                                                         *)
(* The kernel's side: an open of a marked file that is not ignored blocks  *)
(* and queues a permission event; reading an event opens its file under the*)
(* lowest free descriptor and remembers the descriptor until an answer that*)
(* names it arrives; closing the fanotify descriptor, also by the end of   *)
(* the program, lets every blocked open go on; a modification clears the   *)
(* ignore mask of a file unless the mask was to survive it.                *)
(***************************************************************************)
EXTENDS Naturals, Sequences, FiniteSets

CONSTANTS
  Procs,     \* the processes that open files
  Files,     \* the files, each on a mount of its own
  Specials,  \* those set_special_ignored knows by name
  BatchMax,  \* the events one read has room for
  FdMax      \* the descriptors the watch may hand out

ASSUME FanotifyAssumption ==
  /\ Specials \subseteq Files
  /\ BatchMax \in Nat \ {0} /\ FdMax \in Nat \ {0}

VARIABLES
  program,   \* "daemon" or "tool"
  options,   \* of the tool: fast, ignore_perm, perms (-p), on_mount
  proc,      \* whether the mount of /proc is watched by the daemon
  pc,        \* where the program is
  sig,       \* a SIGINT or SIGTERM is pending
  todo,      \* the files the loop over the marks has not come to
  marks,     \* the files under a mark
  ignored,   \* the files with an ignore mask a modification clears
  special,   \* the files with an ignore mask that survives
  at,        \* each process: idle, blocked or open, and its file
  queue,     \* the events not read
  access,    \* the permission events read and not answered
  batch,     \* the events read and not done with
  fds,       \* the open descriptors of events
  dirty,     \* files modified since the tool last looked; no code reads it
  raced      \* those modified between the look and its mask; not read

vars == <<program, options, proc, pc, sig, todo, marks, ignored, special, at,
          queue, access, batch, fds, dirty, raced>>
setup == <<program, options, proc>>
watch == <<todo, marks, ignored, special>>
ghosts == <<dirty, raced>>

NoFile == "none"
Daemon == program = "daemon"
Tool == program = "tool"

Init ==
  /\ program \in {"daemon", "tool"}
  /\ options \in [fast : BOOLEAN, ignore_perm : BOOLEAN, perms : BOOLEAN, on_mount : BOOLEAN]
  /\ options.fast => options.ignore_perm
  /\ Daemon => options = [fast |-> FALSE, ignore_perm |-> FALSE, perms |-> TRUE, on_mount |-> TRUE]
  /\ proc \in IF Daemon THEN BOOLEAN ELSE {FALSE}
  /\ pc = "start" /\ sig = FALSE
  /\ todo = Files /\ marks = {} /\ ignored = {} /\ special = {}
  /\ at = [p \in Procs |-> [state |-> "idle", file |-> NoFile]]
  /\ queue = <<>> /\ access = {} /\ batch = <<>> /\ fds = {}
  /\ dirty = {} /\ raced = {}

(***************************************************************************)
(* The processes.                                                          *)
(***************************************************************************)
Sets(p, s, f) == at' = [at EXCEPT ![p] = [state |-> s, file |-> f]]
Event(k, p, f) == [kind |-> k, who |-> p, file |-> f, fd |-> 0]
\* The mask of -f and the one for a special file hold back every event, the
\* mask set after an answer only the kind of event that was answered.
HeldBack(k) == special \cup (IF k = "perm" \/ options.fast THEN ignored ELSE {})
Watched(k, f) == f \in marks \ HeldBack(k)

Opens(p, f) ==
  /\ at[p].state = "idle"
  /\ \/ /\ Watched("perm", f) /\ options.perms
        /\ Sets(p, "blocked", f) /\ queue' = Append(queue, Event("perm", p, f))
     \/ /\ ~(Watched("perm", f) /\ options.perms)
        /\ Sets(p, "open", f) /\ UNCHANGED queue
  /\ UNCHANGED <<setup, pc, sig, watch, access, batch, fds, ghosts>>

\* The files the ghosts follow: those a mask of the tool may go stale on.
Tracked == IF Tool THEN Files \ Specials ELSE {}

Modifies(p) ==
  LET f == at[p].file
  IN  /\ at[p].state = "open"
      /\ ignored' = ignored \ {f}
      /\ dirty' = dirty \cup ({f} \cap Tracked)
      /\ raced' = IF pc \in {"answer", "ignore"} /\ Head(batch).file = f
                  THEN raced \cup ({f} \cap Tracked) ELSE raced
      /\ UNCHANGED <<setup, pc, sig, todo, marks, special, at, queue, access, batch, fds>>

\* The notification of a close; one like it in the queue absorbs it.
ClosesFile(p) ==
  LET e == Event("note", "any", at[p].file)
  IN  /\ at[p].state = "open" /\ Sets(p, "idle", NoFile)
      /\ queue' = IF Watched("note", e.file) /\ \A i \in 1..Len(queue) : queue[i] # e
                  THEN Append(queue, e) ELSE queue
      /\ UNCHANGED <<setup, pc, sig, watch, access, batch, fds, ghosts>>

Signal ==
  /\ Daemon /\ pc # "ended" /\ ~sig /\ sig' = TRUE
  /\ UNCHANGED <<setup, pc, watch, at, queue, access, batch, fds, ghosts>>

\* The end of the program, or close of the fanotify descriptor.
Releases ==
  /\ pc' = "ended"
  /\ at' = [p \in Procs |-> IF at[p].state = "blocked" THEN [at[p] EXCEPT !.state = "open"] ELSE at[p]]
  /\ todo' = {} /\ marks' = {} /\ ignored' = {} /\ special' = {}
  /\ queue' = <<>> /\ access' = {} /\ batch' = <<>> /\ fds' = {}
  /\ UNCHANGED <<setup, sig, ghosts>>

Killed == pc \notin {"start", "ended"} /\ Releases

(***************************************************************************)
(* Steps the programs share: fanotify_init and the marks, and reading.     *)
(***************************************************************************)
Steps(l) == pc' = l
Creates ==
  /\ pc = "start"
  /\ Steps("mark") \/ Steps("ended")
  /\ UNCHANGED <<setup, sig, watch, at, queue, access, batch, fds, ghosts>>

Marks ==
  /\ pc = "mark"
  /\ \/ \E f \in todo : todo' = todo \ {f} /\ marks' = marks \cup {f} /\ Steps(pc)
     \/ todo = {} /\ Steps("poll") /\ UNCHANGED <<todo, marks>>
  /\ UNCHANGED <<setup, sig, ignored, special, at, queue, access, batch, fds, ghosts>>

MarkFails == pc = "mark" /\ todo # {} /\ Releases

LowestFree == CHOOSE n \in (1..FdMax) \ fds : \A k \in (1..FdMax) \ fds : n <= k
Room == Len(batch) < BatchMax /\ fds # 1..FdMax

\* Fault: the room left in the buffer is not looked at.
ReadsPastBuffer ==
  LET e == [Head(queue) EXCEPT !.fd = LowestFree]
  IN  /\ pc = "read" /\ queue # <<>> /\ fds # 1..FdMax
      /\ queue' = Tail(queue)
      /\ batch' = Append(batch, e)
      /\ fds' = fds \cup {e.fd}
      /\ access' = IF e.kind = "perm" THEN access \cup {e} ELSE access
      /\ UNCHANGED <<setup, pc, sig, watch, at, ghosts>>

\* read copies events while there are any and they fit.
ReadsEvent ==
  LET e == [Head(queue) EXCEPT !.fd = LowestFree]
  IN  /\ pc = "read" /\ queue # <<>> /\ Room
      /\ queue' = Tail(queue)
      /\ batch' = Append(batch, e)
      /\ fds' = fds \cup {e.fd}
      /\ access' = IF e.kind = "perm" THEN access \cup {e} ELSE access
      /\ UNCHANGED <<setup, pc, sig, watch, at, ghosts>>

ReadReturns ==
  /\ pc = "read" /\ batch # <<>> /\ (queue = <<>> \/ ~Room)
  /\ Steps("process")
  /\ UNCHANGED <<setup, sig, watch, at, queue, access, batch, fds, ghosts>>

\* The file of an event cannot be opened: the event is dropped and its open
\* refused, and read returns what it has, or an error.
ReadFails(next) ==
  LET e == Head(queue)
  IN  /\ pc = "read" /\ queue # <<>> /\ Room
      /\ queue' = Tail(queue)
      /\ IF e.kind = "perm" THEN Sets(e.who, "idle", NoFile) ELSE UNCHANGED at
      /\ Steps(IF batch # <<>> THEN "process" ELSE next)
      /\ UNCHANGED <<setup, sig, watch, access, batch, fds, ghosts>>

\* write of an answer: the permission event with that descriptor, if any.
Writes(fd) ==
  LET found == {a \in access : a.fd = fd}
  IN  /\ access' = access \ found
      /\ at' = [p \in Procs |-> IF \E a \in found : a.who = p
                                THEN [at[p] EXCEPT !.state = "open"] ELSE at[p]]

NextEvent == Steps(IF Len(batch) > 1 THEN "process" ELSE "poll") /\ batch' = Tail(batch)

(***************************************************************************)
(* test_fan.c.  It looks up the program under /proc, closes the event's    *)
(* descriptor and only then answers, with the number alone.                *)
(***************************************************************************)
Polls ==
  /\ pc = "poll"
  /\ sig \/ queue # <<>>
  /\ Steps(IF sig THEN "shutdown" ELSE "read")
  /\ UNCHANGED <<setup, sig, watch, at, queue, access, batch, fds, ghosts>>

\* Fault: the descriptor of a notification is not closed.
KeepsNotes ==
  /\ pc = "process"
  /\ Steps(IF proc THEN "hung" ELSE "answer")
  /\ fds' = IF proc \/ Head(batch).kind = "note" THEN fds ELSE fds \ {Head(batch).fd}
  /\ UNCHANGED <<setup, sig, watch, at, queue, access, batch, ghosts>>

event_process ==
  /\ pc = "process"
  /\ Steps(IF proc THEN "hung" ELSE "answer")
  /\ fds' = IF proc THEN fds ELSE fds \ {Head(batch).fd}
  /\ UNCHANGED <<setup, sig, watch, at, queue, access, batch, ghosts>>

\* Fault: one answer for a batch.
AllowsLast ==
  /\ pc = "answer"
  /\ IF Len(batch) = 1 THEN Writes(Head(batch).fd) ELSE UNCHANGED <<access, at>>
  /\ NextEvent
  /\ UNCHANGED <<setup, sig, watch, queue, fds, ghosts>>

Allows ==
  /\ pc = "answer"
  /\ Writes(Head(batch).fd) /\ NextEvent
  /\ UNCHANGED <<setup, sig, watch, queue, fds, ghosts>>

\* FAN_MARK_REMOVE without FAN_MARK_MOUNT finds no mark on the directories:
\* the marks of the mounts go when the descriptor is closed.
shutdown_fanotify == pc = "shutdown" /\ Releases

DaemonStep ==
  /\ Daemon
  /\ \/ Creates \/ Marks \/ MarkFails \/ Polls \/ ReadsEvent \/ ReadReturns
     \/ ReadFails("poll") \/ event_process \/ Allows \/ shutdown_fanotify

(***************************************************************************)
(* fanotify.c.  Any failure ends the program.                              *)
(***************************************************************************)
Fails == pc \in {"process", "answer", "ignore", "close"} /\ Releases

Selects ==
  /\ pc = "poll" /\ queue # <<>>
  /\ Steps("read")
  /\ UNCHANGED <<setup, sig, watch, at, queue, access, batch, fds, ghosts>>

\* read returned an error at the first event of a batch.
ReadGivesUp == pc = "failed" /\ Releases

\* Fault: the mask is set to survive modifications.
SetsForGood(f) == special' = special \cup {f} /\ UNCHANGED ignored
set_ignored_mask(f) == ignored' = ignored \cup {f} /\ UNCHANGED special
set_special_ignored(f) == special' = IF f \in Specials THEN special \cup {f} ELSE special

\* The part before the answer: the look at the file, and the masks.
Examines ==
  LET e == Head(batch)
  IN  /\ pc = "process"
      /\ ignored' = IF options.fast THEN ignored \cup {e.file} ELSE ignored
      /\ set_special_ignored(e.file)
      /\ dirty' = dirty \ {e.file} /\ raced' = raced \ {e.file}
      /\ Steps(IF e.kind = "perm" THEN "answer" ELSE "close")
      /\ UNCHANGED <<setup, sig, todo, marks, at, queue, access, batch, fds>>

handle_perm ==
  /\ pc = "answer"
  /\ Writes(Head(batch).fd)
  /\ Steps(IF options.ignore_perm THEN "ignore" ELSE "close")
  /\ UNCHANGED <<setup, sig, watch, queue, batch, fds, ghosts>>

Ignores ==
  /\ pc = "ignore"
  /\ set_ignored_mask(Head(batch).file)
  /\ Steps("close")
  /\ UNCHANGED <<setup, sig, todo, marks, at, queue, access, batch, fds, ghosts>>

ClosesEvent ==
  /\ pc = "close"
  /\ fds' = fds \ {Head(batch).fd} /\ NextEvent
  /\ UNCHANGED <<setup, sig, watch, at, queue, access, ghosts>>

\* SIGUSR1: FAN_MARK_FLUSH clears the marks of inodes, masks included; marks
\* of mounts stay.  The handler is there before the marks are: a flush among
\* them undoes those set so far.  Before fanotify_init it has no descriptor to
\* flush.
usr1_handler ==
  /\ Tool /\ pc \notin {"start", "ended"}
  /\ marks' = IF options.on_mount THEN marks ELSE {}
  /\ ignored' = {} /\ special' = {}
  /\ UNCHANGED <<setup, pc, sig, todo, at, queue, access, batch, fds, ghosts>>

ToolStep ==
  /\ Tool
  /\ \/ Creates \/ Marks \/ MarkFails \/ Selects \/ ReadsEvent \/ ReadReturns
     \/ ReadFails("failed") \/ ReadGivesUp \/ Examines \/ handle_perm \/ Ignores
     \/ ClosesEvent \/ Fails

Next ==
  \/ DaemonStep \/ ToolStep \/ usr1_handler \/ Signal \/ Killed
  \/ \E p \in Procs : Modifies(p) \/ ClosesFile(p) \/ \E f \in Files : Opens(p, f)

Spec == Init /\ [][Next]_vars

(***************************************************************************)
(* The programs run when they can: what they wait for is an event.         *)
(***************************************************************************)
FairSpec == Spec /\ WF_vars(DaemonStep) /\ WF_vars(ToolStep)

\* The types of the variables.
TypeOK ==
  /\ pc \in {"start", "mark", "poll", "read", "process", "answer", "ignore", "close",
             "shutdown", "failed", "hung", "ended"}
  /\ sig \in BOOLEAN
  /\ todo \cup marks \cup ignored \cup special \cup dirty \cup raced \subseteq Files
  /\ at \in [Procs -> [state : {"idle", "blocked", "open"}, file : Files \cup {NoFile}]]
  /\ fds \subseteq 1..FdMax
  /\ \A e \in access : e.kind = "perm" /\ e.fd \in 1..FdMax
  /\ Len(batch) <= BatchMax

\* The answer the program is about to write names the event it is at and no
\* other, although the daemon has closed the descriptor and its number may be
\* handed out again; and before the program waits it has answered every event
\* it read and closed every descriptor (main and event_process of test_fan.c,
\* main of fanotify.c).
EventsAreSettled ==
  /\ pc = "answer" => {a \in access : a.fd = Head(batch).fd} =
                      {a \in {Head(batch)} : a.kind = "perm"}
  /\ pc = "poll" => access = {} /\ fds = {}

\* A file the tool lets pass unasked was not modified since the tool looked
\* at it, unless it was modified between that look and the mask that followed
\* the answer (main and set_ignored_mask of fanotify.c).
IgnoredFilesAreChecked == Tracked \cap dirty \cap (ignored \cup special) \subseteq raced

\* Every blocked open returns: it is answered, or the end of the program
\* releases it.  The daemon must not watch /proc, where it opens files itself
\* (main of test_fan.c, main of fanotify.c).
OpensReturn == \A p \in Procs : (~proc /\ at[p].state = "blocked") ~> at[p].state # "blocked"
=============================================================================
