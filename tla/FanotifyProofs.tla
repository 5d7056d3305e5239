--------------------------- MODULE FanotifyProofs ---------------------------
(***************************************************************************)
(* The fanotify programs with any number of processes, files, events in a  *)
(* read and descriptors: every answer names its event, and the files the   *)
(* tool lets pass were looked at.                                          *)
(***************************************************************************)
EXTENDS Fanotify, TLAPS, WellFoundedInduction

\* The events of the queue, and those read from it.
Queued == [kind : {"perm", "note"}, who : Procs \cup {"any"}, file : Files, fd : {0}]
Read == [kind : {"perm", "note"}, who : Procs \cup {"any"}, file : Files, fd : 1..FdMax]

FanTypes ==
  /\ TypeOK
  /\ program \in {"daemon", "tool"}
  /\ queue \in Seq(Queued)
  /\ batch \in Seq(Read)

\* Where each program can be, and that it is at an event there.
Handling == {"process", "answer", "ignore", "close", "hung"}
PlaceInv ==
  /\ Daemon => pc \notin {"ignore", "close", "failed"}
  /\ Tool => pc \notin {"shutdown", "hung"}
  /\ pc \in Handling => batch # <<>>
  /\ pc \notin Handling \cup {"read"} => batch = <<>>

\* The events of the batch that are not answered, and whose descriptors are
\* open: all of them, but for the first once it is answered or closed.
Unanswered == (IF pc \in {"ignore", "close"} THEN 2 ELSE 1)..Len(batch)
Unclosed == (IF Daemon /\ pc = "answer" THEN 2 ELSE 1)..Len(batch)

\* The kernel remembers just the permission events that are unanswered, each
\* under a descriptor of its own.
BatchInv ==
  /\ \A i, j \in 1..Len(batch) : batch[i].fd = batch[j].fd => i = j
  /\ \A a : a \in access <=> \E i \in Unanswered : batch[i] = a /\ a.kind = "perm"
  /\ \A n : n \in fds <=> \E i \in Unclosed : batch[i].fd = n

\* A file the tool ignores and has not looked at since it was modified was
\* modified behind its back; so was one the tool is about to ignore.
MaskInv ==
  /\ special \subseteq Specials
  /\ \A f \in Tracked : f \in dirty /\ f \in ignored => f \in raced
  /\ pc \in {"answer", "ignore"} =>
       \A f \in Tracked : f \in dirty /\ f = Head(batch).file => f \in raced

FanInv == FanTypes /\ PlaceInv /\ BatchInv /\ MaskInv

-----------------------------------------------------------------------------
(* A set of natural numbers that is not empty has a least one. *)
LEMMA LeastNumber ==
  ASSUME NEW S \in SUBSET Nat, S # {}
  PROVE  \E n \in S : \A k \in S : n <= k
<1> DEFINE R == {ss \in Nat \X Nat : ss[1] < ss[2]}
<1>1. IsWellFoundedOn(R, Nat)
  BY NatLessThanWellFounded DEF OpToRel
<1> HIDE DEF R
<1>2. PICK x \in S : \A y \in S : ~(<<y, x>> \in R)
  BY <1>1, WFMin
<1>3. ASSUME NEW k \in S PROVE x <= k
  <2>1. ~(<<k, x>> \in R)
    BY <1>2
  <2>2. QED
    BY <2>1 DEF R
<1>4. QED
  BY <1>3

(* The kernel hands out a descriptor that is not in use, if there is one. *)
LEMMA LowestFreeIsFree ==
  ASSUME fds \subseteq 1..FdMax, fds # 1..FdMax
  PROVE  LowestFree \in (1..FdMax) \ fds
<1> DEFINE S == (1..FdMax) \ fds
<1>1. S \in SUBSET Nat
  BY FanotifyAssumption
<1>2. S # {}
  OBVIOUS
<1>3. \E n \in S : \A k \in S : n <= k
  BY <1>1, <1>2, LeastNumber
<1>4. QED
  BY <1>3 DEF LowestFree

(* Before the program has begun there is nothing to know. *)
LEMMA FanInit == Init => FanInv
<1> SUFFICES ASSUME Init PROVE FanInv
  OBVIOUS
<1> USE DEF Init
<1>1. batch = <<>> /\ queue = <<>> /\ Len(batch) = 0
  OBVIOUS
<1>2. TypeOK
  <2>1. at \in [Procs -> [state : {"idle", "blocked", "open"}, file : Files \cup {NoFile}]]
    OBVIOUS
  <2>2. Len(batch) <= BatchMax
    BY <1>1, FanotifyAssumption
  <2>3. QED
    BY <2>1, <2>2 DEF TypeOK
<1>3. FanTypes
  BY <1>1, <1>2 DEF FanTypes
<1>4. PlaceInv
  BY DEF PlaceInv, Handling
<1>5. BatchInv
  BY <1>1 DEF BatchInv, Unanswered, Unclosed
<1>6. MaskInv
  BY DEF MaskInv
<1>7. QED
  BY <1>3, <1>4, <1>5, <1>6 DEF FanInv

(* A step that leaves the batch and its events alone, and the place of the *)
(* program as far as they are concerned.                                   *)
LEMMA BatchSame ==
  ASSUME BatchInv, UNCHANGED <<program, batch, access, fds>>,
         pc' \in {"ignore", "close"} <=> pc \in {"ignore", "close"},
         pc' = "answer" <=> pc = "answer"
  PROVE  BatchInv'
<1>1. Unanswered' = Unanswered /\ Unclosed' = Unclosed
  BY DEF Unanswered, Unclosed, Daemon
<1>2. QED
  BY <1>1 DEF BatchInv

(* A step outside the handling of events. *)
LEMMA QuietKeeps ==
  ASSUME FanInv, UNCHANGED <<setup, ignored, special, access, batch, fds, ghosts>>,
         queue' \in Seq(Queued), todo' \cup marks' \subseteq Files, sig' \in BOOLEAN,
         at' \in [Procs -> [state : {"idle", "blocked", "open"}, file : Files \cup {NoFile}]],
         \/ pc' = pc
         \/ /\ pc' \in {"start", "mark", "poll", "read", "shutdown", "failed", "ended"}
            /\ Daemon => pc' # "failed"
            /\ Tool => pc' # "shutdown"
            /\ pc \notin Handling
            /\ batch = <<>>
  PROVE  FanInv'
<1> USE DEF FanInv, setup, ghosts
<1>1. UNCHANGED <<Daemon, Tool, Tracked>>
  BY DEF Daemon, Tool, Tracked
<1>2. TypeOK'
  BY DEF FanTypes, TypeOK
<1>3. FanTypes'
  BY <1>2 DEF FanTypes
<1>4. PlaceInv'
  BY <1>1 DEF PlaceInv, Handling
<1>5. BatchInv'
  BY BatchSame DEF Handling
<1>6. MaskInv'
  BY <1>1 DEF MaskInv, Handling
<1>7. QED
  BY <1>3, <1>4, <1>5, <1>6

(* The end of the program drops everything. *)
LEMMA ReleaseKeeps ==
  ASSUME FanInv, Releases
  PROVE  FanInv'
<1> USE DEF FanInv, Releases, setup, ghosts
<1>1. UNCHANGED <<Daemon, Tool, Tracked>>
  BY DEF Daemon, Tool, Tracked
<1>2. batch' = <<>> /\ queue' = <<>> /\ Len(batch') = 0
  OBVIOUS
<1>3. at' \in [Procs -> [state : {"idle", "blocked", "open"}, file : Files \cup {NoFile}]]
  BY DEF FanTypes, TypeOK
<1>4. TypeOK'
  BY <1>2, <1>3, FanotifyAssumption DEF FanTypes, TypeOK
<1>5. FanTypes'
  BY <1>2, <1>4 DEF FanTypes
<1>6. PlaceInv'
  BY DEF PlaceInv, Handling
<1>7. BatchInv'
  BY <1>2 DEF BatchInv, Unanswered, Unclosed
<1>8. MaskInv'
  BY DEF MaskInv
<1>9. QED
  BY <1>5, <1>6, <1>7, <1>8

(* The processes open and close files. *)
LEMMA OpensKeep ==
  ASSUME FanInv, NEW p \in Procs, ClosesFile(p) \/ \E f \in Files : Opens(p, f)
  PROVE  FanInv'
<1> DEFINE A == [state : {"idle", "blocked", "open"}, file : Files \cup {NoFile}]
<1>1. /\ at \in [Procs -> A] /\ queue \in Seq(Queued)
      /\ todo \cup marks \subseteq Files /\ sig \in BOOLEAN
  BY DEF FanInv, FanTypes, TypeOK
<1>2. ASSUME NEW f \in Files, Opens(p, f) PROVE at' \in [Procs -> A] /\ queue' \in Seq(Queued)
  <2>1. Event("perm", p, f) \in Queued
    BY DEF Event, Queued
  <2>2. at' \in [Procs -> A]
    BY <1>1, <1>2 DEF Opens, Sets
  <2>3. queue' = queue \/ queue' = Append(queue, Event("perm", p, f))
    BY <1>2 DEF Opens
  <2>4. QED
    BY <1>1, <2>1, <2>2, <2>3
<1>3. ASSUME ClosesFile(p) PROVE at' \in [Procs -> A] /\ queue' \in Seq(Queued)
  <2> DEFINE e == Event("note", "any", at[p].file)
  <2>1. at' \in [Procs -> A]
    BY <1>1, <1>3 DEF ClosesFile, Sets
  <2>2. queue' = queue \/ (queue' = Append(queue, e) /\ Watched("note", e.file))
    BY <1>3 DEF ClosesFile
  <2>3. Watched("note", e.file) => e \in Queued
    BY <1>1 DEF Watched, HeldBack, Event, Queued
  <2>4. QED
    BY <1>1, <2>1, <2>2, <2>3
<1>4. UNCHANGED <<setup, pc, sig, watch, access, batch, fds, ghosts>>
  BY DEF Opens, ClosesFile
<1>5. QED
  BY <1>1, <1>2, <1>3, <1>4, QuietKeeps DEF watch

(* A step on the masks alone. *)
LEMMA MaskKeeps ==
  ASSUME FanInv, UNCHANGED <<setup, pc, sig, at, queue, access, batch, fds>>,
         todo' = todo, marks' \subseteq Files, ignored' \subseteq Files, special' \subseteq Files,
         dirty' \subseteq Files, raced' \subseteq Files, MaskInv'
  PROVE  FanInv'
<1> USE DEF FanInv, setup
<1>1. UNCHANGED <<Daemon, Tool>>
  BY DEF Daemon, Tool
<1>2. TypeOK'
  BY DEF FanTypes, TypeOK
<1>3. FanTypes'
  BY <1>2 DEF FanTypes
<1>4. PlaceInv'
  BY <1>1 DEF PlaceInv
<1>5. BatchInv'
  BY BatchSame
<1>6. QED
  BY <1>3, <1>4, <1>5

(* A process modifies a file: its mask goes. *)
LEMMA ModifiesKeeps ==
  ASSUME FanInv, NEW p \in Procs, Modifies(p)
  PROVE  FanInv'
<1> DEFINE f == at[p].file
<1>1. /\ UNCHANGED <<setup, pc, sig, todo, marks, special, at, queue, access, batch, fds>>
      /\ ignored' = ignored \ {f}
      /\ dirty' = dirty \cup ({f} \cap Tracked)
      /\ raced \subseteq raced' /\ raced' \subseteq raced \cup ({f} \cap Tracked)
      /\ pc \in {"answer", "ignore"} /\ Head(batch).file = f => {f} \cap Tracked \subseteq raced'
  BY DEF Modifies
<1> HIDE DEF f
<1>2. Tracked' = Tracked /\ Tracked \subseteq Files
  BY <1>1 DEF Tracked, Tool, setup
<1>3. MaskInv'
  BY <1>1, <1>2 DEF FanInv, MaskInv
<1>4. QED
  BY <1>1, <1>2, <1>3, MaskKeeps DEF FanInv, FanTypes, TypeOK

(* SIGUSR1. *)
LEMMA FlushKeeps ==
  ASSUME FanInv, usr1_handler
  PROVE  FanInv'
<1>1. /\ UNCHANGED <<setup, pc, sig, todo, at, queue, access, batch, fds, ghosts>>
      /\ marks' \subseteq marks /\ ignored' = {} /\ special' = {}
  BY DEF usr1_handler
<1>2. Tracked' = Tracked
  BY <1>1 DEF Tracked, Tool, setup
<1>3. MaskInv'
  BY <1>1, <1>2 DEF FanInv, MaskInv, ghosts
<1>4. QED
  BY <1>1, <1>3, MaskKeeps DEF FanInv, FanTypes, TypeOK, ghosts

(* Starting up, waiting, a signal. *)
LEMMA WaitsKeep ==
  ASSUME FanInv, Creates \/ Marks \/ (Polls /\ Daemon) \/ Selects \/ Signal
  PROVE  FanInv'
<1>1. /\ UNCHANGED <<setup, ignored, special, at, queue, access, batch, fds, ghosts>>
      /\ todo' \cup marks' \subseteq Files /\ sig' \in BOOLEAN
  BY DEF Creates, Marks, Polls, Selects, Signal, watch, FanInv, FanTypes, TypeOK
<1>2. \/ pc' = pc
      \/ /\ pc' \in {"mark", "poll", "read", "shutdown", "ended"}
         /\ pc' = "shutdown" => Daemon
         /\ pc \in {"start", "mark", "poll"}
  BY DEF Creates, Marks, Polls, Selects, Signal, Steps
<1>3. ~(Daemon /\ Tool)
  BY DEF Daemon, Tool
<1>4. pc \in {"start", "mark", "poll"} => pc \notin Handling /\ batch = <<>>
  BY DEF FanInv, PlaceInv, Handling
<1>5. queue' \in Seq(Queued) /\
      at' \in [Procs -> [state : {"idle", "blocked", "open"}, file : Files \cup {NoFile}]]
  BY <1>1 DEF FanInv, FanTypes, TypeOK
<1>6. QED
  BY <1>1, <1>2, <1>3, <1>4, <1>5, QuietKeeps

-----------------------------------------------------------------------------
(* The first event of the queue, and the rest. *)
LEMMA QueueFacts ==
  ASSUME FanInv, queue # <<>>
  PROVE  Head(queue) \in Queued /\ Tail(queue) \in Seq(Queued)
  BY DEF FanInv, FanTypes

(* An event is read: it gets a descriptor no event of the batch has. *)
LEMMA ReadsKeep ==
  ASSUME FanInv, ReadsEvent
  PROVE  FanInv'
<1> DEFINE e == [Head(queue) EXCEPT !.fd = LowestFree]
           n == Len(batch)
<1>1. /\ pc = "read" /\ queue # <<>> /\ Len(batch) < BatchMax /\ fds # 1..FdMax
      /\ UNCHANGED <<setup, pc, sig, watch, at, ghosts>>
      /\ queue' = Tail(queue) /\ batch' = Append(batch, e) /\ fds' = fds \cup {e.fd}
      /\ access' = IF e.kind = "perm" THEN access \cup {e} ELSE access
  BY DEF ReadsEvent, Room
<1>2. TypeOK /\ batch \in Seq(Read)
  BY DEF FanInv, FanTypes
<1>3. LowestFree \in (1..FdMax) \ fds
  BY <1>1, <1>2, LowestFreeIsFree DEF TypeOK
<1>4. e \in Read /\ e.fd = LowestFree
  BY <1>1, <1>3, QueueFacts DEF Queued, Read
<1> HIDE DEF e
<1>5. /\ batch' \in Seq(Read) /\ Len(batch') = n + 1 /\ n \in Nat
      /\ batch'[n + 1] = e /\ \A i \in 1..n : batch'[i] = batch[i]
  BY <1>1, <1>2, <1>4
<1>6. UNCHANGED <<Daemon, Tool, Tracked>>
  BY <1>1 DEF Daemon, Tool, Tracked, setup
<1>7. TypeOK'
  <2>1. \A a \in access' : a.kind = "perm" /\ a.fd \in 1..FdMax
    BY <1>1, <1>2, <1>3, <1>4 DEF TypeOK
  <2>2. fds' \subseteq 1..FdMax /\ Len(batch') <= BatchMax
    BY <1>1, <1>2, <1>3, <1>4, <1>5, FanotifyAssumption DEF TypeOK
  <2>3. QED
    BY <1>1, <1>2, <2>1, <2>2 DEF TypeOK, watch, ghosts
<1>8. FanTypes'
  BY <1>1, <1>5, <1>7, QueueFacts DEF FanInv, FanTypes, setup
<1>9. PlaceInv'
  BY <1>1, <1>5, <1>6 DEF FanInv, PlaceInv, Handling
<1>10. BatchInv'
  <2>1. Unanswered = 1..n /\ Unclosed = 1..n /\ Unanswered' = 1..(n + 1) /\ Unclosed' = 1..(n + 1)
    BY <1>1, <1>5 DEF Unanswered, Unclosed
  <2>2. \A i \in 1..n : batch[i].fd \in fds
    BY <2>1 DEF FanInv, BatchInv
  <2>3. \A i \in 1..n : batch[i].fd # e.fd
    BY <1>3, <1>4, <2>2
  <2>4. ASSUME NEW i \in 1..(n + 1), NEW j \in 1..(n + 1), batch'[i].fd = batch'[j].fd
        PROVE  i = j
    <3>1. CASE i \in 1..n /\ j \in 1..n
      BY <1>5, <2>4, <3>1 DEF FanInv, BatchInv
    <3>2. CASE i = n + 1 \/ j = n + 1
      BY <1>5, <2>3, <2>4, <3>2
    <3>3. QED
      BY <1>5, <3>1, <3>2
  <2>5. ASSUME NEW a
        PROVE  a \in access' <=> \E i \in 1..(n + 1) : batch'[i] = a /\ a.kind = "perm"
    <3>1. a \in access <=> \E i \in 1..n : batch[i] = a /\ a.kind = "perm"
      BY <2>1 DEF FanInv, BatchInv
    <3>2. a \in access' <=> a \in access \/ (a = e /\ e.kind = "perm")
      BY <1>1
    <3>3. QED
      BY <1>5, <3>1, <3>2
  <2>6. ASSUME NEW m
        PROVE  m \in fds' <=> \E i \in 1..(n + 1) : batch'[i].fd = m
    <3>1. m \in fds <=> \E i \in 1..n : batch[i].fd = m
      BY <2>1 DEF FanInv, BatchInv
    <3>2. QED
      BY <1>1, <1>5, <3>1
  <2>7. QED
    BY <1>5, <2>1, <2>4, <2>5, <2>6 DEF BatchInv
<1>11. MaskInv'
  BY <1>1, <1>6 DEF FanInv, MaskInv, watch, ghosts
<1>12. QED
  BY <1>8, <1>9, <1>10, <1>11 DEF FanInv

(* read returns, or an event of the queue is dropped. *)
LEMMA ReadEndsKeep ==
  ASSUME FanInv, \/ ReadReturns
                 \/ Daemon /\ ReadFails("poll")
                 \/ Tool /\ ReadFails("failed")
  PROVE  FanInv'
<1>1. /\ pc = "read"
      /\ UNCHANGED <<setup, sig, watch, access, batch, fds, ghosts>>
      /\ \/ batch # <<>> /\ pc' = "process"
         \/ batch = <<>> /\ ((Daemon /\ pc' = "poll") \/ (Tool /\ pc' = "failed"))
  BY DEF ReadReturns, ReadFails, Steps
<1>2. queue' \in Seq(Queued)
  <2>1. CASE ReadReturns
    BY <2>1 DEF ReadReturns, FanInv, FanTypes
  <2>2. CASE ~ReadReturns
    BY <2>2, QueueFacts DEF ReadFails
  <2>3. QED
    BY <2>1, <2>2
<1>3. at' \in [Procs -> [state : {"idle", "blocked", "open"}, file : Files \cup {NoFile}]]
  BY DEF ReadReturns, ReadFails, Sets, FanInv, FanTypes, TypeOK
<1>4. CASE batch = <<>>
  <2>1. ~(Daemon /\ Tool)
    BY DEF Daemon, Tool
  <2>2. QED
    BY <1>1, <1>2, <1>3, <1>4, <2>1, QuietKeeps
       DEF watch, Handling, FanInv, FanTypes, TypeOK
<1>5. CASE batch # <<>>
  <2>1. UNCHANGED <<Daemon, Tool, Tracked>>
    BY <1>1 DEF Daemon, Tool, Tracked, setup
  <2>2. TypeOK'
    BY <1>1, <1>3, <1>5 DEF FanInv, FanTypes, TypeOK, watch, ghosts
  <2>3. FanTypes'
    BY <1>1, <1>2, <2>2 DEF FanInv, FanTypes, setup
  <2>4. PlaceInv'
    BY <1>1, <1>5, <2>1 DEF FanInv, PlaceInv, Handling
  <2>5. BatchInv'
    BY <1>1, <1>5, BatchSame DEF FanInv, setup
  <2>6. MaskInv'
    BY <1>1, <1>5, <2>1 DEF FanInv, MaskInv, watch, ghosts
  <2>7. QED
    BY <2>3, <2>4, <2>5, <2>6 DEF FanInv
<1>6. QED
  BY <1>4, <1>5

-----------------------------------------------------------------------------
(* The batch of a program that is at an event. *)
LEMMA AtEvent ==
  ASSUME FanInv, pc \in Handling
  PROVE  /\ batch \in Seq(Read) /\ batch # <<>> /\ Len(batch) \in Nat \ {0}
         /\ Head(batch) = batch[1] /\ batch[1] \in Read
         /\ Tail(batch) \in Seq(Read) /\ Len(Tail(batch)) = Len(batch) - 1
         /\ \A i \in 1..(Len(batch) - 1) : Tail(batch)[i] = batch[i + 1]
         /\ Len(batch) = 1 => Tail(batch) = <<>>
  BY DEF FanInv, FanTypes, PlaceInv

(* An answer settles the event the program is at and no other. *)
LEMMA WritesFacts ==
  ASSUME FanInv, pc = "answer", Writes(Head(batch).fd)
  PROVE  /\ \A a : a \in access' <=>
              \E i \in 2..Len(batch) : batch[i] = a /\ a.kind = "perm"
         /\ at' \in [Procs -> [state : {"idle", "blocked", "open"}, file : Files \cup {NoFile}]]
<1>1. at' \in [Procs -> [state : {"idle", "blocked", "open"}, file : Files \cup {NoFile}]]
  BY DEF Writes, FanInv, FanTypes, TypeOK
<1> DEFINE n == Len(batch)
<1>2. n \in Nat \ {0} /\ Head(batch) = batch[1]
  BY AtEvent DEF Handling
<1>3. Unanswered = 1..n
  BY DEF Unanswered
<1>4. ASSUME NEW a
      PROVE  a \in access' <=> \E i \in 2..n : batch[i] = a /\ a.kind = "perm"
  <2>1. a \in access <=> \E i \in 1..n : batch[i] = a /\ a.kind = "perm"
    BY <1>3 DEF FanInv, BatchInv
  <2>2. a \in access' <=> a \in access /\ a.fd # batch[1].fd
    BY <1>2 DEF Writes
  <2>3. \A i \in 1..n : batch[i].fd = batch[1].fd => i = 1
    BY <1>2 DEF FanInv, BatchInv
  <2>4. QED
    BY <1>2, <2>1, <2>2, <2>3
<1>5. QED
  BY <1>1, <1>4

(* On to the next event, or back to waiting, with this one settled. *)
LEMMA NextEventKeeps ==
  ASSUME FanInv, pc \in Handling, NextEvent, UNCHANGED <<setup, sig, watch, queue, ghosts>>,
         at' \in [Procs -> [state : {"idle", "blocked", "open"}, file : Files \cup {NoFile}]],
         \A a : a \in access' <=> \E i \in 2..Len(batch) : batch[i] = a /\ a.kind = "perm",
         \A m : m \in fds' <=> \E i \in 2..Len(batch) : batch[i].fd = m
  PROVE  FanInv'
<1> DEFINE n == Len(batch)
<1>1. /\ batch \in Seq(Read) /\ n \in Nat \ {0}
      /\ batch' \in Seq(Read) /\ Len(batch') = n - 1
      /\ \A i \in 1..(n - 1) : batch'[i] = batch[i + 1]
      /\ n = 1 => batch' = <<>>
  BY AtEvent DEF NextEvent
<1>2. /\ n > 1 => pc' = "process" /\ batch' # <<>>
      /\ n = 1 => pc' = "poll"
  <2>1. pc' = IF n > 1 THEN "process" ELSE "poll"
    BY DEF NextEvent, Steps
  <2>2. n > 1 => Len(batch') # 0
    BY <1>1
  <2>3. Len(<<>>) = 0
    OBVIOUS
  <2>4. QED
    BY <1>1, <2>1, <2>2, <2>3
<1>3. UNCHANGED <<Daemon, Tool, Tracked>>
  BY DEF Daemon, Tool, Tracked, setup
<1>4. TypeOK'
  <2>1. \A i \in 2..n : batch[i].fd \in 1..FdMax
    <3>1. \A i \in 2..n : batch[i] \in Read
      BY <1>1
    <3>2. QED
      BY <3>1 DEF Read
  <2>2. /\ fds' \subseteq 1..FdMax
        /\ \A a \in access' : a.kind = "perm" /\ a.fd \in 1..FdMax
    BY <2>1
  <2>3. Len(batch') <= BatchMax
    BY <1>1, FanotifyAssumption DEF FanInv, FanTypes, TypeOK
  <2>4. pc' \in {"process", "poll"}
    BY <1>1, <1>2
  <2>5. QED
    BY <2>2, <2>3, <2>4 DEF FanInv, FanTypes, TypeOK, watch, ghosts
<1>5. FanTypes'
  BY <1>1, <1>4 DEF FanInv, FanTypes, setup
<1>6. PlaceInv'
  BY <1>1, <1>2, <1>3 DEF FanInv, PlaceInv, Handling
<1>7. BatchInv'
  <2>1. Unanswered' = 1..(n - 1) /\ Unclosed' = 1..(n - 1)
    BY <1>1, <1>2 DEF Unanswered, Unclosed
  <2>2. ASSUME NEW i \in 1..(n - 1), NEW j \in 1..(n - 1), batch'[i].fd = batch'[j].fd
        PROVE  i = j
    <3>1. i + 1 \in 1..n /\ j + 1 \in 1..n /\ batch[i + 1].fd = batch[j + 1].fd
      BY <1>1, <2>2
    <3>2. i + 1 = j + 1
      BY <3>1 DEF FanInv, BatchInv
    <3>3. QED
      BY <1>1, <3>2
  <2>3. \A i \in 2..n : i - 1 \in 1..(n - 1) /\ batch'[i - 1] = batch[i]
    BY <1>1
  <2>4. \A i \in 1..(n - 1) : i + 1 \in 2..n
    BY <1>1
  <2>5. ASSUME NEW a
        PROVE  a \in access' <=> \E i \in 1..(n - 1) : batch'[i] = a /\ a.kind = "perm"
    <3>1. a \in access' <=> \E i \in 2..n : batch[i] = a /\ a.kind = "perm"
      OBVIOUS
    <3>2. ASSUME NEW i \in 2..n, batch[i] = a PROVE \E k \in 1..(n - 1) : batch'[k] = a
      BY <2>3, <3>2
    <3>3. ASSUME NEW i \in 1..(n - 1), batch'[i] = a PROVE \E k \in 2..n : batch[k] = a
      BY <1>1, <2>4, <3>3
    <3>4. QED
      BY <3>1, <3>2, <3>3
  <2>6. ASSUME NEW m PROVE m \in fds' <=> \E i \in 1..(n - 1) : batch'[i].fd = m
    <3>1. m \in fds' <=> \E i \in 2..n : batch[i].fd = m
      OBVIOUS
    <3>2. ASSUME NEW i \in 2..n, batch[i].fd = m PROVE \E k \in 1..(n - 1) : batch'[k].fd = m
      BY <2>3, <3>2
    <3>3. ASSUME NEW i \in 1..(n - 1), batch'[i].fd = m PROVE \E k \in 2..n : batch[k].fd = m
      BY <1>1, <2>4, <3>3
    <3>4. QED
      BY <3>1, <3>2, <3>3
  <2>7. QED
    BY <1>1, <2>1, <2>2, <2>5, <2>6 DEF BatchInv
<1>8. MaskInv'
  BY <1>1, <1>2, <1>3 DEF FanInv, MaskInv, watch, ghosts
<1>9. QED
  BY <1>5, <1>6, <1>7, <1>8 DEF FanInv

(* A step at an event that does not leave it. *)
LEMMA EventKeeps ==
  ASSUME FanInv, pc \in Handling, UNCHANGED <<setup, sig, todo, marks, queue, batch>>,
         pc' \in Handling, Daemon => pc' \notin {"ignore", "close"}, Tool => pc' # "hung",
         at' \in [Procs -> [state : {"idle", "blocked", "open"}, file : Files \cup {NoFile}]],
         ignored' \subseteq Files, special' \subseteq Files,
         dirty' \subseteq Files, raced' \subseteq Files,
         fds' \subseteq fds, access' \subseteq access,
         \A a : a \in access' <=> \E i \in Unanswered' : batch[i] = a /\ a.kind = "perm",
         \A m : m \in fds' <=> \E i \in Unclosed' : batch[i].fd = m,
         MaskInv'
  PROVE  FanInv'
<1>1. UNCHANGED <<Daemon, Tool>>
  BY DEF Daemon, Tool, setup
<1>2. TypeOK'
  BY DEF FanInv, FanTypes, TypeOK, Handling
<1>3. FanTypes'
  BY <1>2 DEF FanInv, FanTypes, setup
<1>4. PlaceInv'
  BY <1>1 DEF FanInv, PlaceInv, Handling
<1>5. BatchInv'
  BY DEF FanInv, BatchInv
<1>6. QED
  BY <1>3, <1>4, <1>5 DEF FanInv

(* The daemon closes the descriptor of an event, then answers it. *)
LEMMA DaemonKeeps ==
  ASSUME FanInv, Daemon, event_process \/ Allows
  PROVE  FanInv'
<1> DEFINE n == Len(batch)
<1>1. ~Tool
  BY DEF Daemon, Tool
<1>2. ASSUME event_process PROVE FanInv'
  <2>1. /\ pc = "process" /\ pc \in Handling
        /\ UNCHANGED <<setup, sig, watch, at, queue, access, batch, ghosts>>
        /\ pc' = IF proc THEN "hung" ELSE "answer"
        /\ fds' = IF proc THEN fds ELSE fds \ {Head(batch).fd}
    BY <1>2 DEF event_process, Steps, Handling
  <2>2. n \in Nat \ {0} /\ Head(batch) = batch[1]
    BY <2>1, AtEvent
  <2>3. Unanswered = 1..n /\ Unclosed = 1..n /\ Unanswered' = 1..n
    BY <2>1 DEF Unanswered, Unclosed
  <2>4. Unclosed' = IF proc THEN 1..n ELSE 2..n
    BY <2>1 DEF Unclosed, Daemon, setup
  <2>5. ASSUME NEW m PROVE m \in fds' <=> \E i \in Unclosed' : batch[i].fd = m
    <3>1. m \in fds <=> \E i \in 1..n : batch[i].fd = m
      BY <2>3 DEF FanInv, BatchInv
    <3>2. \A i \in 1..n : batch[i].fd = batch[1].fd => i = 1
      BY <2>2 DEF FanInv, BatchInv
    <3>3. CASE proc
      BY <2>1, <2>4, <3>1, <3>3
    <3>4. CASE ~proc
      <4>1. m \in fds' <=> m \in fds /\ m # batch[1].fd
        BY <2>1, <2>2, <3>4
      <4>2. QED
        BY <2>2, <2>4, <3>1, <3>2, <3>4, <4>1
    <3>5. QED
      BY <3>3, <3>4
  <2>6. \A a : a \in access' <=> \E i \in Unanswered' : batch[i] = a /\ a.kind = "perm"
    BY <2>1, <2>3 DEF FanInv, BatchInv
  <2>7. MaskInv'
    <3>1. Tracked' = {}
      BY <1>1, <2>1 DEF Tracked, Tool, setup
    <3>2. QED
      BY <2>1, <3>1 DEF FanInv, MaskInv, watch
  <2>8. fds' \subseteq fds /\ pc' \in Handling \ {"ignore", "close"}
    BY <2>1 DEF Handling
  <2>9. QED
    BY <1>1, <2>1, <2>5, <2>6, <2>7, <2>8, EventKeeps
       DEF watch, ghosts, FanInv, FanTypes, TypeOK
<1>3. ASSUME Allows PROVE FanInv'
  <2>1. /\ pc = "answer" /\ pc \in Handling /\ Writes(Head(batch).fd) /\ NextEvent
        /\ UNCHANGED <<setup, sig, watch, queue, fds, ghosts>>
    BY <1>3 DEF Allows, Handling
  <2>2. Unclosed = 2..n
    BY <2>1 DEF Unclosed
  <2>3. \A m : m \in fds' <=> \E i \in 2..n : batch[i].fd = m
    BY <2>1, <2>2 DEF FanInv, BatchInv
  <2>4. QED
    BY <2>1, <2>3, WritesFacts, NextEventKeeps
<1>4. QED
  BY <1>2, <1>3

(* The tool looks at the file, answers, sets a mask and closes. *)
LEMMA ToolKeeps ==
  ASSUME FanInv, Tool, Examines \/ handle_perm \/ Ignores \/ ClosesEvent
  PROVE  FanInv'
<1> DEFINE n == Len(batch)
<1>1. ~Daemon
  BY DEF Daemon, Tool
<1>2. TypeOK
  BY DEF FanInv, FanTypes
<1>3. pc \in Handling /\ UNCHANGED <<setup, sig, todo, marks, queue>> /\ Tracked' = Tracked
  BY DEF Examines, handle_perm, Ignores, ClosesEvent, Handling, Tracked, Tool, setup, watch
<1>4. n \in Nat \ {0} /\ Head(batch) = batch[1] /\ batch[1].file \in Files
  BY <1>3, AtEvent DEF Read
<1>5. Unclosed = 1..n
  BY <1>1 DEF Unclosed
<1>6. ASSUME batch' = batch, fds' = fds
      PROVE  \A m : m \in fds' <=> \E i \in Unclosed' : batch[i].fd = m
  <2>1. Unclosed' = 1..n
    BY <1>1, <1>3, <1>6 DEF Unclosed, Daemon, setup
  <2>2. QED
    BY <1>5, <1>6, <2>1 DEF FanInv, BatchInv
<1>7. ASSUME Examines PROVE FanInv'
  <2> DEFINE e == Head(batch)
  <2>1. /\ pc = "process" /\ UNCHANGED <<at, access, batch, fds>>
        /\ ignored' \subseteq ignored \cup {e.file}
        /\ special' \subseteq special \cup ({e.file} \cap Specials)
        /\ dirty' = dirty \ {e.file} /\ raced' = raced \ {e.file}
        /\ pc' = IF e.kind = "perm" THEN "answer" ELSE "close"
    BY <1>7 DEF Examines, set_special_ignored, Steps
  <2>2. Unanswered = 1..n /\ Unanswered' = (IF e.kind = "perm" THEN 1 ELSE 2)..n
    BY <2>1 DEF Unanswered
  <2>3. ASSUME NEW a
        PROVE  a \in access' <=> \E i \in Unanswered' : batch[i] = a /\ a.kind = "perm"
    <3>1. a \in access' <=> \E i \in 1..n : batch[i] = a /\ a.kind = "perm"
      BY <2>1, <2>2 DEF FanInv, BatchInv
    <3>2. QED
      BY <1>4, <2>2, <3>1
  <2>4. MaskInv'
    BY <1>3, <2>1 DEF FanInv, MaskInv
  <2>5. pc' \in Handling \ {"hung"}
    BY <2>1 DEF Handling
  <2>6. /\ ignored' \subseteq Files /\ special' \subseteq Files
        /\ dirty' \subseteq Files /\ raced' \subseteq Files
    BY <1>2, <1>4, <2>1 DEF TypeOK
  <2>7. QED
    BY <1>1, <1>2, <1>3, <1>6, <2>1, <2>3, <2>4, <2>5, <2>6, EventKeeps DEF TypeOK
<1>8. ASSUME handle_perm PROVE FanInv'
  <2>1. /\ pc = "answer" /\ Writes(Head(batch).fd)
        /\ UNCHANGED <<watch, batch, fds, ghosts>>
        /\ pc' \in {"ignore", "close"}
    BY <1>8 DEF handle_perm, Steps
  <2>2. Unanswered' = 2..n
    BY <2>1 DEF Unanswered
  <2>3. \A a : a \in access' <=> \E i \in Unanswered' : batch[i] = a /\ a.kind = "perm"
    BY <2>1, <2>2, WritesFacts
  <2>4. access' \subseteq access
    BY <2>1 DEF Writes
  <2>5. MaskInv'
    BY <1>3, <2>1 DEF FanInv, MaskInv, watch, ghosts
  <2>6. pc' \in Handling \ {"hung"}
    BY <2>1 DEF Handling
  <2>7. at' \in [Procs -> [state : {"idle", "blocked", "open"}, file : Files \cup {NoFile}]]
    BY <2>1, WritesFacts
  <2>8. QED
    BY <1>1, <1>2, <1>3, <1>6, <2>1, <2>3, <2>4, <2>5, <2>6, <2>7, EventKeeps
       DEF TypeOK, watch, ghosts
<1>9. ASSUME Ignores PROVE FanInv'
  <2>1. /\ pc = "ignore" /\ pc' = "close"
        /\ UNCHANGED <<at, access, batch, fds, special, ghosts>>
        /\ ignored' = ignored \cup {batch[1].file}
    BY <1>4, <1>9 DEF Ignores, set_ignored_mask, Steps
  <2>2. Unanswered' = Unanswered
    BY <2>1 DEF Unanswered
  <2>3. \A a : a \in access' <=> \E i \in Unanswered' : batch[i] = a /\ a.kind = "perm"
    BY <2>1, <2>2 DEF FanInv, BatchInv
  <2>4. MaskInv'
    BY <1>3, <1>4, <2>1 DEF FanInv, MaskInv, ghosts
  <2>5. QED
    BY <1>1, <1>2, <1>3, <1>4, <1>6, <2>1, <2>3, <2>4, EventKeeps
       DEF TypeOK, Handling, ghosts
<1>10. ASSUME ClosesEvent PROVE FanInv'
  <2>1. /\ pc = "close" /\ NextEvent /\ fds' = fds \ {batch[1].fd}
        /\ UNCHANGED <<setup, sig, watch, at, queue, access, ghosts>>
    BY <1>4, <1>10 DEF ClosesEvent
  <2>2. Unanswered = 2..n
    BY <2>1 DEF Unanswered
  <2>3. \A a : a \in access' <=> \E i \in 2..n : batch[i] = a /\ a.kind = "perm"
    BY <2>1, <2>2 DEF FanInv, BatchInv
  <2>4. ASSUME NEW m PROVE m \in fds' <=> \E i \in 2..n : batch[i].fd = m
    <3>1. m \in fds <=> \E i \in 1..n : batch[i].fd = m
      BY <1>5 DEF FanInv, BatchInv
    <3>2. \A i \in 1..n : batch[i].fd = batch[1].fd => i = 1
      BY <1>4 DEF FanInv, BatchInv
    <3>3. QED
      BY <1>4, <2>1, <3>1, <3>2
  <2>5. QED
    BY <1>2, <1>3, <2>1, <2>3, <2>4, NextEventKeeps DEF TypeOK
<1>11. QED
  BY <1>7, <1>8, <1>9, <1>10

-----------------------------------------------------------------------------
(* Every step keeps the invariant. *)
LEMMA FanStep == FanInv /\ [Next]_vars => FanInv'
<1> SUFFICES ASSUME FanInv, [Next]_vars PROVE FanInv'
  OBVIOUS
<1>1. CASE DaemonStep
  BY Zenon, <1>1, WaitsKeep, ReleaseKeeps, ReadsKeep, ReadEndsKeep, DaemonKeeps
     DEF DaemonStep, MarkFails, shutdown_fanotify
<1>2. CASE ToolStep
  <2>1. \/ Creates \/ Marks \/ Selects \/ ReadsEvent \/ ReadReturns \/ Releases
        \/ Tool /\ ReadFails("failed")
        \/ Tool /\ (Examines \/ handle_perm \/ Ignores \/ ClosesEvent)
    BY <1>2 DEF ToolStep, MarkFails, ReadGivesUp, Fails
  <2>2. CASE Creates \/ Marks \/ Selects
    BY <2>2, WaitsKeep
  <2>3. CASE ReadReturns \/ (Tool /\ ReadFails("failed"))
    BY <2>3, ReadEndsKeep
  <2>4. CASE Tool /\ (Examines \/ handle_perm \/ Ignores \/ ClosesEvent)
    BY <2>4, ToolKeeps
  <2>5. QED
    BY <2>1, <2>2, <2>3, <2>4, ReleaseKeeps, ReadsKeep
<1>3. CASE Killed
  BY <1>3, ReleaseKeeps DEF Killed
<1>4. CASE UNCHANGED vars
  <2>1. FanTypes'
    BY <1>4 DEF vars, FanInv, FanTypes, TypeOK
  <2>2. PlaceInv'
    BY <1>4 DEF vars, FanInv, PlaceInv, Daemon, Tool
  <2>3. BatchInv'
    BY <1>4, BatchSame DEF vars, FanInv
  <2>4. MaskInv'
    BY <1>4 DEF vars, FanInv, MaskInv, Tracked, Tool
  <2>5. QED
    BY <2>1, <2>2, <2>3, <2>4 DEF FanInv
<1>5. QED
  BY <1>1, <1>2, <1>3, <1>4, FlushKeeps, WaitsKeep, ModifiesKeeps, OpensKeep DEF Next

(* The invariant holds always. *)
LEMMA FanAlways == Spec => []FanInv
  BY FanInit, FanStep, PTL DEF Spec

-----------------------------------------------------------------------------
(***************************************************************************)
(* The variables keep their types, whatever the files, the processes, the  *)
(* configuration and the number of events a read returns.                  *)
(***************************************************************************)
THEOREM FanotifyTypes == Spec => []TypeOK
<1>1. FanInv => TypeOK
  BY DEF FanInv, FanTypes
<1>2. QED
  BY <1>1, FanAlways, PTL

(***************************************************************************)
(* The answer main of either program is about to write names the event it  *)
(* is at, although event_process of the daemon has closed the descriptor,  *)
(* and while the program waits it owes no answer and holds no descriptor   *)
(* of an event it has read.                                                *)
(***************************************************************************)
THEOREM NoEventIsForgotten == Spec => []EventsAreSettled
<1>1. ASSUME FanInv PROVE EventsAreSettled
  <2>1. CASE pc = "answer"
    <3>1. Len(batch) \in Nat \ {0} /\ Head(batch) = batch[1]
      BY <1>1, <2>1, AtEvent DEF Handling
    <3>2. Unanswered = 1..Len(batch)
      BY <2>1 DEF Unanswered
    <3>3. \A a : a \in access <=> \E i \in 1..Len(batch) : batch[i] = a /\ a.kind = "perm"
      BY <1>1, <3>2 DEF FanInv, BatchInv
    <3>4. ASSUME NEW a \in access, a.fd = batch[1].fd PROVE a = batch[1] /\ a.kind = "perm"
      <4>1. PICK i \in 1..Len(batch) : batch[i] = a /\ a.kind = "perm"
        BY <3>3
      <4>2. i = 1
        BY <1>1, <3>1, <3>4, <4>1 DEF FanInv, BatchInv
      <4>3. QED
        BY <4>1, <4>2
    <3>5. batch[1].kind = "perm" => batch[1] \in access
      BY <3>1, <3>3
    <3>6. QED
      BY <2>1, <3>1, <3>4, <3>5 DEF EventsAreSettled
  <2>2. CASE pc = "poll"
    <3>1. batch = <<>>
      BY <1>1, <2>2 DEF FanInv, PlaceInv, Handling
    <3>2. Unanswered = {} /\ Unclosed = {}
      BY <2>2, <3>1 DEF Unanswered, Unclosed
    <3>3. access = {} /\ fds = {}
      BY <1>1, <3>2 DEF FanInv, BatchInv
    <3>4. QED
      BY <2>2, <3>3 DEF EventsAreSettled
  <2>3. QED
    BY <2>1, <2>2 DEF EventsAreSettled
<1>2. QED
  BY <1>1, FanAlways, PTL

(***************************************************************************)
(* A file the tool lets pass unasked was not modified since main of        *)
(* fanotify.c looked at it, but between that look and set_ignored_mask.    *)
(***************************************************************************)
THEOREM IgnoredFilesWereChecked == Spec => []IgnoredFilesAreChecked
<1>1. FanInv => IgnoredFilesAreChecked
  BY DEF FanInv, MaskInv, IgnoredFilesAreChecked, Tracked
<1>2. QED
  BY <1>1, FanAlways, PTL
=============================================================================
