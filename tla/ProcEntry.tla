------------------------------ MODULE ProcEntry ------------------------------
(***************************************************************************)
(* Proc_Example/procfs.c: the number test_proc behind a file under /proc.  *)
(*                                                                         *)
(* A text is a number; it is as long as its digits in base Base and its    *)
(* sign, the shortest text for it.  "new" kernels (3.10 and later) take a  *)
(* text of at most NewLimit characters, the size of a pointer less one,    *)
(* and parse it into an int; "old" ones take OldLimit and parse into a     *)
(* long.  IntMax and LongMax are the largest values of those types; the    *)
(* real ones are 10, 7, 20, 2^31 - 1 and 2^63 - 1.                         *)
(*                                                                         *)
(* A reader opens the file and reads with one count until a read returns   *)
(* 0.  A new kernel answers the first read with the whole buffer, which    *)
(* may be more than the reader asked for, and says it was count bytes; an  *)
(* old one hands out the text a count at a time, each piece printed anew.  *)
(***************************************************************************)
EXTENDS Integers, FiniteSets

CONSTANTS Base, NewLimit, OldLimit, IntMax, LongMax

ASSUME ProcAssumption ==
  /\ Base \in Nat \ {0, 1} /\ NewLimit \in Nat /\ OldLimit \in Nat
  /\ IntMax \in Nat /\ LongMax \in Nat

VARIABLES
  procKernel,  \* the kernel the module was built for
  procModule,  \* "out", "dir", "live", "gone"
  procDir,     \* proc_dir_root: "none" or "made"
  procEntry,   \* where Test_PROCFS is: "none", "dir" or "root"
  test_proc,
  written,     \* the number last accepted, as the writer meant it; not read
  readCount,   \* the count of the open file's reader, 0 before it is opened
  ppos,        \* its position
  readEnd,     \* whether a read has returned 0
  got,         \* the sum of what its reads returned; no code reads it
  readback,    \* the number whose text it was given first; no code reads it
  torn,        \* whether it was given pieces of two numbers; no code reads it
  overwritten  \* whether a number was written since the open; not read

entryVars == <<procKernel, procModule, procDir, procEntry>>
readVars == <<readCount, ppos, readEnd, got, readback, torn, overwritten>>
procVars == <<entryVars, test_proc, written, readVars>>

digits[n \in Nat] == IF n < Base THEN 1 ELSE 1 + digits[n \div Base]

\* A number too large for an int is longer than a text of a new kernel may be.
ASSUME ProcSizes == IntMax <= LongMax /\ digits[IntMax + 1] > NewLimit

TextLength(v) == digits[IF v < 0 THEN -v ELSE v] + (IF v < 0 THEN 1 ELSE 0)
Texts == {v \in (-2 * LongMax)..(2 * LongMax) : TextLength(v) <= OldLimit + 1}

Wrapped(v, max) == ((v + max + 1) % (2 * max + 2)) - max - 1

ProcInit ==
  /\ procKernel \in {"old", "new"}
  /\ procModule = "out" /\ procDir = "none" /\ procEntry = "none"
  /\ test_proc = 0 /\ written = 0
  /\ readCount = 0 /\ ppos = 0 /\ readEnd = FALSE
  /\ got = 0 /\ readback = 0 /\ torn = FALSE /\ overwritten = FALSE

\* The result of init_procfs is not looked at.
init_procfs ==
  /\ procModule = "out" /\ procModule' = "dir"
  /\ procDir' \in {"none", "made"}
  /\ UNCHANGED <<procKernel, procEntry, test_proc, written, readVars>>

\* Without a directory the entry is made in /proc itself; a failure is printed.
procfs_create_entry ==
  /\ procModule = "dir" /\ procModule' = "live"
  /\ procEntry' \in {"none", IF procDir = "made" THEN "dir" ELSE "root"}
  /\ UNCHANGED <<procKernel, procDir, test_proc, written, readVars>>

\* Fault: the limit is the size of the buffer on every kernel.
BufferLimit == OldLimit
Limit == IF procKernel = "new" THEN NewLimit ELSE OldLimit
Parsed(v) == IF procKernel = "new" THEN Wrapped(Wrapped(v, LongMax), IntMax) ELSE Wrapped(v, LongMax)

HasEntry == procModule = "live" /\ procEntry # "none"

\* A longer text, and one that cannot be copied, is refused.
procfs_write_long(v) ==
  /\ HasEntry /\ TextLength(v) <= Limit
  /\ test_proc' = Parsed(v) /\ written' = v /\ overwritten' = TRUE
  /\ UNCHANGED <<entryVars, readCount, ppos, readEnd, got, readback, torn>>

\* Open returns 0.  The counts go to one more than the length of the buffer.
dummy_proc_open ==
  /\ HasEntry
  /\ readCount' \in 1..(OldLimit + 2)
  /\ ppos' = 0 /\ readEnd' = FALSE
  /\ got' = 0 /\ readback' = 0 /\ torn' = FALSE /\ overwritten' = FALSE
  /\ UNCHANGED <<entryVars, test_proc, written>>

\* The read returns n, for characters of the text of test_proc.
Given(n) ==
  /\ got' = got + n
  /\ readback' = IF got = 0 THEN test_proc ELSE readback
  /\ torn' = (torn \/ (got # 0 /\ test_proc # readback))
  /\ UNCHANGED readEnd
Ends == readEnd' = TRUE /\ UNCHANGED <<ppos, got, readback, torn>>

\* Without memory, or if the copy fails (which loses the buffer), the read
\* returns 0 like one at the end.  The position moves by the count.
NewRead == Ends \/ (ppos < readCount /\ Given(readCount) /\ ppos' = ppos + readCount)

\* The text and its newline, from the position on; the kernel hands on as much
\* as was asked for and moves the position by that.
OldRead ==
  LET left == TextLength(test_proc) + 1 - ppos
      n == IF left < readCount THEN left ELSE readCount
  IN  IF left <= 0 THEN Ends ELSE Given(n) /\ ppos' = ppos + n

procfs_read_long ==
  /\ HasEntry /\ readCount # 0 /\ ~readEnd
  /\ IF procKernel = "new" THEN NewRead ELSE OldRead
  /\ UNCHANGED <<entryVars, test_proc, written, readCount, overwritten>>

procfs_cleanup ==
  /\ procModule = "live" /\ procModule' = "gone"
  /\ procDir' = "none"
  /\ procEntry' = IF procDir = "made" THEN "none" ELSE procEntry
  /\ UNCHANGED <<procKernel, test_proc, written, readVars>>

ProcNext ==
  \/ init_procfs \/ procfs_create_entry \/ procfs_cleanup
  \/ dummy_proc_open \/ procfs_read_long
  \/ \E v \in Texts : procfs_write_long(v)

\* The number kept is the one last accepted: on new kernels because the limit
\* on the text, though meant for another size, keeps the number within an int;
\* on old ones unless the text is too large for a long (procfs_write_long).
Kept == test_proc = written \/ (procKernel = "old" /\ written # Wrapped(written, LongMax))

\* A reader that has got to the end was given the number that is kept, once and
\* whole, if nobody wrote meanwhile: on old kernels as the text and its newline,
\* on new ones with its first read, whatever its count, unless that failed and
\* it was given nothing.
\* It gets pieces of two numbers only on old kernels and if somebody wrote
\* (procfs_read_long).
ReadOnce ==
  /\ readEnd /\ ~overwritten =>
       \/ procKernel = "old" /\ readback = test_proc /\ got = TextLength(test_proc) + 1
       \/ procKernel = "new" /\ readback = test_proc /\ got = readCount
       \/ procKernel = "new" /\ got = 0
  /\ torn => procKernel = "old" /\ overwritten

\* After cleanup no entry is left, unless the directory could not be made:
\* the entry in /proc itself is then never removed (procfs_remove_entry).
Removed == procModule = "gone" => procEntry \in {"none", "root"}
=============================================================================
