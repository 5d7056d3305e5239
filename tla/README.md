# A TLA+ model of Linux_Kernel_Code

The repository is a collection of small kernel modules and user programs. Each
directory under `src/` is a program of its own; they share no code at run time
except the header `queue.h`. This directory models them in TLA+, checks the
models with TLC on small instances and proves the main results with TLAPS.

## 1. Inventory

| Part | Source | State | Operations | What is hard |
|---|---|---|---|---|
| Scan cache | `RedBlack_Cache_LRU_Implementation_Kernel/src/cache.c`, `include/cache.h` | two red-black trees, a spinlock each, two slabs | insert (with update of a known file), find and remove, evict the oldest, purge, unload | each operation takes and releases the two locks several times and carries pointers across; allocations fail half way; two trees have to agree |
| Its test module | `.../src/rbtree_test.c` | none | a fixed list of calls | devices 100, 99, 98: the order of devices |
| Producer and consumer | `Kthread_Queue/thread.c` | a tail queue, a spinlock, two threads, two flags | produce, drain, unload | timeouts, signals, the order of the two stops at unload |
| Lists | `Kthread_Queue/queue.h`, `Userspace_Queue_using_BSD_Example` | links between elements, in five families | insert at the head, the tail, before, after; remove; walk both ways | pointers to pointers; ends of a list; removal during a walk |
| Netlink servers | `NetLink_Mix_unicast_Multicast`, `NetLink_Structure_message_Send`, `NetLink_Unicast_test`, `NetLink_Multicast_test` | a socket, a sending thread, a client | register, reply, multicast, unload | two callbacks at once, lost messages, a thread that ended before it is stopped |
| Proc entry | `Proc_Example/procfs.c` | one integer, a directory, an entry | read, write, create, remove | the limit of a write, creation that fails |
| Mount iteration | `Iterate_MountFS/mount_iter.c` | a list of file systems | walk the mount tree, record | climbing back, mounts that go away, duplicates, references |
| Fanotify programs | `Userspace_Fanotify_TestCode`, `Userspace_Fanotify_Other_TestCode` | marks, pending events | mark, answer, shut down | an event that gets no answer, an answer by a closed descriptor, stale ignore masks |
| Single threads | `Kernel_Thread`, `GetGroup_pid_From_ThreadId`, `Kernel_Thread_ReadingFileFromKernel` | one thread | start, wait, stop | results that are not tested |
| Descriptor | `CreateUnusedFd/createfd.c` | a descriptor, references | reserve, open, install | undo on failure |
| FIFO | `Kernel_Queue_using_Kernel_API/queue.c` | bytes | fill, drain | the FIFO's size |
| Module tools | `Userspace_InsmodCode`, `Userspace_RmmodCode` | a buffer; the list of modules | load, check use, remove | growing buffer |
| Others | `LoggerHeaderCode`, `ReadingFileFromKernelSpace`, `Userspace_Read_System_map_file`, `Userspace_UnameSyscall` | none | print, read | none |

The scan cache, the two threads with their queue, the netlink servers and the
fanotify programs have real concurrency; the others are sequential, with steps
that fail. `PROJECT.json` lists every part with its status, and the hazards
at their lines.

## 2. Modules

| Module | What it is |
|---|---|
| `ScanCache` | the cache, one step per critical section, any number of callers |
| `MCScanCache` | its instances for TLC |
| `ScanCacheProofs` | proofs: types; what holds of callers that are not serialised until one uses a record another has unlinked; and, for callers serialised file by file, the trees, what the callers see, the order of eviction and LRU records |
| `RbTree` | the kernel's red-black tree (external), as values |
| `CacheTree` | the cache's trees, node by node, with the comparators and the `RB_*` macros |
| `CacheMap` | the abstract cache: a set of records, one per file |
| `MCCacheTree` | the instances of `CacheTree` for TLC |
| `CacheTreeProofs` | proofs: the trees stay red-black and in order, searches are exact, the trees implement `CacheMap` |
| `BsdQueue` | the macros of `queue.h`, as functions on words of memory |
| `ListOrder` | what it means that memory holds a list |
| `ListUse`, `MCListUse` | a program that calls the macros in any order; its instance for TLC |
| `ListProofs`, `ListTheorems` | proofs about the macros, and about the program that calls them |
| `KthreadQueue` | the producer, the consumer, load and unload |
| `Fifo` | the abstract queue |
| `KthreadQueueProofs` | proofs about them |
| `Netlink`, `NetlinkProofs` | the four netlink examples with their clients; proofs about them |
| `Fanotify`, `FanotifyProofs` | the two fanotify programs with the kernel's events; proofs about them |
| `MountIter`, `ProcEntry`, `CreateFd`, `ModuleImage`, `RmmodTool`, `HelloThread`, `KernelFifo` | a small program each |
| `Programs`, `ProgramProofs` | those programs, one at a time; proofs about each |

### ScanCache

State. A scan record is an object of the slab `ptr_scan_cache_slab`: `scanLive`
are those allocated, `scanRec` what they hold, `scanTree` those linked in
`scan_cache_rb_tree`; `lruLive`, `lruRec` and `lruTree` are the same for LRU
records. A tree is the set of its nodes (`CacheTree` justifies this). Each
process has a label `pc`, the operation `op` it is in, the file and generation
it was called for and its local pointers `rec`, `old` and `lru`.

Steps. The code between two lock operations touches only local variables and
memory that the call holds, so a step is one critical section together with the
code up to the next. The labels follow the source:

    insert_scan_cache_record           insert
      find_and_update_scan_cache_record  find_old, replace, free_old
        find_and_update_lru_cache_record   lru_find, lru_remove, lru_free
      insert_lru_cache_record            lru_alloc, lru_insert
    find_remove_scan_cache_record      find, lru_find
    remove_lru_cache_record            lru_remove, lru_free
    remove_scan_cache_record           scan_remove, scan_free
    exit_scan_cache                    evict, purge_scan, purge_lru, dead

Undefined behaviour. The code never looks whether a record it is about to
replace or unlink is still linked (`Stale`). If it is not, the library writes
the stale links of the record into the tree. The calls go on all the same: the
actions named `*Torn` leave the tree with any nodes, add `"scan"` or `"lru"` to
`fault`, and from then on every insertion, replacement and removal in that tree
may do so again and its first node may be any. A step that uses a freed record
(`PointersGood` lists the pointers of each step), or follows links that may lead
to one (`Misled`), may instead corrupt memory: the action `Fault` adds
`"memory"`, and only there the model says nothing more.

Environment. `kmem_cache_alloc` may fail at any call. `getnstimeofday` returns
any value of `Times`, also one it returned before, unless `StrictClock`.
`Owner[f]` is the set of threads that may call the cache for file `f`: the code
serialises nothing, so this is where an assumption on the callers is stated.
`exit_scan_cache` is called by module exit when no call is in progress.

Left out: the printed messages; `init_scan_cache`, which is taken to have
succeeded; the field `status`, which nothing reads.

### CacheTree, RbTree and CacheMap

One caller, a step is a whole operation. The trees are values with colours;
insertion, replacement and erasure follow the library. The comparators return
the sign of a difference at its width: `dev_t` and `__u32` differences are
unsigned (`DiffU32`), `unsigned long` differences are reinterpreted as signed
(`DiffLong`). The second is so on 64-bit kernels, where `unsigned long` and
`int64_t` have one width; on a 32-bit kernel the difference of inode numbers
would be widened as unsigned and never be negative, which is not modelled. The
widths are constants, small ones in the instances. Time stamps are fresh: the
refusal of an equal one is in `ScanCache`. The mapping to `CacheMap` takes the
nodes of the scan tree to records.

What walks down a tree (`Nodes`, `Descend`, `Link`, `Erase`, ...) is a recursive
function on `Trees`, the trees of height `MaxHeight` at most: a function needs a
domain. The bound excludes no behaviour. Inode numbers and times are below
`MaxHeight - 2` (`LinkAssumption`); a tree sorted by different numbers of them, or
whose records have different times, is no higher than that, and rebalancing makes
it at most two levels higher.

### BsdQueue, ListOrder and ListUse

Each cell (an entry or the head) has two words, `next` and `prev`. A pointer to
a `next` field is the cell that holds the field, so `tqe_prev`, `le_prev` and
the `*_last` pointers are cells like the others, and the casts in `TAILQ_LAST`
and `TAILQ_PREV` are two reads of `prev`. A macro is a function from memory to
memory; macros whose assignments are the same up to the names of fields share a
definition. `ListUse` calls them within their contract (an entry inserted is not
linked, one removed is) for a family chosen at the start, keeps the list it means
in `q`, and runs the loops of `*_FOREACH`, `*_FOREACH_REVERSE` and the search of
`SLIST_REMOVE` and `STAILQ_REMOVE` one round a step.

### KthreadQueue and Fifo

The queue is a TAILQ of `BsdQueue`. Each thread is at its wait, its work or its
check for a stop. A wait returns by wake-up, timeout or signal, as
`wait_event_interruptible_timeout` does. The drain of `test_thread2` is one step
a record, with the pointers of `TAILQ_FOREACH_SAFE`; the critical section of
`test_thread1` is one step. `kthread_run` may fail, and `kthread_stop` of a task
that is not there is the state `"oops"`. `Elems` bounds the records alive at once:
when all are, `kmalloc` fails. `last` is a ghost: the consumer's last round began
with `status2` cleared. `q` is a ghost too, the abstract queue.

### Netlink

`design` chooses the example. A client's callback runs inside its `sendmsg`, so
the label `pc` of a client covers its callback, and callbacks of two clients
interleave between the test of `netlinkThread` and its assignment. A thread is
named by the client whose callback made it. The kernel's side (external): a
protocol can be used as soon as `netlink_kernel_create` registered it; an open
client socket keeps the module from unloading; a message for a full buffer
(`Backlog`) is lost and the receiver's next call returns an error.
`registration_kernel` of the mix example receives into a message header that was
never set: it may read the reply or fail at once.

### Fanotify

The kernel's side (external) is described at the head of the module. The
programs are step by step: mark each file, wait, read a batch, and for each event
examine, answer, ignore, close, in the order of each source. An ignore mask holds
back all events of a file, with `-f` or for a special file, or only those of the
kind that was answered (`HeldBack`). `SIGUSR1` may come at any time once the
handler can reach the descriptor, also while files are still being marked, and
takes away every mark made so far unless mounts are marked. The daemon closes the
event's descriptor before it answers by its number; the tool answers first. The
ghosts `dirty` and `raced` follow the files whose ignore mask can be stale. The
failure of `poll` and a failed allocation of the answer end the daemon like
`Killed`.

### The small programs

One module each, with every failure of what they call as an alternative and with
both sides of a kernel version test where it changes what happens. Numbers keep
their width: texts and integers of `ProcEntry`, the unsigned size of
`ModuleImage`. What is undefined in the code (a null or error pointer that is
read through, `kthread_stop` of an error number) ends the model in a state named
for it. The uses of a module may change between the look of `rmmod` and its
request.

`MountIter`: between two rounds of the walk, and while it climbs to the root or
frees its list, mounts may be detached and attached, and one may be moved with
what is below it. The lists of children are ordered by the numbers of the mounts,
so a mount goes where it has the largest number. The records of the list hold
mounts by address without a reference; reading one that was detached meanwhile is
the state `"undefined"` (`ReadsGone`), one of the outcomes. A record is named by the
number of the round that made it.

`ProcEntry`: a reader opens the file and reads with one count until a read
returns 0. On a new kernel the first read hands over the whole buffer and
returns the count, and the position, past the end then, makes the next one
return 0; a read without memory or whose copy fails returns 0 as well. On an old
kernel `read_proc` is called for each piece and prints the number anew.

## 3. Runs

| Run | Instance | Checks |
|---|---|---|
| `cache_owned` | two threads, a file each, 2 generations, 2 time stamps, 4 scan and 3 LRU objects, eviction of 1 | `TypeOK`, `NoFault`, `TreesAgree`, `RemovedTogether`, `ResultsAreTrue` |
| `cache_shared` | two threads, both on two files, 1 generation, 3 increasing time stamps | `TreesLive`, `NoScanLeak` |
| `cache_strict` | one thread, 3 files, 4 increasing time stamps, eviction of 2, fairness | `NoLruLeak`, `EvictsOldest`, `CallsReturn`, `UnloadFinishes` |
| `cache_shared_update` | as `cache_shared`, 2 time stamps that may be equal | `OldStillInTree`, violated |
| `cache_equal_times` | as `cache_owned` | `FailedUpdateCleansUp`, violated |
| `tree_one_device` | 1 device, 4 inodes less than half the range apart, 2 generations, 5 time stamps | `SearchFinds`, `LruInOrder`, `ImplementsMap` |
| `tree_devices` | 3 devices, 1 inode | `KeysUnique`, violated |
| `lists` | 4 entries, the five families | `TypeOK`, `ListIsChained`, `LoopsAreInStep` |
| `kthread_queue` | 3 records, fairness | `TypeOK`, `NoStaleAccess`, `QueueIsChained`, `NothingLeft`, `StopsAreSafe`, `ImplementsFifo`, `UnloadFinishes` |
| `netlink` | the four designs, 2 clients, room for 1 message, fairness | `OneSender`, `FaultsHaveCauses`, `RegistrationEnds`, `UnloadEnds`, `ListenersHear` |
| `fanotify` | both programs and the options, 2 processes, 2 files (1 special), batches of 2, 3 descriptors, fairness | `TypeOK`, `EventsAreSettled`, `IgnoredFilesAreChecked`, `OpensReturn` |
| `programs` | trees of 4 mounts with 2 types; base 3, limits 2 and 4, integers up to 8 and 13; buffers from 2 doubling below 16, files up to 10; 2 uses | `Walked`, `ToolsAreRight`, `DataIsKept`, `AllGivenBack` |

What the runs of the cache show. Callers that never work on one file at the same
time are safe: no use after free, agreeing trees, records that leave the two trees
together, true results, under every interleaving of the critical sections and
every failure of an allocation. Without that discipline a call can replace and
free a record that another call has unlinked (`cache_shared_update`: a first
insertion without memory for its LRU record takes its scan record out again under
an update that has found it), and then nothing holds any more. Until that
happens, and whatever else the calls do to one another, no freed node is in a
tree and no scan record is lost (`cache_shared`): the premise of both properties
is `fault = {}`. Equal time stamps cost an LRU record (`cache_equal_times`), which
`NoLruLeak` excludes by the strict clock of its run. On one device every search is exact and the
cache is the map it should be; on several, the unsigned device difference makes
the order inconsistent and a key can be cached twice (`tree_devices`).

Bounds. Two updates of different files at once need four scan objects and two
LRU objects; one more LRU object lets one be lost and the run go on. Two time
stamps give equal and different ones. In the shared instance three scan objects
let two updates of one file meet; its clock is strict, three stamps for three
insertions, and equal ones are left to the other instances. The tree instance
holds up to four nodes: recolouring, single and double rotations at the root, erasures with no, one and
two children, all with the comparators' extreme differences. Rebalancing that
climbs several levels is not reached by the run; the proofs cover it. Slab
objects, generations and, in the shared instance, threads are interchangeable
and reduced by symmetry; the run with liveness uses none.

What the others show.

* The list macros are right in every order of calls, also at the ends of a list
  and for walks backwards.
* The consumer's loop never touches a freed record. A record can be left
  at unload only if the consumer's last round did not begin with its flag
  cleared: a timeout began that round before `test_exit` came to the flag, a
  signal ended the thread, or it was stopped before it ran. `test_exit` hits a
  missing task only after a signal or a failed `kthread_run`. It always ends.
* There is one sender, and none after exit, unless two callbacks were between the
  test of the handle and its assignment at once; then there can be two and
  nothing is claimed. Exit stops a handle that is no running thread only if the
  thread could not be created or ended for want of memory. A callback has an open
  socket, never one that exit released; it finds none only while
  `netlink_test_init` has not returned. A client blocks in
  registration only if its request or its reply was dropped. While a thread
  sends, listeners are woken again, by a message or by the error for a lost one.
* Although the daemon closes a descriptor before it answers, the answer reaches
  the right event: a batch is read as a whole and nothing opens a descriptor in
  between. An open blocks for ever only if the daemon watches `/proc`. A file the
  tool lets pass was not modified since it was examined, but for modifications
  between the look and the mask.
* The mount walk meets every mount once, whatever the tree. When the tree changes
  meanwhile it may end early or read a mount that is gone, but gives back its
  references, and meets none twice unless one is moved. The number behind the
  proc entry is right on new kernels only because the limit on its text, the size
  of a pointer, is so short. A reader is given it once and whole, whatever its
  count, unless the first read fails; on old kernels a write between two reads
  gives it pieces of two numbers. A FIFO that rounds its size down loses the last
  record without a word.

What the code leaves behind, in the models and as exceptions of the properties:
the LRU record of `cache_equal_times`; a message buffer of a netlink thread
without memory; a record for each mount whose type is known; a reference to the dentry and the
mount on kernels since 3.6; a proc entry made in `/proc` itself; the references of
`get_tgid`; the buffer of a proc read that cannot be copied out.

Fairness of the cache (`FairSpec`): a call that has begun takes its next step,
and so does `exit_scan_cache`. The critical sections are bounded and nothing in
the code waits for another caller. Nobody has to call the cache or to unload it.

Fairness of the others. `KthreadQueue`: threads run, a spin lock that is freed
again and again is obtained at last (strong fairness of the two steps that take
it), `rmmod` goes on once started; no timeout and no success of `kmalloc` is
relied on. `Netlink`: clients, callbacks and threads run, an init or exit that
began goes on; nobody has to load, unload or kill, and a `recvmsg` without a
message may block for ever. `Fanotify`: the program runs when it can; processes,
signals and the end of the program are free. `programs` checks no liveness, but
deadlock: a program stops only where `Ended` says so.

Bounds of the others. Four entries give a first, a last and two neighbours in
the middle. Three records let one be queued while another is freed and a third
is written. Two clients are what overlapping callbacks take, and a buffer of one
message is full at once. Two processes and batches of two give an answer while
another event is pending; three descriptors are one more than a batch needs, so
that a number is handed out again and one that is not closed shows. Four mounts
are the fewest that need a climb to a sibling; a climb of several levels that ends
at a sibling is left to the proof, which is for any tree.
`ProcEntry` keeps the order of the real limits: every text of `NewLimit`
characters fits an int and some of `OldLimit` do not fit a long. The counts of a
reader go from 1 to one more than the longest text with its newline. The buffer of
`ModuleImage` doubles twice within the range and wraps at the third time, which
the longest file reaches.

## 4. Proofs

Those of the cache are for any number of threads, files, generations, time
stamps and slab objects. `CacheAssumption` only says that the constants have the
right kinds and that `NULL` is none of their members.

* `TypeCorrect`: the types. Frame lemmas (`GotoFrame`, `LeaveFrame`,
  `LocalStep`) say once what moving one process leaves alone.
* `TreesStayLive` and `ScanRecordsAccounted`, for callers that are not serialised,
  until a call replaces or unlinks a record that another one has unlinked
  (`fault` is then no longer empty, and stays so: `FaultStays`). They do not say
  that this never happens: `cache_shared_update` shows that it does. The inductive
  invariant `RecordInv`, under the same premise, says that an allocated scan
  record is linked or *claimed* by exactly one process, the one that will link
  or free it (`ScanClaim`), that a linked or claimed LRU record is allocated,
  in which operation each label is (`OpAt`) and that `exit_scan_cache` runs
  alone (`UnloadInv`). Claims are what the safety statement lacks: a free is
  harmless because the record freed is claimed, hence in no tree. `ScanMove` and
  `LruMove` reduce a step to what it moves between tree, claim and slab.
* `SerialisedCallersAreSafe`, `SerialisedTreesAgree` and `SerialisedRemovalsMatch`,
  under the hypothesis `Exclusive`. The inductive invariant `OwnerInv` adds, for each process, what
  it knows of the records of its file at each label (`OwnAt`), that the tree has
  one record for a file (`ContentInv`) and that no two processes work on one
  file (`DisjointInv`). A step changes records of its own file only
  (`StepFrame`, `WorkerFrame`), so what others know stays true. That the LRU record
  found by a time stamp is the right one rests on the agreement of the trees and
  on the refusal of equal stamps by `RB_INSERT`.
* `CallsTellTheTruth`, `OldestGoesFirst` and `LruRecordsAccounted`, under
  `Exclusive` and the last one under `StrictClock` too. Each rests on `OwnerInv`
  and on an invariant of its own. `ResultInv` follows the generation and the
  result of a call from label to label; without it nothing ties the value
  returned by the last step to what the first steps did. The action property
  `EvictsOldest` needs `EvictInv`: the record chosen in one critical section is
  still the oldest in the one that unlinks it. `NoLruLeak` needs `TimeInv`: under
  a strict clock no LRU record has the time stamp a call is still to insert, so
  the branch of `insert_lru_cache_record` that drops its record is not taken, and
  `LruKept`, that every LRU record is linked or claimed. `cache_equal_times` shows
  that `StrictClock` cannot be left out, `cache_shared_update` that callers which
  are not serialised can free a record twice.

Those of the trees are for any bounded sets of inode numbers and times, any
generations and any number of records. They have one hypothesis, `NarrowKeys`: the records are of
one device, and inode numbers lie less than half the range of an unsigned long
apart. It is what the comparators need, `tree_one_device` satisfies it, and
`tree_devices` shows that searches fail without it. `TreeAssumption` says that the
constants are values of their widths.

* `TreesPaired`, `SearchesExact`, `LruSorted` and `TreesImplementMap`. The
  inductive invariant `TreeInv` says that the two trees are *tidy* and hold the
  same records. A tree is tidy (`Tidy`) if its root is not red and it is sound
  (`Sound`): sorted by its keys, no red node under a red one, the same number of
  black nodes on every path. `HeightBound` and `TidyBack` show that such a tree
  stays within `MaxHeight`. `SearchFinds` says nothing of the tree and
  `LruInOrder` nothing of the scan tree's order, so neither is inductive.
* The library. `LinkSound` follows an insertion up the tree: what comes back from
  below is sound but for a red root with a red child, and `InsertFixStays` and
  `InsertFixTurns` show that a round recolours, rotates once or twice, or hands
  this on. `EraseSound` follows an erasure: what comes back is sound and as high
  as before, or short of one black level; `FixFarTurns`, `FixFarPaints`,
  `FixNearSound` and `EraseFixSound` are the cases of `__rb_erase_color`, the red
  sibling included, and `UnlinkSound` the node with one child at most. Both sides
  are proved at once, for a side `s`.
* The code of the cache. `CompareScan` and `CompareTime` say what the comparators
  return, from the arithmetic of the widths (`DiffLongExact`, `DiffGen`).
  `DescendFinds` shows that a search of a sorted tree finds the equal node whenever
  the comparator says less and greater rightly. `EvictOneStep` and `EvictedNewest`
  show that the rounds of `remove_cache_entry` leave the newest records,
  `PurgedEmpty` that `purge_cache` leaves none. `NextMap` maps each operation to
  its step of `CacheMap`.
* Each recursive function is shown to exist and to follow its rule (`NodesRule`,
  `LinkRule`, `EraseRule`, ...), by induction on the height; `TreeInduction` gives
  induction over trees from the same argument.

Those of the lists and the threads are for any set of entries or records;
`QueueAssumption` says that the head and `NULL` are no entries.

* `ListTypes`, `ListsAreRight` and `LoopsAreRight`. `Chained` says which word leads where by
  positions of the list the caller means. `PutsAfter` and `TakesOut` say what an
  insertion after position `i` and a removal of `n` entries do to the words, and
  `ChainInsert` and `ChainRemove` show once that they keep the chain; a lemma for
  each macro of `BsdQueue` shows that it is one of the two (`ListProofs`). The
  invariant `ListInv` adds where the loop under way stands (`LoopsAreInStep`) and
  that only families with such a loop run it (`SearchingKind`).
* `QueueTypes`, `QueueStaysChained`, `DrainIsSafe`, `OrderedUnloadLeavesNothing`,
  `StopsFindTheirTask` and `QueueImplementsFifo`. `QueueInv` says that the records allocated are those
  queued and the one the producer holds, and that the consumer in its loop holds
  the lock and stands on the oldest record with the next one in `tmp`: without it
  the freed record could still be linked. `ModuleInv` says how far load and
  unload are when a thread is in a state, and that a round begun with `status2`
  cleared leaves the queue empty, since the producer has been waited for. The
  refinement maps `fifo` to `q`; every step of the module is a step of `Fifo` or
  leaves it alone.

Those of the netlink examples are for any number of clients and any backlog.

* `OneSenderAtMost` and `FaultsAreExplained`. `NetInv` says how the socket follows
  init and exit (`SocketInv`), that no client is inside a call once exit has begun
  (`QuietInv`), that a thread is made by the callback of its client and ends
  because it is stopped or has no memory (`ThreadInv`), and that without an
  overlap of two callbacks the handle names the only thread (`SenderInv`). The
  property alone is not inductive: a callback past its test of the handle is what
  makes the second thread, so the invariant has to say that without an overlap the
  handle is still null there and that no other callback is past its test.

Those of the fanotify programs are for any processes, files, number of
descriptors and number of events a read returns.

* `FanotifyTypes`, `NoEventIsForgotten` and `IgnoredFilesWereChecked`. `BatchInv`
  says that the kernel remembers exactly the permission events of the batch that
  are not answered, each under a descriptor of its own, and that the open
  descriptors are those of the events that are not closed. A descriptor handed
  out is the least one not in use (`LowestFreeIsFree`), so the events of a read get
  different ones. `MaskInv` says which files can have a stale ignore mask, from the
  look at the file on, not only from the mask on.

Those of the small programs are for every value of their constants. Two
assumptions are about the real numbers: `ImageDoubles`, that doubling the first
size of the buffer arrives at the range of an unsigned int, as 16384 and 2^32 do;
and `ProcSizes`, that an int is no wider than a long and that a number too large
for an int has more digits than a text of a new kernel may have (10 digits; the
limit is one less than the size of a pointer). Without the second the number read
back can be another one than was written.

* `EveryMountIsWalkedOnce`. `WalkInv` says that there is a way from `cur` up to
  its root (`PathInv`): what lies beside it further on, and below `cur`, is not
  walked over yet, and if the tree did not change, what lies before it is. The way is
  a set of mounts under an existential: after a detach it is not the set of
  ancestors any more, but can still be given (`ChangesKeep`, `TreeChanges`). After a
  move there may be none, and that no mount is met twice is not claimed. `OrderInv`
  puts each mount after its parent, `ListedInv` says which record stands for each type while the list is
  filled and while it is freed. `climb`, a recursive function, is shown to exist
  and to follow its rule for every tree (`ClimbExists`, `ClimbRule`), and to stop
  at the lowest mount of the way with a sibling further on (`ClimbStops`).
* `ToolsDoWhatTheyReport` carries the set of possible buffer sizes; a size that
  wraps is zero because doubling hits the range exactly. `WhatGoesInComesOut` needs
  that the larger number has no fewer digits (`DigitsMonotonic`), what a reader was
  given up to its position (`ReadInv`), and the number of bytes in the FIFO as a
  function of the number of records. `WhatIsTakenIsGivenBack`
  is a table of what each program holds at each step.

Induction. A statement about all natural numbers is proved from the least number
that contradicts it (`LeastNumber`, `LeastOf`, from the theorems about well-founded
relations); this is how the recursive functions `digits` and `climb` are unfolded
and how the walk is shown to leave no mount out (`WalkEnds`: the least mount left
out has a parent that was walked over). Induction over trees is induction over
their height.

Only model-checked: the liveness properties (`CallsReturn`, `UnloadFinishes`,
`RegistrationEnds`, `UnloadEnds`, `ListenersHear`, `OpensReturn`), which need
fairness and are out of the provers' reach. Every invariant, action property and
refinement that a passing run checks is proved.

## 5. Not modelled

* Programs that only print or read a file: `log.h`, `readingFilefromKernel.c`
  (its steps are `ReadFile` of `HelloThread`), `read_system_map.c`,
  `uname_code.c`. `test_fan_debugstatement.c` is `test_fan.c` with more output.
* In `rbtree_test.c`, the printed walks; a failed `init_scan_cache`.
* What messages say, the fields of the structures sent included, and the text of
  options, names and paths.
* `-o`, `-c`, `-d` and `-s` of the fanotify tool; overflow of the kernel's event
  queue, which at 16384 events is far from the interleavings of interest.
* Changes of the mount tree inside a round of the walk, more than one move of a
  mount, and moves to a place before a mount with a larger number; a client that is
  started again; a proc reader that changes its count or its position.
* The message of `NetLink_Multicast_test` is sent once, at load; a client that
  joins the group later waits for ever. Nothing promises it a message.
* Inode numbers on a 32-bit kernel (see `CacheTree`).
* The comment of `createfd.c:28` (a descriptor or -1) and the result, which may be
  another error number, differ; the caller closes it, which does nothing, and the
  model keeps the difference (`ClosesFd`). The comment of `test_fan.c:144` says the
  mark is removed with the mask it was made with, but the flag for mounts is
  missing: the mark goes when the descriptor is closed (`shutdown_fanotify`).
