---------------------------- MODULE NetlinkProofs ----------------------------
(***************************************************************************)
(* The netlink examples with any number of clients: one sending thread     *)
(* unless two callbacks overlap, and every fault has one of the causes the *)
(* code leaves room for.                                                   *)
(***************************************************************************)
EXTENDS Netlink, TLAPS

Designs == {"unicast", "multicast", "mix", "structure"}
ModuleLabels == {"out", "failed", "create", "live", "send", "release",
                 "join", "sleep", "gone", "oops"}
TaskLabels == {"none", "new", "build", "send", "check", "sleep", "done", "failed", "oops"}
ClientLabels == {"start", "sendmsg", "alloc", "unicast", "test", "create", "recv",
                 "join", "listen", "print", "ended", "oops"}

NetTypes ==
  /\ design \in Designs
  /\ module \in ModuleLabels
  /\ netlinkThread \in Clients \cup {NULL, ERR_PTR}
  /\ task \in [Clients -> TaskLabels]
  /\ pc \in [Clients -> ClientLabels]
  /\ stop \subseteq Clients /\ buffer \subseteq Clients
  /\ overlap \in BOOLEAN

\* The socket follows init and exit.
SocketInv ==
  /\ nl_sk \in {NULL, "open", "released"}
  /\ module \in {"out", "failed", "create"} => nl_sk = NULL
  /\ Threaded /\ module \in {"live", "join", "sleep", "oops"} => nl_sk = "open"
  /\ design = "unicast" /\ module = "live" => nl_sk = "open"

\* No client is between its socket call and its close before init has made
\* the protocol known; exit begins when none is, and none gets there
\* afterwards.
QuietInv ==
  /\ design # "multicast" /\ module \in {"out", "failed", "join", "sleep", "gone", "oops"} =>
       \A c \in Clients : pc[c] \in {"start", "join", "ended"}
  /\ design = "multicast" => \A c \in Clients : pc[c] \in {"join", "listen", "print", "ended"}
  /\ \A c \in Clients : pc[c] \in {"test", "create"} => Threaded /\ module = "live"
  /\ design = "unicast" => module \in {"out", "failed", "create", "live", "gone"}
  /\ Threaded => module \notin {"send", "release"}

\* A thread is made by the callback of its client, at most once; it ends
\* because exit stops it, or for want of memory.
ThreadInv ==
  /\ \A t \in Clients : task[t] # "none" =>
       /\ Threaded
       /\ module \in {"live", "join", "sleep", "gone", "oops"}
       /\ pc[t] \in {"recv", "join", "listen", "print", "ended"}
  /\ netlinkThread \in Clients => task[netlinkThread] # "none"
  /\ \A t \in Clients : task[t] = "done" => t \in stop
  /\ stop # {} => module \in {"join", "sleep", "gone"}
  /\ \A t \in buffer : task[t] \in {"send", "failed"}
  /\ module = "oops" => \/ netlinkThread = ERR_PTR
                        \/ netlinkThread \in Clients /\ task[netlinkThread] \in {"failed", "oops"}

\* Without an overlap the handle names the only thread there is.
SenderInv ==
  ~overlap =>
    /\ \A t \in Clients : task[t] # "none" => netlinkThread = t
    /\ \A c \in Clients : pc[c] = "create" => netlinkThread = NULL
    /\ \A c, d \in Clients : pc[c] = "create" /\ pc[d] = "create" => c = d
    /\ Threaded /\ module \in {"sleep", "gone"} => Alive = {}

NetInv == NetTypes /\ SocketInv /\ QuietInv /\ ThreadInv /\ SenderInv

-----------------------------------------------------------------------------
(* An example before its module is loaded. *)
LEMMA NetInit == Init => NetInv
<1> SUFFICES ASSUME Init PROVE NetInv
  OBVIOUS
<1> USE DEF Init
<1>1. NetTypes
  BY DEF NetTypes, Designs, ModuleLabels, TaskLabels, ClientLabels
<1>2. SocketInv
  BY DEF SocketInv
<1>3. QuietInv
  BY DEF QuietInv, Threaded
<1>4. ThreadInv
  BY NetlinkAssumption DEF ThreadInv
<1>5. SenderInv
  BY DEF SenderInv
<1>6. QED
  BY <1>1, <1>2, <1>3, <1>4, <1>5 DEF NetInv

(* A step of client c, outside the test of the handle and the creation of  *)
(* the thread, keeps what is known if the place c goes to allows it.       *)
LEMMA ClientMoves ==
  ASSUME NetInv, NEW c \in Clients, NEW l \in ClientLabels \ {"create"}, Goes(c, l),
         UNCHANGED <<design, module, nl_sk, threads>>,
         design # "multicast" /\ module \in {"out", "failed", "join", "sleep", "gone", "oops"}
            => l \in {"start", "join", "ended"},
         design = "multicast" => l \in {"join", "listen", "print", "ended"},
         l = "test" => Threaded /\ module = "live",
         task[c] # "none" => l \in {"recv", "join", "listen", "print", "ended"}
  PROVE  NetInv'
<1> USE DEF NetInv, Goes, threads
<1>1. /\ pc' \in [Clients -> ClientLabels]
      /\ pc'[c] = l
      /\ \A d \in Clients \ {c} : pc'[d] = pc[d]
  BY DEF NetTypes
<1>2. UNCHANGED <<Threaded, Alive>>
  BY DEF Threaded, Alive
<1>3. NetTypes'
  BY <1>1 DEF NetTypes
<1>4. SocketInv'
  BY <1>2 DEF SocketInv
<1>5. QuietInv'
  BY <1>1, <1>2 DEF QuietInv
<1>6. ThreadInv'
  BY <1>1, <1>2 DEF ThreadInv
<1>7. SenderInv'
  BY <1>1, <1>2 DEF SenderInv
<1>8. QED
  BY <1>3, <1>4, <1>5, <1>6, <1>7

(* A step of a thread that runs keeps what is known if the thread ends     *)
(* only as it may, and holds its buffer only on the way to its message.    *)
LEMMA ThreadMoves ==
  ASSUME NetInv, NEW t \in Clients, NEW l \in TaskLabels \ {"none"}, Moves(t, l),
         task[t] \notin {"none", "done", "failed", "oops"},
         l = "done" => t \in stop,
         ThreadOnly,
         buffer' \subseteq buffer \cup {t},
         t \in buffer' => l \in {"send", "failed"}
  PROVE  NetInv'
<1> USE DEF NetInv, Moves, ThreadOnly
<1>1. /\ task' \in [Clients -> TaskLabels]
      /\ task'[t] = l
      /\ \A u \in Clients \ {t} : task'[u] = task[u]
  BY DEF NetTypes
<1>2. /\ Threaded' = Threaded
      /\ Alive' \subseteq Alive
      /\ Threaded /\ t \in Alive
  BY <1>1 DEF Threaded, Alive, ThreadInv
<1>3. NetTypes'
  BY <1>1 DEF NetTypes
<1>4. SocketInv'
  BY <1>2 DEF SocketInv
<1>5. QuietInv'
  BY <1>2 DEF QuietInv
<1>6. ThreadInv'
  BY <1>1, <1>2 DEF ThreadInv
<1>7. SenderInv'
  BY <1>1, <1>2 DEF SenderInv
<1>8. QED
  BY <1>3, <1>4, <1>5, <1>6, <1>7

(* The sending threads of the two examples that have one. *)
LEMMA ThreadKeeps ==
  ASSUME NetInv, NEW t \in Clients, Thread(t)
  PROVE  NetInv'
<1> USE DEF Moves
<1>1. ASSUME FirstRun(t) PROVE NetInv'
  BY <1>1, ThreadMoves DEF FirstRun, Top, TaskLabels, NetInv, ThreadInv
<1>2. ASSUME Builds(t) PROVE NetInv'
  BY <1>2, ThreadMoves DEF Builds, TaskLabels, NetInv, ThreadInv
<1>3. ASSUME Sends(t) PROVE NetInv'
  BY <1>3, ThreadMoves DEF Sends, TaskLabels, NetInv, ThreadInv
<1>4. ASSUME Checks(t) PROVE NetInv'
  BY <1>4, ThreadMoves DEF Checks, TaskLabels, NetInv, ThreadInv
<1>5. ASSUME Sleeps(t) PROVE NetInv'
  BY <1>5, ThreadMoves DEF Sleeps, Top, TaskLabels, NetInv, ThreadInv
<1>6. QED
  BY Zenon, <1>1, <1>2, <1>3, <1>4, <1>5 DEF Thread, MixThread, StructureThread

-----------------------------------------------------------------------------
(* A client in its callback runs while the module is loaded, and has no    *)
(* thread yet.                                                             *)
LEMMA InCallbackFacts ==
  ASSUME NetInv, NEW c \in Clients,
         pc[c] \in {"sendmsg", "alloc", "unicast", "test", "create"}
  PROVE  /\ design # "multicast"
         /\ module \notin {"out", "failed", "join", "sleep", "gone", "oops"}
         /\ task[c] = "none"
  BY DEF NetInv, QuietInv, ThreadInv

(* The callback up to the test of the handle. *)
LEMMA AnswersKeep ==
  ASSUME NetInv, NEW c \in Clients, Answers(c)
  PROVE  NetInv'
<1>1. ASSUME CallbackAllocates(c) PROVE NetInv'
  BY <1>1, InCallbackFacts, ClientMoves
     DEF CallbackAllocates, NoReply, InCallback, ClientLabels, threads
<1>2. ASSUME CallbackReplies(c) PROVE NetInv'
  <2>1. /\ pc[c] = "unicast" /\ nl_sk # NULL
        /\ Goes(c, "recv") \/ Goes(c, Replied)
        /\ UNCHANGED <<design, module, nl_sk, threads>>
    BY <1>2 DEF CallbackReplies, NoReply, InCallback
  <2>2. /\ design # "multicast" /\ module \notin {"out", "failed", "join", "sleep", "gone", "oops"}
        /\ task[c] = "none"
    BY <2>1, InCallbackFacts
  <2>3. Threaded => module = "live"
    BY <2>1, <2>2 DEF NetInv, NetTypes, ModuleLabels, SocketInv, QuietInv
  <2>4. Replied \in {"recv", "test"} /\ (Replied = "test" => Threaded)
    BY DEF Replied
  <2>5. QED
    BY <2>1, <2>2, <2>3, <2>4, ClientMoves DEF ClientLabels
<1>3. ASSUME CallbackOops(c) PROVE NetInv'
  BY <1>3, InCallbackFacts, ClientMoves DEF CallbackOops, InCallback, ClientLabels
<1>4. QED
  BY <1>1, <1>2, <1>3 DEF Answers

(* The test of the handle: a second callback past it sets overlap. *)
LEMMA TestsKeep ==
  ASSUME NetInv, NEW c \in Clients, CallbackTests(c)
  PROVE  NetInv'
<1>1. CASE netlinkThread # NULL
  <2>1. overlap' = overlap
    BY <1>1 DEF CallbackTests, NetInv, NetTypes
  <2>2. pc[c] = "test" /\ Goes(c, "recv") /\ UNCHANGED <<design, module, nl_sk, threads>>
    BY <1>1, <2>1 DEF CallbackTests, InCallback, threads
  <2>3. QED
    BY <2>2, InCallbackFacts, ClientMoves DEF ClientLabels
<1>2. CASE netlinkThread = NULL
  <2> DEFINE another == \E d \in Clients : pc[d] = "create"
  <2>1. /\ pc[c] = "test" /\ Goes(c, "create")
        /\ overlap' = (overlap \/ another)
        /\ UNCHANGED <<design, module, nl_sk, netlinkThread, task, stop, buffer>>
    BY <1>2 DEF CallbackTests, InCallback
  <2> HIDE DEF another
  <2>2. /\ pc' \in [Clients -> ClientLabels]
        /\ pc'[c] = "create"
        /\ \A d \in Clients \ {c} : pc'[d] = pc[d]
    BY <2>1 DEF NetInv, NetTypes, Goes, ClientLabels
  <2>3. UNCHANGED <<Threaded, Alive>>
    BY <2>1 DEF Threaded, Alive
  <2>4. /\ design # "multicast" /\ module \notin {"out", "failed", "join", "sleep", "gone", "oops"}
        /\ task[c] = "none"
    BY <2>1, InCallbackFacts
  <2>5. overlap' \in BOOLEAN
    BY <2>1
  <2>6. ~overlap' => ~overlap /\ \A d \in Clients : pc[d] # "create"
    BY <2>1 DEF another
  <2>7. NetTypes'
    BY <2>1, <2>2, <2>5 DEF NetInv, NetTypes
  <2>8. SocketInv'
    BY <2>1, <2>3 DEF NetInv, SocketInv
  <2>9. QuietInv'
    BY <2>1, <2>2, <2>3, <2>4 DEF NetInv, QuietInv
  <2>10. ThreadInv'
    BY <2>1, <2>2, <2>3, <2>4 DEF NetInv, ThreadInv
  <2>11. SenderInv'
    BY <1>2, <2>1, <2>2, <2>3, <2>4, <2>6 DEF NetInv, SenderInv
  <2>12. QED
    BY <2>7, <2>8, <2>9, <2>10, <2>11 DEF NetInv
<1>3. QED
  BY <1>1, <1>2

(* The creation of the thread and the assignment of its handle. *)
LEMMA CreatesKeep ==
  ASSUME NetInv, NEW c \in Clients, CallbackCreates(c)
  PROVE  NetInv'
<1>1. /\ pc[c] = "create" /\ Goes(c, "recv")
      /\ UNCHANGED <<design, module, nl_sk, stop, buffer, overlap>>
  BY DEF CallbackCreates, InCallback
<1>2. \/ netlinkThread' = c /\ Moves(c, "new")
      \/ netlinkThread' = ERR_PTR /\ task' = task
  BY DEF CallbackCreates
<1>3. /\ pc' \in [Clients -> ClientLabels]
      /\ pc'[c] = "recv"
      /\ \A d \in Clients \ {c} : pc'[d] = pc[d]
  BY <1>1 DEF NetInv, NetTypes, Goes, ClientLabels
<1>4. /\ task' \in [Clients -> TaskLabels]
      /\ \A d \in Clients \ {c} : task'[d] = task[d]
      /\ netlinkThread' = c => task'[c] = "new"
      /\ netlinkThread' # c => netlinkThread' = ERR_PTR /\ task'[c] = task[c]
  BY <1>2, NetlinkAssumption DEF NetInv, NetTypes, Moves, TaskLabels
<1>5. /\ module \notin {"out", "failed", "join", "sleep", "gone", "oops"} /\ task[c] = "none"
      /\ Threaded /\ module = "live"
  BY <1>1, InCallbackFacts DEF NetInv, QuietInv
<1>6. \A d \in Clients \ {c} : task'[d] # "none" => task[d] # "none"
  BY <1>4
<1>7. Threaded' = Threaded
  BY <1>1 DEF Threaded
<1>8. NetTypes'
  BY <1>1, <1>2, <1>3, <1>4 DEF NetInv, NetTypes
<1>9. SocketInv'
  BY <1>1, <1>7 DEF NetInv, SocketInv
<1>10. QuietInv'
  BY <1>1, <1>3, <1>7, <1>5 DEF NetInv, QuietInv
<1>11. ThreadInv'
  <2>1. \A t \in Clients : task'[t] # "none" =>
          Threaded' /\ module' = "live" /\ pc'[t] \in {"recv", "join", "listen", "print", "ended"}
    BY <1>1, <1>3, <1>5, <1>6, <1>7 DEF NetInv, ThreadInv
  <2>2. netlinkThread' \in Clients => task'[netlinkThread'] # "none"
    BY <1>2, <1>4, NetlinkAssumption
  <2>3. \A t \in Clients : task'[t] = "done" => task[t] = "done"
    BY <1>4, <1>5
  <2>4. \A t \in buffer : t # c /\ t \in Clients
    BY <1>5 DEF NetInv, NetTypes, ThreadInv
  <2>5. QED
    BY <1>1, <1>4, <1>5, <2>1, <2>2, <2>3, <2>4 DEF NetInv, ThreadInv
<1>12. SenderInv'
  BY <1>1, <1>2, <1>3, <1>4, <1>5, <1>6, <1>7, NetlinkAssumption DEF NetInv, SenderInv
<1>13. QED
  BY <1>8, <1>9, <1>10, <1>11, <1>12 DEF NetInv

(* The client programs, and a client that is killed. *)
LEMMA ClientKeeps ==
  ASSUME NetInv, NEW c \in Clients, Client(c) \/ Killed(c)
  PROVE  NetInv'
<1> USE DEF ClientOnly
<1>1. ASSUME OpensSocket(c), design # "multicast" PROVE NetInv'
  <2>1. pc[c] = "start" /\ UNCHANGED <<design, module, nl_sk, threads>>
    BY <1>1 DEF OpensSocket
  <2>2. task[c] = "none"
    BY <2>1 DEF NetInv, ThreadInv
  <2>3. Goes(c, "ended") \/ (Goes(c, "sendmsg") /\ module \in {"create", "live"})
    BY <1>1 DEF OpensSocket, Registered
  <2>4. QED
    BY <1>1, <2>1, <2>2, <2>3, ClientMoves DEF ClientLabels, Goes
<1>2. ASSUME SendsRequest(c) PROVE NetInv'
  BY <1>2, InCallbackFacts, ClientMoves DEF SendsRequest, ClientLabels
<1>3. ASSUME design # "multicast", NEW l \in {"join", "ended"},
             ReadsReply(c, l) \/ (l = "join" /\ ReadsGarbage(c))
      PROVE  NetInv'
  BY <1>3, ClientMoves DEF ReadsReply, ReadsGarbage, ClientLabels
<1>4. ASSUME Joins(c) PROVE NetInv'
  <2>1. pc[c] = "join" /\ UNCHANGED <<design, module, nl_sk, threads>>
    BY <1>4 DEF Joins
  <2>2. \/ Goes(c, "ended")
        \/ Goes(c, "listen") /\ (design = "multicast" \/ module \in {"create", "live"})
    BY <1>4 DEF Joins, Registered
  <2>3. QED
    BY <2>1, <2>2, ClientMoves DEF ClientLabels
<1>5. ASSUME Reads(c) \/ Shows(c) PROVE NetInv'
  <2>1. pc[c] \in {"listen", "print"} /\ UNCHANGED <<design, module, nl_sk, threads>>
    BY <1>5 DEF Reads, Shows
  <2>2. Goes(c, "listen") \/ Goes(c, "print")
    BY <1>5 DEF Reads, Shows
  <2>3. design # "multicast" => module \notin {"out", "failed", "join", "sleep", "gone", "oops"}
    BY <2>1 DEF NetInv, QuietInv
  <2>4. QED
    BY <2>1, <2>2, <2>3, ClientMoves DEF ClientLabels
<1>6. ASSUME Killed(c) PROVE NetInv'
  BY <1>6, ClientMoves DEF Killed, ClientLabels
<1>7. ASSUME hello_nl_recv_msg(c) \/ MixCallback(c) \/ StructureCallback(c) PROVE NetInv'
  BY <1>7, AnswersKeep, TestsKeep, CreatesKeep
     DEF hello_nl_recv_msg, MixCallback, StructureCallback
<1>8. ASSUME UnicastMain(c) \/ MixRegistration(c) \/ StructureRegistration(c) PROVE NetInv'
  BY <1>8, <1>1, <1>2, <1>3 DEF UnicastMain, MixRegistration, StructureRegistration
<1>9. ASSUME MixListener(c) \/ StructureListener(c) \/ MulticastListener(c) PROVE NetInv'
  BY <1>9, <1>4, <1>5 DEF MixListener, StructureListener, MulticastListener
<1>10. QED
  BY <1>6, <1>7, <1>8, <1>9 DEF Client

-----------------------------------------------------------------------------
(* A step of init or exit changes what is known of the clients and threads *)
(* only through the place the module goes to.                              *)
LEMMA ModuleMoves ==
  ASSUME NetInv, ModuleOnly, module' \in ModuleLabels, SocketInv',
         stop' \subseteq Clients, stop \subseteq stop',
         stop' # {} => module' \in {"join", "sleep", "gone"},
         design # "multicast" /\ module' \in {"out", "failed", "join", "sleep", "gone", "oops"} =>
            \A c \in Clients : pc[c] \in {"start", "join", "ended"},
         \A c \in Clients : pc[c] \in {"test", "create"} => module' = "live",
         \A t \in Clients : task[t] # "none" =>
            module' \in {"live", "join", "sleep", "gone", "oops"},
         design = "unicast" => module' \in {"out", "failed", "create", "live", "gone"},
         Threaded => module' \notin {"send", "release"},
         module' = "oops" =>
            \/ netlinkThread = ERR_PTR
            \/ netlinkThread \in Clients /\ task[netlinkThread] \in {"failed", "oops"},
         ~overlap /\ Threaded /\ module' \in {"sleep", "gone"} => Alive = {}
  PROVE  NetInv'
<1> USE DEF NetInv, ModuleOnly
<1>1. UNCHANGED <<Threaded, Alive>>
  BY DEF Threaded, Alive
<1>2. NetTypes'
  BY DEF NetTypes
<1>3. QuietInv'
  BY <1>1 DEF QuietInv
<1>4. ThreadInv'
  BY <1>1 DEF ThreadInv
<1>5. SenderInv'
  BY <1>1 DEF SenderInv
<1>6. QED
  BY <1>2, <1>3, <1>4, <1>5

(* The creation of the socket, and the rest of init. *)
LEMMA InitKeeps ==
  ASSUME NetInv, UnicastInit \/ MixInit \/ StructureInit \/ MulticastInit
  PROVE  NetInv'
<1>1. ASSUME CreatesSocket PROVE NetInv'
  <2>1. /\ module = "out" /\ module' \in {"create", "failed"}
        /\ nl_sk' = nl_sk /\ stop' = stop /\ ModuleOnly
    BY <1>1 DEF CreatesSocket
  <2>2. SocketInv'
    BY <2>1 DEF NetInv, SocketInv, ModuleOnly, Threaded
  <2>3. /\ stop = {} /\ \A t \in Clients : task[t] = "none"
        /\ \A c \in Clients : pc[c] \notin {"test", "create"}
        /\ design # "multicast" => \A c \in Clients : pc[c] \in {"start", "join", "ended"}
    BY <2>1 DEF NetInv, ThreadInv, QuietInv
  <2>4. QED
    BY <2>1, <2>2, <2>3, ModuleMoves DEF ModuleLabels
<1>2. ASSUME NEW next \in {"live", "send"}, InitReturns(next),
             next = "send" <=> design = "multicast"
      PROVE  NetInv'
  <2>1. /\ module = "create" /\ module' = next /\ nl_sk' = "open"
        /\ stop' = stop /\ ModuleOnly
    BY <1>2 DEF InitReturns
  <2>2. SocketInv'
    BY <2>1 DEF SocketInv
  <2>3. /\ stop = {} /\ \A t \in Clients : task[t] = "none"
        /\ \A c \in Clients : pc[c] \notin {"test", "create"}
    BY <2>1 DEF NetInv, ThreadInv, QuietInv
  <2>4. QED
    BY <1>2, <2>1, <2>2, <2>3, ModuleMoves DEF ModuleLabels, Threaded
<1>3. ASSUME design = "multicast", send_to_user \/ ReleasesSocket("release", "live")
      PROVE  NetInv'
  <2>1. /\ module \in {"send", "release"} /\ module' \in {"release", "live"}
        /\ nl_sk' \in {nl_sk, "released"} /\ stop' = stop /\ ModuleOnly
    BY <1>3 DEF send_to_user, ReleasesSocket
  <2>2. ~Threaded /\ ~Threaded'
    BY <1>3, <2>1 DEF Threaded, ModuleOnly
  <2>3. SocketInv'
    BY <1>3, <2>1, <2>2 DEF NetInv, SocketInv, ModuleOnly
  <2>4. /\ stop = {} /\ \A t \in Clients : task[t] = "none"
        /\ \A c \in Clients : pc[c] \notin {"test", "create"}
    BY <2>1, <2>2 DEF NetInv, ThreadInv, QuietInv
  <2>5. QED
    BY <1>3, <2>1, <2>2, <2>3, <2>4, ModuleMoves DEF ModuleLabels
<1>4. QED
  BY <1>1, <1>2, <1>3 DEF UnicastInit, MixInit, StructureInit, MulticastInit

(* Exit, of the examples without a thread. *)
LEMMA ExitKeeps ==
  ASSUME NetInv, UnicastExit \/ MulticastExit
  PROVE  NetInv'
<1>1. /\ design \in {"unicast", "multicast"}
      /\ module = "live" /\ module' = "gone"
      /\ nl_sk' \in {nl_sk, "released"} /\ stop' = stop /\ ModuleOnly
      /\ design = "unicast" => ~Pinned
  BY DEF UnicastExit, MulticastExit, ReleasesSocket, HelloExit
<1>2. ~Threaded /\ ~Threaded'
  BY <1>1 DEF Threaded, ModuleOnly
<1>3. SocketInv'
  BY <1>1, <1>2 DEF NetInv, SocketInv, ModuleOnly
<1>4. /\ stop = {} /\ \A t \in Clients : task[t] = "none"
      /\ \A c \in Clients : pc[c] \notin {"test", "create"}
  BY <1>1, <1>2 DEF NetInv, ThreadInv, QuietInv
<1>5. design # "multicast" => \A c \in Clients : pc[c] \in {"start", "join", "ended"}
  BY <1>1 DEF Pinned
<1>6. QED
  BY <1>1, <1>2, <1>3, <1>4, <1>5, ModuleMoves DEF ModuleLabels

(* Exit, of the examples with a thread: it stops the thread, waits for it  *)
(* and releases the socket.                                                *)
LEMMA ThreadedExitKeeps ==
  ASSUME NetInv, MixExit \/ StructureExit
  PROVE  NetInv'
<1>1. Threaded /\ design # "multicast" /\ design # "unicast"
  BY DEF MixExit, StructureExit, Threaded
<1>2. ASSUME ExitStops PROVE NetInv'
  <2>1. /\ module = "live" /\ ~Pinned /\ nl_sk' = nl_sk /\ ModuleOnly
        /\ module' \in {"sleep", "join", "oops"}
        /\ stop' \subseteq stop \cup {netlinkThread} /\ stop \subseteq stop'
        /\ module' # "join" => stop' = stop
    BY <1>2 DEF ExitStops
  <2>2. \A c \in Clients : pc[c] \in {"start", "join", "ended"}
    BY <1>1, <2>1 DEF Pinned
  <2>3. SocketInv'
    BY <1>1, <2>1 DEF NetInv, SocketInv, ModuleOnly, Threaded
  <2>4. stop = {}
    BY <2>1 DEF NetInv, ThreadInv
  <2>5. stop' \subseteq Clients
    BY <1>2, <2>4 DEF ExitStops, Alive
  <2>6. module' = "sleep" => netlinkThread = NULL
    BY <1>2 DEF ExitStops
  <2>7. ~overlap /\ module' = "sleep" => Alive = {}
    BY <2>6, NetlinkAssumption DEF NetInv, SenderInv, Alive
  <2>8. ASSUME module' = "oops"
        PROVE  \/ netlinkThread = ERR_PTR
               \/ netlinkThread \in Clients /\ task[netlinkThread] \in {"failed", "oops"}
    <3>1. netlinkThread \notin Alive \cup {NULL}
      BY <1>2, <2>8 DEF ExitStops
    <3>2. CASE netlinkThread \in Clients
      BY <2>4, <3>1, <3>2 DEF NetInv, ThreadInv, Alive
    <3>3. QED
      BY <3>1, <3>2 DEF NetInv, NetTypes
  <2>9. QED
    BY <1>1, <2>1, <2>2, <2>3, <2>4, <2>5, <2>7, <2>8, ModuleMoves DEF ModuleLabels
<1>3. ASSUME Joined \/ ReleasesSocket("sleep", "gone") PROVE NetInv'
  <2>1. /\ module \in {"join", "sleep"} /\ stop' = stop /\ ModuleOnly
        /\ module = "join" => module' = "sleep" /\ nl_sk' = nl_sk
        /\ module = "sleep" => module' = "gone" /\ nl_sk' = "released"
    BY <1>3 DEF Joined, ReleasesSocket
  <2>2. \A c \in Clients : pc[c] \in {"start", "join", "ended"}
    BY <1>1, <2>1 DEF NetInv, QuietInv
  <2>3. SocketInv'
    BY <1>1, <2>1 DEF NetInv, SocketInv, ModuleOnly, Threaded
  <2>4. ~overlap => Alive = {}
    <3>1. CASE module = "sleep"
      BY <1>1, <3>1 DEF NetInv, SenderInv
    <3>2. CASE module = "join"
      BY <1>3, <3>2 DEF Joined, ReleasesSocket, NetInv, SenderInv, Alive
    <3>3. QED
      BY <2>1, <3>1, <3>2
  <2>5. stop \subseteq Clients
    BY DEF NetInv, NetTypes
  <2>6. QED
    BY <1>1, <2>1, <2>2, <2>3, <2>4, <2>5, ModuleMoves DEF ModuleLabels
<1>4. QED
  BY <1>2, <1>3 DEF MixExit, StructureExit

-----------------------------------------------------------------------------
(* Every step keeps the invariant. *)
LEMMA NetStep == NetInv /\ [Next]_vars => NetInv'
<1> SUFFICES ASSUME NetInv, [Next]_vars PROVE NetInv'
  OBVIOUS
<1>1. CASE Module
  BY <1>1, InitKeeps, ExitKeeps, ThreadedExitKeeps DEF Module
<1>2. CASE UNCHANGED vars
  <2>1. NetTypes' /\ SocketInv'
    BY <1>2 DEF vars, NetInv, NetTypes, SocketInv, Threaded
  <2>2. QuietInv'
    BY <1>2 DEF vars, NetInv, QuietInv, Threaded
  <2>3. ThreadInv'
    BY <1>2 DEF vars, NetInv, ThreadInv, Threaded
  <2>4. SenderInv'
    BY <1>2 DEF vars, NetInv, SenderInv, Threaded, Alive
  <2>5. QED
    BY <2>1, <2>2, <2>3, <2>4 DEF NetInv
<1>3. QED
  BY <1>1, <1>2, ClientKeeps, ThreadKeeps DEF Next, Over

(* What is known of the examples holds in every state, for any number of   *)
(* clients.                                                                *)
LEMMA NetAlways == Spec => []NetInv
  BY NetInit, NetStep, PTL DEF Spec

(* Unless two callbacks are past the test of netlinkThread at once, there  *)
(* is one sending thread, the handle names it, and none runs once exit has *)
(* released the socket: for any number of clients                          *)
(* (callback_invoked_connect_userspace, netlink_test_exit).                *)
THEOREM OneSenderAtMost == Spec => []OneSender
<1>1. NetInv => OneSender
  <2> SUFFICES ASSUME NetInv, ~overlap, nl_sk = "released" PROVE Alive = {}
    BY DEF OneSender, NetInv, SenderInv
  <2> SUFFICES ASSUME NEW t \in Alive PROVE FALSE
    OBVIOUS
  <2>1. t \in Clients /\ task[t] # "none"
    BY DEF Alive
  <2>2. Threaded /\ module \in {"live", "join", "sleep", "gone", "oops"}
    BY <2>1 DEF NetInv, ThreadInv
  <2>3. module \in {"sleep", "gone"}
    BY <2>2 DEF NetInv, SocketInv
  <2>4. QED
    BY <2>2, <2>3 DEF NetInv, SenderInv
<1>2. QED
  BY <1>1, NetAlways, PTL

(* For any number of clients, netlink_test_exit stops something that is no *)
(* running thread and a message buffer outlives its round only for the     *)
(* causes FaultsHaveCauses names, and a callback has an open socket, or    *)
(* none yet while init has not returned.                                   *)
THEOREM FaultsAreExplained == Spec => []FaultsHaveCauses
<1>1. ASSUME NetInv, NEW c \in Clients, pc[c] \in {"alloc", "unicast", "test", "create"}
      PROVE  \/ nl_sk = "open"
             \/ nl_sk = NULL /\ module = "create" /\ pc[c] \in {"alloc", "unicast"}
  <2>1. design # "multicast" /\ design \in Designs
    BY <1>1 DEF NetInv, NetTypes, QuietInv
  <2>2. module \in {"create", "live"}
    BY <1>1, <2>1 DEF NetInv, NetTypes, ModuleLabels, QuietInv, Threaded, Designs
  <2>3. QED
    BY <1>1, <2>1, <2>2 DEF NetInv, SocketInv, QuietInv, Threaded, Designs
<1>2. NetInv => FaultsHaveCauses
  BY <1>1 DEF NetInv, ThreadInv, FaultsHaveCauses
<1>3. QED
  BY <1>2, NetAlways, PTL
==============================================================================
