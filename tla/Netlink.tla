------------------------------- MODULE Netlink -------------------------------
(***************************************************************************)
(* The four netlink examples: a kernel module with a socket, and clients.  *)
(*                                                                         *)
(*   unicast    NetLink_Unicast_test: a request, a reply;                  *)
(*   multicast  NetLink_Multicast_test: one message to the group at load;  *)
(*   mix        NetLink_Mix_unicast_Multicast: the first request starts a  *)
(*              thread that sends to the group every second;               *)
(*   structure  NetLink_Structure_message_Send: the same with structures,  *)
(*              the message built in a buffer of its own.                  *)
(*                                                                         *)
(* The kernel runs the callback of a request inside the sendmsg of the     *)
(* client, so callbacks of two clients interleave.  A socket of a client   *)
(* holds the module that registered the protocol: module exit runs when    *)
(* there is none.  The protocol of the multicast example is the kernel's   *)
(* own, always there.  A message for a full receive buffer is lost, and so *)
(* is one that cannot be copied; the next recvmsg then returns an error.   *)
(***************************************************************************)
EXTENDS Naturals, FiniteSets

CONSTANTS
  Clients,   \* the client processes; each runs once
  Backlog,   \* the messages a receive buffer has room for
  NULL, ERR_PTR

ASSUME NetlinkAssumption ==
  /\ Backlog \in Nat \ {0}
  /\ NULL # ERR_PTR /\ {NULL, ERR_PTR} \cap Clients = {}

VARIABLES
  design,         \* which of the four examples is run
  module,         \* where the module's init or exit is
  nl_sk,          \* the module's socket
  netlinkThread,  \* the handle; a thread is named by the client that made it
  task,           \* where each thread is
  stop,           \* the threads kthread_stop was called on
  buffer,         \* the threads that hold a multicast_mesg
  pc,             \* where each client is, in the callback included
  bound,          \* the clients whose first bind succeeded
  member,         \* the clients in the group
  inbox,          \* the messages in the receive buffer of each client
  overrun,        \* the clients that lost a message and were not told yet
  unanswered,     \* the clients whose request got no reply; no code reads it
  overlap         \* two callbacks were past the test at once; no code reads it

vars == <<design, module, nl_sk, netlinkThread, task, stop, buffer,
          pc, bound, member, inbox, overrun, unanswered, overlap>>
threads == <<netlinkThread, task, stop, buffer, overlap>>
sockets == <<bound, member, inbox, overrun, unanswered>>

Init ==
  /\ design \in {"unicast", "multicast", "mix", "structure"}
  /\ module = "out"
  /\ nl_sk = NULL /\ netlinkThread = NULL
  /\ task = [t \in Clients |-> "none"]
  /\ stop = {} /\ buffer = {}
  /\ pc = [c \in Clients |-> IF design = "multicast" THEN "join" ELSE "start"]
  /\ bound = {} /\ member = {} /\ overrun = {} /\ unanswered = {}
  /\ inbox = [c \in Clients |-> 0]
  /\ overlap = FALSE

Threaded == design \in {"mix", "structure"}
Alive == {t \in Clients : task[t] \notin {"none", "done", "failed", "oops"}}

(***************************************************************************)
(* The kernel's side of the sockets.                                       *)
(***************************************************************************)
Registered == design = "multicast" \/ module \in {"create", "live"}
Pinned == design # "multicast" /\ \E c \in Clients : pc[c] \notin {"start", "join", "ended"}

Goes(c, l) == pc' = [pc EXCEPT ![c] = l]

\* A message to the group: each member gets it or is overrun.
nlmsg_multicast ==
  \E lost \in SUBSET member :
    LET full == lost \cup {c \in member : inbox[c] = Backlog}
    IN  /\ inbox' = [c \in Clients |-> IF c \in member \ full THEN inbox[c] + 1 ELSE inbox[c]]
        /\ overrun' = overrun \cup full
        /\ UNCHANGED <<bound, member, unanswered>>

\* The process of c ends, or closes its socket: what was queued is gone.
Closes(c) ==
  /\ member' = member \ {c} /\ overrun' = overrun \ {c}
  /\ inbox' = [inbox EXCEPT ![c] = 0]
  /\ UNCHANGED <<bound, unanswered>>

Killed(c) ==
  /\ pc[c] \in {"recv", "listen", "print"}
  /\ Goes(c, "ended") /\ Closes(c)
  /\ UNCHANGED <<design, module, nl_sk, threads>>

(***************************************************************************)
(* The sending thread.                                                     *)
(***************************************************************************)
Moves(t, l) == task' = [task EXCEPT ![t] = l]
ThreadOnly == UNCHANGED <<design, module, nl_sk, netlinkThread, stop, pc, overlap>>
Top == IF design = "structure" THEN "build" ELSE "send"

FirstRun(t) ==
  /\ task[t] = "new"
  /\ Moves(t, IF t \in stop THEN "done" ELSE Top)
  /\ UNCHANGED <<sockets, buffer>> /\ ThreadOnly

\* kmalloc of a multicast_mesg; its result is not tested and is written to.
Builds(t) ==
  /\ task[t] = "build"
  /\ \/ Moves(t, "send") /\ buffer' = buffer \cup {t}
     \/ Moves(t, "oops") /\ UNCHANGED buffer
  /\ UNCHANGED sockets /\ ThreadOnly

\* nlmsg_new and nlmsg_multicast, and the end of the thread without memory.
Sends(t) ==
  /\ task[t] = "send"
  /\ \/ Moves(t, "check") /\ nlmsg_multicast /\ buffer' = buffer \ {t}
     \/ Moves(t, "failed") /\ UNCHANGED <<sockets, buffer>>
  /\ ThreadOnly

\* Fault: the thread does not look for the stop.
ChecksNothing(t) ==
  /\ task[t] = "check"
  /\ Moves(t, "sleep")
  /\ UNCHANGED <<sockets, buffer>> /\ ThreadOnly

Checks(t) ==
  /\ task[t] = "check"
  /\ Moves(t, IF t \in stop THEN "done" ELSE "sleep")
  /\ UNCHANGED <<sockets, buffer>> /\ ThreadOnly

Sleeps(t) ==
  /\ task[t] = "sleep"
  /\ Moves(t, Top)
  /\ UNCHANGED <<sockets, buffer>> /\ ThreadOnly

\* multicast_start of the two examples.
MixThread(t) == design = "mix" /\ (Sends(t) \/ Checks(t) \/ Sleeps(t))
StructureThread(t) == design = "structure" /\ (Builds(t) \/ Sends(t) \/ Checks(t) \/ Sleeps(t))
Thread(t) == module # "gone" /\ (FirstRun(t) \/ MixThread(t) \/ StructureThread(t))

(***************************************************************************)
(* The callback, in the process of the client c, from the nlmsg_new of the *)
(* reply to the creation of the thread.  Creation and assignment of the    *)
(* handle are one step: only the test of another callback could tell.      *)
(***************************************************************************)
InCallback == UNCHANGED <<design, module, nl_sk, bound, member, overrun>>
NoReply(c) ==
  /\ Goes(c, "recv") /\ unanswered' = unanswered \cup {c}
  /\ UNCHANGED <<inbox, threads>>

CallbackAllocates(c) ==
  /\ pc[c] = "alloc"
  /\ \/ Goes(c, "unicast") /\ UNCHANGED <<inbox, unanswered, threads>>
     \/ NoReply(c)
  /\ InCallback

\* nlmsg_unicast to the process number in the request.  A client that did
\* not get that number as its address gets no reply: it is refused, or it
\* goes to the socket that has the number.
Replied == IF Threaded THEN "test" ELSE "recv"

\* Fault: the reply is sent to the group.
RepliesToGroup(c) ==
  /\ pc[c] = "unicast" /\ nl_sk # NULL
  /\ Goes(c, Replied) /\ UNCHANGED <<unanswered, inbox, threads>> /\ InCallback

CallbackReplies(c) ==
  /\ pc[c] = "unicast" /\ nl_sk # NULL
  /\ \/ /\ c \in bound
        /\ Goes(c, Replied) /\ inbox' = [inbox EXCEPT ![c] = @ + 1]
        /\ UNCHANGED <<unanswered, threads>>
     \/ c \notin bound /\ NoReply(c)
     \/ /\ c \notin bound
        /\ Goes(c, Replied) /\ unanswered' = unanswered \cup {c}
        /\ UNCHANGED <<inbox, threads>>
  /\ InCallback

\* The request came before init had assigned nl_sk.
CallbackOops(c) ==
  /\ pc[c] = "unicast" /\ nl_sk = NULL
  /\ Goes(c, "oops")
  /\ UNCHANGED <<inbox, unanswered, threads>> /\ InCallback

\* Fault: the handle is not tested.
TestsNothing(c) ==
  /\ pc[c] = "test"
  /\ Goes(c, "create")
  /\ UNCHANGED <<inbox, unanswered, threads>> /\ InCallback

CallbackTests(c) ==
  /\ pc[c] = "test"
  /\ Goes(c, IF netlinkThread = NULL THEN "create" ELSE "recv")
  /\ overlap' = (overlap \/ (netlinkThread = NULL /\ \E d \in Clients : pc[d] = "create"))
  /\ UNCHANGED <<inbox, unanswered, netlinkThread, task, stop, buffer>> /\ InCallback

CallbackCreates(c) ==
  /\ pc[c] = "create"
  /\ Goes(c, "recv")
  /\ \/ netlinkThread' = c /\ Moves(c, "new")
     \/ netlinkThread' = ERR_PTR /\ UNCHANGED task
  /\ UNCHANGED <<inbox, unanswered, stop, buffer, overlap>> /\ InCallback

Answers(c) == CallbackAllocates(c) \/ CallbackReplies(c) \/ CallbackOops(c)
hello_nl_recv_msg(c) == design = "unicast" /\ Answers(c)
MixCallback(c) == design = "mix" /\ (Answers(c) \/ CallbackTests(c) \/ CallbackCreates(c))
StructureCallback(c) == design = "structure" /\ (Answers(c) \/ CallbackTests(c) \/ CallbackCreates(c))

(***************************************************************************)
(* The client programs.                                                    *)
(***************************************************************************)
ClientOnly == UNCHANGED <<design, module, nl_sk, threads>>

\* socket and bind; the result of bind is not tested.
OpensSocket(c) ==
  /\ pc[c] = "start"
  /\ \/ /\ Registered
        /\ Goes(c, "sendmsg") /\ bound' \in {bound, bound \cup {c}}
     \/ Goes(c, "ended") /\ UNCHANGED bound
  /\ UNCHANGED <<member, inbox, overrun, unanswered>> /\ ClientOnly

\* sendmsg calls the callback, or fails, which is not tested.
SendsRequest(c) ==
  /\ pc[c] = "sendmsg"
  /\ \/ Goes(c, "alloc") /\ UNCHANGED unanswered
     \/ Goes(c, "recv") /\ unanswered' = unanswered \cup {c}
  /\ UNCHANGED <<bound, member, inbox, overrun>> /\ ClientOnly

ReadsReply(c, next) ==
  /\ pc[c] = "recv" /\ inbox[c] > 0
  /\ Goes(c, next) /\ Closes(c) /\ ClientOnly

\* recvmsg with a message header that was never set: it may read the reply
\* or fail at once.
ReadsGarbage(c) ==
  /\ pc[c] = "recv"
  /\ Goes(c, "join") /\ Closes(c) /\ ClientOnly

UnicastMain(c) ==
  design = "unicast" /\ (OpensSocket(c) \/ SendsRequest(c) \/ ReadsReply(c, "ended"))
MixRegistration(c) ==
  /\ design = "mix"
  /\ OpensSocket(c) \/ SendsRequest(c) \/ ReadsReply(c, "join") \/ ReadsGarbage(c)
StructureRegistration(c) ==
  /\ design = "structure"
  /\ OpensSocket(c) \/ SendsRequest(c) \/ ReadsReply(c, "join")

\* socket, bind and setsockopt; a failure ends the client.
\* Fault: the socket does not join the group.
BindsOnly(c) ==
  /\ pc[c] = "join"
  /\ (Registered /\ Goes(c, "listen")) \/ Goes(c, "ended")
  /\ UNCHANGED sockets /\ ClientOnly

Joins(c) ==
  /\ pc[c] = "join"
  /\ \/ Registered /\ Goes(c, "listen") /\ member' = member \cup {c}
     \/ Goes(c, "ended") /\ UNCHANGED member
  /\ UNCHANGED <<bound, inbox, overrun, unanswered>> /\ ClientOnly

\* recvmsg returns an error after an overrun, otherwise a message.
Reads(c) ==
  /\ pc[c] = "listen"
  /\ \/ c \in overrun /\ overrun' = overrun \ {c} /\ UNCHANGED inbox
     \/ c \notin overrun /\ inbox[c] > 0 /\ inbox' = [inbox EXCEPT ![c] = @ - 1] /\ UNCHANGED overrun
  /\ Goes(c, "print")
  /\ UNCHANGED <<bound, member, unanswered>> /\ ClientOnly

Shows(c) == pc[c] = "print" /\ Goes(c, "listen") /\ UNCHANGED sockets /\ ClientOnly

MixListener(c) == design = "mix" /\ (Joins(c) \/ Reads(c) \/ Shows(c))
StructureListener(c) == design = "structure" /\ (Joins(c) \/ Reads(c) \/ Shows(c))
MulticastListener(c) == design = "multicast" /\ (Joins(c) \/ Reads(c) \/ Shows(c))
Client(c) ==
  \/ hello_nl_recv_msg(c) \/ MixCallback(c) \/ StructureCallback(c)
  \/ UnicastMain(c) \/ MixRegistration(c) \/ StructureRegistration(c)
  \/ MixListener(c) \/ StructureListener(c) \/ MulticastListener(c)

(***************************************************************************)
(* The modules.  netlink_kernel_create makes the protocol usable before it *)
(* returns, so "create" is a state in which requests already arrive.       *)
(***************************************************************************)
ModuleOnly == UNCHANGED <<design, netlinkThread, task, buffer, pc, overlap>>

CreatesSocket ==
  /\ module = "out" /\ module' \in {"create", "failed"}
  /\ UNCHANGED <<nl_sk, stop, sockets>> /\ ModuleOnly

\* Fault: the socket is not kept.
InitForgets(next) ==
  /\ module = "create" /\ module' = next
  /\ UNCHANGED <<nl_sk, stop, sockets>> /\ ModuleOnly

InitReturns(next) ==
  /\ module = "create" /\ module' = next
  /\ nl_sk' = "open"
  /\ UNCHANGED <<stop, sockets>> /\ ModuleOnly

\* kthread_stop of a handle that is no task, or of a task that has ended, is
\* undefined: "oops".
ExitStops ==
  /\ module = "live" /\ ~Pinned
  /\ \/ netlinkThread = NULL /\ module' = "sleep" /\ UNCHANGED stop
     \/ netlinkThread \in Alive /\ module' = "join" /\ stop' = stop \cup {netlinkThread}
     \/ netlinkThread \notin Alive \cup {NULL} /\ module' = "oops" /\ UNCHANGED stop
  /\ UNCHANGED <<nl_sk, sockets>> /\ ModuleOnly

Joined ==
  /\ module = "join" /\ netlinkThread \notin Alive
  /\ module' = "sleep"
  /\ UNCHANGED <<stop, nl_sk, sockets>> /\ ModuleOnly

ReleasesSocket(from, next) ==
  /\ module = from /\ module' = next
  /\ nl_sk' = "released"
  /\ UNCHANGED <<stop, sockets>> /\ ModuleOnly

\* send_to_user: one message, or none without memory.
send_to_user ==
  /\ module = "send" /\ module' = "release"
  /\ nlmsg_multicast \/ UNCHANGED sockets
  /\ UNCHANGED <<stop, nl_sk>> /\ ModuleOnly

HelloExit ==
  /\ module = "live" /\ module' = "gone"
  /\ UNCHANGED <<nl_sk, stop, sockets>> /\ ModuleOnly

UnicastInit == design = "unicast" /\ (CreatesSocket \/ InitReturns("live"))
UnicastExit == design = "unicast" /\ ~Pinned /\ ReleasesSocket("live", "gone")
MulticastInit ==
  /\ design = "multicast"
  /\ CreatesSocket \/ InitReturns("send") \/ send_to_user \/ ReleasesSocket("release", "live")
MulticastExit == design = "multicast" /\ HelloExit
MixInit == design = "mix" /\ (CreatesSocket \/ InitReturns("live"))
MixExit == design = "mix" /\ (ExitStops \/ Joined \/ ReleasesSocket("sleep", "gone"))
StructureInit == design = "structure" /\ (CreatesSocket \/ InitReturns("live"))
StructureExit == design = "structure" /\ (ExitStops \/ Joined \/ ReleasesSocket("sleep", "gone"))
Module ==
  \/ UnicastInit \/ UnicastExit \/ MulticastInit \/ MulticastExit
  \/ MixInit \/ MixExit \/ StructureInit \/ StructureExit

Over == (\A c \in Clients : pc[c] \in {"ended", "oops"}) /\ UNCHANGED vars

Next == Module \/ Over \/ \E c \in Clients : Client(c) \/ Thread(c) \/ Killed(c)

Spec == Init /\ [][Next]_vars

(***************************************************************************)
(* A process that can run runs, and so does a thread; msleep ends.  An init*)
(* or exit that began goes on.  Nobody has to load or unload the module,   *)
(* no client has to be killed, and a recvmsg without a message may block.  *)
(***************************************************************************)
FairSpec ==
  /\ Spec
  /\ \A c \in Clients : /\ WF_vars((pc[c] = "recv" => inbox[c] > 0) /\ Client(c))
                        /\ WF_vars(Thread(c))
  /\ WF_vars(module \notin {"out", "live"} /\ Module)

\* Unless two callbacks were between the test of netlinkThread and its
\* assignment at the same time, there is one sending thread at most, the
\* handle names it, and none runs once exit has released the socket
\* (callback_invoked_connect_userspace, netlink_test_exit).
OneSender ==
  ~overlap => /\ \A t \in Clients : task[t] # "none" => netlinkThread = t
              /\ nl_sk = "released" => Alive = {}

\* netlink_test_exit stops something that is not a running thread only if the
\* thread could not be created or had no memory for a message.  From the
\* request to the end of the callback the socket is open, never released under
\* it, in every example with requests; it may be missing only while init has
\* not returned, and only until the reply was sent (hello_nl_recv_msg,
\* callback_invoked_connect_userspace).  A message buffer outlives its round
\* only when there was no memory for the message (multicast_start).
FaultsHaveCauses ==
  /\ module = "oops" => \/ netlinkThread = ERR_PTR
                        \/ task[netlinkThread] \in {"failed", "oops"}
  /\ \A c \in Clients : pc[c] \in {"alloc", "unicast", "test", "create"} =>
       \/ nl_sk = "open"
       \/ nl_sk = NULL /\ module = "create" /\ pc[c] \in {"alloc", "unicast"}
  /\ \A t \in buffer : task[t] \in {"send", "failed"}

\* A client that sent its request gets past registration, unless the request
\* or its reply was dropped, or came before init had returned
\* (registration_kernel).
RegistrationEnds ==
  \A c \in Clients :
    pc[c] = "sendmsg" ~> pc[c] \in {"join", "ended", "oops"} \/ c \in unanswered

\* Once netlink_test_exit waits for the thread, it comes to its end: the
\* thread sees the stop after its next message (multicast_start).
UnloadEnds == module \in {"join", "sleep"} ~> module = "gone"

\* While a thread sends, a client in the read loop is woken again and again,
\* by a message or by the error for a lost one, until it is killed or the
\* thread ends (multicast_start, read_event_from_kernel).
ListenersHear ==
  \A c, t \in Clients :
    (pc[c] = "listen" /\ t \in Alive) ~> (pc[c] # "listen" \/ t \notin Alive)
==============================================================================
