------------------------------ MODULE DaemonLoop ------------------------------
(***************************************************************************)
(* The event loop every daemon of the system runs: main() of the three     *)
(* services and DaemonBase (mylib_daemon/daemon.cpp).  One thread waits on  *)
(* a level-triggered epoll set; a socket is registered for EPOLLIN, and    *)
(* after a read for EPOLLOUT with a pointer to a malloc'ed eventDataBuf,   *)
(* which the write event hands to dealClientMessage() and frees.           *)
(* dealClientMessage() itself is abstracted to its write()s: the reply,    *)
(* and before it the receiver's notice to any other descriptor; or it      *)
(* fails.  A client's messages are numbered;                               *)
(* one read() takes everything that has arrived, and the JSON parser looks *)
(* at the first message only, so a block stands for its first message.     *)
(***************************************************************************)
EXTENDS Integers, Sequences, Functions

CONSTANTS Clients, NoClient,
          Fds,          \* descriptors left for clients
          Bufs, NoBuf,  \* blocks malloc can return
          MaxMessages,  \* bound: messages of all clients together
          Pipelining,   \* may a client send before it has its reply
          Faults        \* see below

(* "accept", "add", "mod": accept(), EPOLL_CTL_ADD or EPOLL_CTL_MOD fails; *)
(* "handler": dealClientMessage() returns a negative value; "notice": the  *)
(* daemon is the receiver, whose handler may write "logout" to a           *)
(* descriptor that comes from t_user_login, before it writes the reply.    *)
FaultKinds == {"accept", "add", "mod", "handler", "notice"}

ASSUME ClientsAssumption == NoClient \notin Clients
ASSUME BufsAssumption == NoBuf \notin Bufs
ASSUME FdsAssumption == Fds \subseteq Nat
ASSUME BoundsAssumption == MaxMessages \in Nat /\ Pipelining \in BOOLEAN
ASSUME FaultsAssumption == Faults \subseteq FaultKinds

VARIABLES
    conn,      \* conn[c]: none, backlog, accepted, or closed by the daemon
    gone,      \* the clients that have closed their end
    reset,     \* those whose RST the daemon has received
    unreported,\* those of reset whose error no read() has returned yet
    sent,      \* sent[c]: messages c has written
    taken,     \* taken[c]: messages of c that read() has returned
    replies,   \* replies[c]: the messages answered on c's connection
    noticed,   \* the clients that have been sent a notice
    owner,     \* owner[fd]: whose connection fd is, NoClient when not open
    interest,  \* interest[fd]: none, IN or OUT in the epoll set
    data,      \* data[fd]: the block that the registration's data.ptr is
    heap,      \* heap[b]: is the block allocated, and its eventDataBuf
    batch,     \* events of the last epoll_wait() still to be handled
    running    \* FALSE once the process has died

peers == <<conn, gone, sent>>
out   == <<replies, noticed>>
net   == <<reset, unreported>>
epoll == <<interest, data>>
vars  == <<conn, gone, reset, unreported, sent, taken, replies, noticed, owner,
           interest, data, heap, batch, running>>

NoMessage == [client |-> NoClient, n |-> 0]

(* epoll_event: an EPOLLOUT one carries the data.ptr of its registration   *)
ListenEvent  == [kind |-> "LISTEN", fd |-> -1, ptr |-> NoBuf]
InEvent(fd)  == [kind |-> "IN", fd |-> fd, ptr |-> NoBuf]
OutEvent(fd, b) == [kind |-> "OUT", fd |-> fd, ptr |-> b]

--------------------------------------------------------------------------------
Init == /\ conn = [c \in Clients |-> "none"]
        /\ gone = {} /\ reset = {} /\ unreported = {} /\ noticed = {}
        /\ sent = [c \in Clients |-> 0]
        /\ taken = [c \in Clients |-> 0]
        /\ replies = [c \in Clients |-> << >>]
        /\ owner = [fd \in Fds |-> NoClient]
        /\ interest = [fd \in Fds |-> "none"]
        /\ data = [fd \in Fds |-> NoBuf]
        /\ heap = [b \in Bufs |-> [live |-> FALSE, fd |-> 0, message |-> NoMessage]]
        /\ batch = {}
        /\ running = TRUE

(* The clients: connect(), write() and the close at their exit; with the   *)
(* daemon dead there is nothing to connect or to write to.                 *)
Connect(c) ==
    /\ running
    /\ conn[c] = "none"
    /\ conn' = [conn EXCEPT ![c] = "backlog"]
    /\ UNCHANGED <<gone, sent, net, taken, out, owner, epoll, heap, batch, running>>

Messages == FoldFunction(+, 0, sent)
Send(c) ==
    /\ running
    /\ conn[c] \in {"backlog", "accepted"}
    /\ c \notin gone
    /\ Messages < MaxMessages
    /\ Pipelining \/ sent[c] = Len(replies[c])
    /\ sent' = [sent EXCEPT ![c] = @ + 1]
    /\ UNCHANGED <<conn, gone, net, taken, out, owner, epoll, heap, batch, running>>

(* close() or death of the client.  With a reply or a notice it has not    *)
(* read in its buffer the kernel sends an RST in place of the FIN.         *)
MayHaveUnread(c) == \/ replies[c] # << >> /\ (Pipelining \/ sent[c] = Len(replies[c]))
                    \/ c \in noticed
Leave(c) ==
    /\ running
    /\ conn[c] \in {"backlog", "accepted"}
    /\ c \notin gone
    /\ gone' = gone \cup {c}
    /\ \/ UNCHANGED net
       \/ /\ MayHaveUnread(c)
          /\ reset' = reset \cup {c}
          /\ unreported' = unreported \cup {c}
    /\ UNCHANGED <<conn, sent, taken, out, owner, epoll, heap, batch, running>>

--------------------------------------------------------------------------------
(* The loop of main() *)

Readable(c) == c \in gone \/ taken[c] < sent[c]
Ready == {e \in {ListenEvent} : \E c \in Clients : conn[c] = "backlog"}
         \cup {InEvent(fd) : fd \in {f \in Fds : interest[f] = "IN" /\ Readable(owner[f])}}
         \cup {OutEvent(fd, data[fd]) : fd \in {f \in Fds : interest[f] = "OUT"}}

(* epoll_wait(); its timeout, with nothing ready, changes nothing *)
EpollWait == /\ running
             /\ batch = {}
             /\ batch' = Ready
             /\ UNCHANGED <<peers, net, taken, out, owner, epoll, heap, running>>

Handled(e) == running /\ e \in batch /\ batch' = batch \ {e}

(* accept() takes the lowest free descriptor and fails when there is none; *)
(* a failed EPOLL_CTL_ADD leaves the descriptor open and unwatched.        *)
DealConnectRequest ==
    /\ Handled(ListenEvent)
    /\ \/ \E c \in Clients, fd \in Fds :
             /\ conn[c] = "backlog"
             /\ owner[fd] = NoClient
             /\ \A f \in Fds : owner[f] = NoClient => fd <= f
             /\ conn' = [conn EXCEPT ![c] = "accepted"]
             /\ owner' = [owner EXCEPT ![fd] = c]
             /\ \/ interest' = [interest EXCEPT ![fd] = "IN"]
                \/ "add" \in Faults /\ UNCHANGED interest
       \/ /\ "accept" \in Faults \/ \A fd \in Fds : owner[fd] # NoClient
          /\ UNCHANGED <<conn, owner, interest>>
    /\ UNCHANGED <<gone, sent, net, taken, out, data, heap, running>>

(* Mutant of Modify: the descriptor is stored over data.ptr *)
ModifyFd(fd, events, ptr) ==
    /\ interest' = [interest EXCEPT ![fd] = events]
    /\ data' = [data EXCEPT ![fd] = IF ptr \in Bufs THEN fd ELSE ptr]

(* EPOLL_CTL_MOD, whose failure is logged and otherwise ignored *)
Modify(fd, events, ptr) ==
    \/ /\ interest[fd] # "none"
       /\ interest' = [interest EXCEPT ![fd] = events]
       /\ data' = [data EXCEPT ![fd] = ptr]
    \/ /\ interest[fd] = "none" \/ "mod" \in Faults
       /\ UNCHANGED epoll

(* Mutant of Malloc: the block keeps the message of its last use *)
MallocStale(b, fd, m) ==
    /\ ~heap[b].live
    /\ heap' = [heap EXCEPT ![b] = [live |-> TRUE, fd |-> fd, message |->
                    IF @.message = NoMessage THEN m ELSE @.message]]
Malloc(b, fd, m) == /\ ~heap[b].live
                    /\ heap' = [heap EXCEPT ![b] = [live |-> TRUE, fd |-> fd, message |-> m]]
(* Mutant of Free: the block is not freed *)
FreeNothing(b) == b \in Bufs /\ UNCHANGED heap
Free(b) == heap' = [heap EXCEPT ![b].live = FALSE]

(* Mutants of ReadData: the data stays in the socket buffer; the socket is *)
(* not switched to EPOLLOUT                                                *)
ReadDataPeek(fd) ==
    LET c == owner[fd] IN
    /\ taken[c] < sent[c]
    /\ \E b \in Bufs : /\ Malloc(b, fd, [client |-> c, n |-> taken[c] + 1])
                       /\ Modify(fd, "OUT", b)
    /\ UNCHANGED <<peers, net, taken, owner, running>>
ReadDataStaysIn(fd) ==
    LET c == owner[fd] IN
    /\ taken[c] < sent[c]
    /\ taken' = [taken EXCEPT ![c] = sent[c]]
    /\ \E b \in Bufs : Malloc(b, fd, [client |-> c, n |-> taken[c] + 1])
    /\ UNCHANGED <<peers, net, owner, epoll, running>>

(* read() > 0 returns all that has arrived; the write event gets the block *)
ReadData(fd) ==
    LET c == owner[fd] IN
    /\ taken[c] < sent[c]
    /\ taken' = [taken EXCEPT ![c] = sent[c]]
    /\ \E b \in Bufs : /\ Malloc(b, fd, [client |-> c, n |-> taken[c] + 1])
                       /\ Modify(fd, "OUT", b)
    /\ UNCHANGED <<peers, net, owner, running>>

(* Mutant of ReadEof: the descriptor is not closed *)
ReadEofOnlyDel(fd) ==
    LET c == owner[fd] IN
    /\ c \in gone \ unreported
    /\ taken[c] = sent[c]
    /\ interest' = [interest EXCEPT ![fd] = "none"]
    /\ UNCHANGED <<peers, net, taken, owner, data, heap, running>>

(* read() = 0: EPOLL_CTL_DEL, close and free *)
ReadEof(fd) ==
    LET c == owner[fd] IN
    /\ c \in gone \ unreported
    /\ taken[c] = sent[c]
    /\ conn' = [conn EXCEPT ![c] = "closed"]
    /\ owner' = [owner EXCEPT ![fd] = NoClient]
    /\ interest' = [interest EXCEPT ![fd] = "none"]
    /\ UNCHANGED <<gone, sent, net, taken, data, heap, running>>

(* read() < 0, once after an RST: the block is neither freed nor handed on *)
ReadFails(fd) ==
    LET c == owner[fd] IN
    /\ c \in unreported
    /\ taken[c] = sent[c]
    /\ unreported' = unreported \ {c}
    /\ \E b \in Bufs : Malloc(b, fd, NoMessage)
    /\ UNCHANGED <<peers, reset, taken, owner, epoll, running>>

(* malloc() returned NULL, which memset() dereferences *)
OutOfMemory == /\ \A b \in Bufs : heap[b].live
               /\ running' = FALSE
               /\ UNCHANGED <<peers, net, taken, owner, epoll, heap>>

DealReadEvent(fd) ==
    /\ Handled(InEvent(fd))
    /\ \/ /\ \E b \in Bufs : ~heap[b].live
          /\ ReadData(fd) \/ ReadEof(fd) \/ ReadFails(fd)
       \/ OutOfMemory
    /\ UNCHANGED out

(* reset after a write() to c: a client that has closed answers with an RST *)
AfterWrite(c, r) == IF c \in gone THEN r \cup {c} ELSE r

(* The receiver's notice, which precedes the reply: there is none, or it   *)
(* is written to a client, whose descriptor can be anybody's by now; r is  *)
(* what reset is afterwards.                                               *)
Notified == IF "notice" \in Faults THEN {owner[fd] : fd \in Fds} \ {NoClient} ELSE {}
Notice(r) == \/ r = reset /\ UNCHANGED noticed
             \/ \E c \in Notified \ reset : r = AfterWrite(c, reset) /\ noticed' = noticed \cup {c}

(* The notice, if any, and the reply are written *)
Reply(c, m) ==
    \E r \in {reset} \cup {AfterWrite(d, reset) : d \in Notified} :
        /\ Notice(r)
        /\ c \notin r
        /\ replies' = [replies EXCEPT ![c] = Append(@, m)]
        /\ reset' = AfterWrite(c, r)
        /\ UNCHANGED unreported

(* Mutant of WriteSucceeds: the socket is not switched back to EPOLLIN *)
WriteStaysOut(b) ==
    LET fd == heap[b].fd IN
    /\ owner[fd] # NoClient
    /\ Reply(owner[fd], heap[b].message)
    /\ Free(b)
    /\ UNCHANGED <<epoll, running>>

(* dealClientMessage() succeeds: free, then EPOLL_CTL_MOD back to EPOLLIN  *)
WriteSucceeds(b) ==
    LET fd == heap[b].fd IN
    /\ owner[fd] # NoClient
    /\ Reply(owner[fd], heap[b].message)
    /\ Free(b)
    /\ Modify(fd, "IN", NoBuf)
    /\ UNCHANGED running

(* write() to c fails with ECONNRESET, which is reported once *)
Reported(c) == c \in unreported /\ unreported' = unreported \ {c}

(* dealClientMessage() fails: because of a fault of its own, because the   *)
(* notice met a closed descriptor or an RST, or because the reply did,     *)
(* after the notice.  free, and the registration keeps pointing to the     *)
(* block.                                                                  *)
WriteFails(b) ==
    LET c == owner[heap[b].fd] IN
    /\ \/ /\ {"handler", "notice"} \cap Faults # {}
          /\ UNCHANGED <<noticed, net>>
       \/ /\ \E d \in Notified : Reported(d)
          /\ UNCHANGED <<noticed, reset>>
       \/ /\ (c = NoClient /\ UNCHANGED unreported) \/ Reported(c)
          /\ Notice(reset')
    /\ Free(b)
    /\ UNCHANGED <<replies, epoll, running>>

(* A further write() after an RST raises SIGPIPE: daemonInit(), which      *)
(* would ignore it, is called by none of the daemons.                      *)
WriteKills(b) ==
    /\ \/ Notified \cap (reset \ unreported) # {}
       \/ owner[heap[b].fd] \in reset \ unreported
       \/ owner[heap[b].fd] \in (Notified \cap gone) \ unreported
    /\ running' = FALSE
    /\ UNCHANGED <<out, net, heap, epoll>>

(* The text of a failed read() is no JSON, and a NULL dereference *)
ParseKills(b) == /\ heap[b].message = NoMessage
                 /\ running' = FALSE
                 /\ UNCHANGED <<out, net, heap, epoll>>

(* The block was freed before.  Undefined: the process may die at once, or *)
(* the old contents are handled once more before the second free() aborts. *)
UseAfterFree(b) ==
    /\ running' = FALSE
    /\ \/ UNCHANGED <<out, net>>
       \/ /\ heap[b].message # NoMessage
          /\ owner[heap[b].fd] # NoClient
          /\ Reply(owner[heap[b].fd], heap[b].message)
    /\ UNCHANGED <<heap, epoll>>

(* dealWriteEvent(): what the block holds, be it another client's by now *)
DealWriteEvent(fd, b) ==
    /\ Handled(OutEvent(fd, b))
    /\ \/ /\ heap[b].live
          /\ heap[b].message # NoMessage
          /\ WriteSucceeds(b) \/ WriteFails(b) \/ WriteKills(b)
       \/ heap[b].live /\ ParseKills(b)
       \/ ~heap[b].live /\ UseAfterFree(b)
    /\ UNCHANGED <<peers, taken, owner>>

Loop == \/ EpollWait
        \/ DealConnectRequest
        \/ \E fd \in Fds : DealReadEvent(fd)
        \/ \E fd \in Fds, b \in Bufs : DealWriteEvent(fd, b)

Next == \/ \E c \in Clients : Connect(c) \/ Send(c) \/ Leave(c)
        \/ Loop

(* The loop runs whenever it can; the clients owe nothing. *)
Spec == Init /\ [][Next]_vars /\ WF_vars(Loop)

--------------------------------------------------------------------------------
(* Properties *)

AnyMessage == [client : Clients \cup {NoClient}, n : Nat]
Blocks == [live : BOOLEAN, fd : Nat, message : AnyMessage]
Events == {ListenEvent} \cup {InEvent(fd) : fd \in Fds}
                       \cup {OutEvent(fd, b) : fd \in Fds, b \in Bufs}

PeersOK == /\ conn \in [Clients -> {"none", "backlog", "accepted", "closed"}]
           /\ sent \in [Clients -> Nat] /\ taken \in [Clients -> Nat]
NetOK   == gone \subseteq Clients /\ reset \subseteq gone /\ unreported \subseteq reset
RepliesOK == replies \in [Clients -> Seq(AnyMessage)] /\ noticed \subseteq Clients
OwnersOK == owner \in [Fds -> Clients \cup {NoClient}]
EpollOK == /\ interest \in [Fds -> {"none", "IN", "OUT"}]
           /\ data \in [Fds -> Bufs \cup {NoBuf}]
HeapOK  == heap \in [Bufs -> Blocks]
LoopOK  == batch \subseteq Events /\ running \in BOOLEAN

(* Types of the connection, epoll and heap state. *)
TypeOK == PeersOK /\ NetOK /\ RepliesOK /\ OwnersOK /\ EpollOK /\ HeapOK /\ LoopOK

(* The data read is what the write event gets (daemon.cpp:218, 234): the   *)
(* block of a socket waiting to write is allocated, was filled from this   *)
(* very connection, and no other socket shares it.                         *)
WriterGetsReadersData ==
    running =>
    \A fd \in Fds : interest[fd] = "OUT" =>
        /\ data[fd] \in Bufs
        /\ heap[data[fd]].live
        /\ heap[data[fd]].fd = fd
        /\ owner[fd] # NoClient
        /\ heap[data[fd]].message.client = owner[fd]
        /\ \A f \in Fds : interest[f] = "OUT" /\ data[f] = data[fd] => f = fd

(* Descriptors are reused, yet a reply reaches the client that sent the    *)
(* message and nobody else.                                                *)
RepliesToSender ==
    \A c \in Clients : \A i \in DOMAIN replies[c] : replies[c][i].client = c

(* However commands are merged, blocks given out again while a             *)
(* registration still points to them, and handlers fail: messages are      *)
(* answered in order and no message twice, but for the last thing the      *)
(* daemon does: the handler of a freed block may repeat a reply before     *)
(* free() aborts (daemon.cpp:238-245).                                     *)
RepliesInOrder ==
    \A c \in Clients : \A i, j \in DOMAIN replies[c] :
        i < j => \/ replies[c][i].n < replies[c][j].n
                 \/ ~running /\ j = Len(replies[c])

(* dealReadEvent() loses its block when read() fails (daemon.cpp:191), and *)
(* nothing gives it back.  Yet allocated blocks, lost ones included, never *)
(* outnumber the clients there have been: each can be charged to a client  *)
(* of its own, so no client costs the daemon more than one block.          *)
OneBlockPerClient ==
    LET live == {b \in Bufs : heap[b].live}
    IN  \E f \in [live -> Clients] : \A a, b \in live : f[a] = f[b] => a = b

Watched(c) == \E fd \in Fds : owner[fd] = c /\ interest[fd] # "none"

(* Every message a client has sent is answered ("handle the client's       *)
(* message", daemon.cpp:239) once its connection is watched.  For clients  *)
(* that wait for each reply, the failed EPOLL_CTL_ADD of daemon.cpp:169 is *)
(* the only way to be left unheard, and one connection lost so takes       *)
(* nothing from the others.  (The second of two messages read together is  *)
(* never answered.)                                                        *)
EveryMessageAnswered ==
    \A c \in Clients : \A n \in 1 .. MaxMessages :
        Watched(c) /\ sent[c] >= n ~> \E i \in DOMAIN replies[c] : replies[c][i].n = n

(* A client that has left gives its descriptor back, whatever it sent      *)
(* before and whatever fails, unless the daemon dies of it.  Only the      *)
(* failed EPOLL_CTL_ADD of daemon.cpp:169 is left out: that descriptor     *)
(* stays open for good.                                                    *)
DescriptorReleased ==
    \A c \in Clients : conn[c] = "accepted" /\ c \in gone ~>
                         conn[c] = "closed" \/ ~running
================================================================================
