---------------------------- MODULE DaemonLoopProofs ----------------------------
(***************************************************************************)
(* The event loop for any number of clients, descriptors, blocks and       *)
(* messages.  Types hold whatever fails.  As long as no handler and no     *)
(* EPOLL_CTL_MOD fails and clients wait for their replies, every message   *)
(* gets the one reply that is its own, and the daemon never holds more     *)
(* blocks than it has had clients.                                         *)
(***************************************************************************)
EXTENDS DaemonLoop, TLAPS

(* A socket in the epoll set is open, one waiting to write has a block,    *)
(* and so has a read event of the batch its connection.                    *)
EventsSane ==
    /\ \A fd \in Fds : interest[fd] # "none" => owner[fd] \in Clients
    /\ \A fd \in Fds : interest[fd] = "OUT" => data[fd] \in Bufs
    /\ \A fd \in Fds : InEvent(fd) \in batch => owner[fd] \in Clients

(* The inductive invariant of TypeOK. *)
TypeInv == TypeOK /\ EventsSane

--------------------------------------------------------------------------------
(* Events of different sockets or kinds differ.                            *)
LEMMA EventsDiffer ==
    /\ \A f, g : InEvent(f) = InEvent(g) => f = g
    /\ \A f, g, a, b : OutEvent(f, a) = OutEvent(g, b) => f = g /\ a = b
    /\ \A f, g, b : InEvent(f) # OutEvent(g, b)
    /\ \A f : InEvent(f) # ListenEvent
    /\ \A f, b : OutEvent(f, b) # ListenEvent
  BY DEF InEvent, OutEvent, ListenEvent

(* A block read from a connection, an empty one, and a freed one.          *)
LEMMA BlockTypes ==
    /\ NoMessage \in AnyMessage
    /\ \A c \in Clients, n \in Nat : [client |-> c, n |-> n] \in AnyMessage
    /\ \A l \in BOOLEAN, f \in Nat, m \in AnyMessage :
          [live |-> l, fd |-> f, message |-> m] \in Blocks
    /\ \A x \in Blocks : x.message \in AnyMessage /\ x.fd \in Nat /\ [x EXCEPT !.live = FALSE] \in Blocks
<1>1. NoMessage \in AnyMessage
  BY DEF NoMessage, AnyMessage
<1>2. \A c \in Clients, n \in Nat : [client |-> c, n |-> n] \in AnyMessage
  BY DEF AnyMessage
<1>3. \A l \in BOOLEAN, f \in Nat, m \in AnyMessage :
          [live |-> l, fd |-> f, message |-> m] \in Blocks
  BY DEF Blocks
<1>4. \A x \in Blocks : x.message \in AnyMessage /\ x.fd \in Nat /\ [x EXCEPT !.live = FALSE] \in Blocks
  BY DEF Blocks
<1> QED
  BY <1>1, <1>2, <1>3, <1>4

(* Nothing is connected, watched or allocated at the start.                *)
LEMMA TypeInit == Init => TypeInv
<1> SUFFICES ASSUME Init PROVE TypeInv
  OBVIOUS
<1>1. HeapOK
  BY BlockTypes DEF Init, HeapOK
<1>2. RepliesOK
  BY DEF Init, RepliesOK
<1>3. PeersOK /\ NetOK /\ OwnersOK /\ EpollOK /\ LoopOK
  BY DEF Init, PeersOK, NetOK, OwnersOK, EpollOK, LoopOK
<1>4. EventsSane
  BY DEF Init, EventsSane
<1> QED
  BY <1>1, <1>2, <1>3, <1>4 DEF TypeInv, TypeOK

(* Whoever is sent a notice is a client; it may be reset by that.          *)
LEMMA NotifiedType == ASSUME TypeOK PROVE Notified \subseteq Clients
  BY DEF Notified, TypeOK, OwnersOK
LEMMA NoticeType ==
    ASSUME TypeOK, NEW r, Notice(r), UNCHANGED gone
    PROVE  /\ noticed' \subseteq Clients
           /\ reset \subseteq r /\ r \subseteq gone
  BY NotifiedType DEF Notice, AfterWrite, TypeOK, NetOK, RepliesOK

(* What one more reply does to the types.                                  *)
LEMMA ReplyType ==
    ASSUME TypeOK, NEW c, NEW m \in AnyMessage, Reply(c, m), UNCHANGED gone
    PROVE  RepliesOK' /\ NetOK'
<1>1. replies \in [Clients -> Seq(AnyMessage)]
  BY DEF TypeOK, RepliesOK
<1>2. replies' = [replies EXCEPT ![c] = Append(@, m)]
  BY DEF Reply
<1>3. ASSUME c \in Clients PROVE Append(replies[c], m) \in Seq(AnyMessage)
  <2>1. replies[c] \in Seq(AnyMessage)
    BY <1>1, <1>3
  <2> QED
    BY <2>1
<1>4. PICK r \in SUBSET Clients : Notice(r) /\ reset' = AfterWrite(c, r) /\ UNCHANGED unreported
  BY NotifiedType DEF Reply, AfterWrite, TypeOK, NetOK
<1>5. noticed' \subseteq Clients /\ reset \subseteq r /\ r \subseteq gone
  BY <1>4, NoticeType
<1>6. RepliesOK'
  BY <1>1, <1>2, <1>3, <1>5 DEF RepliesOK
<1>7. NetOK'
  BY <1>4, <1>5 DEF AfterWrite, TypeOK, NetOK
<1> QED
  BY <1>6, <1>7

(* What EPOLL_CTL_MOD does, whatever it is called with.                    *)
LEMMA ModifyType ==
    ASSUME TypeOK, EventsSane, NEW x, NEW events \in {"IN", "OUT"}, NEW ptr \in Bufs \cup {NoBuf},
           events = "OUT" => ptr \in Bufs, Modify(x, events, ptr), UNCHANGED owner
    PROVE  /\ EpollOK'
           /\ \A fd \in Fds : interest'[fd] # "none" => owner'[fd] \in Clients
           /\ \A fd \in Fds : interest'[fd] = "OUT" => data'[fd] \in Bufs
<1>0. EpollOK
  BY DEF TypeOK
<1>1. CASE UNCHANGED epoll
  BY <1>0, <1>1 DEF EpollOK, EventsSane, epoll
<1>2. CASE /\ interest[x] # "none"
           /\ interest' = [interest EXCEPT ![x] = events]
           /\ data' = [data EXCEPT ![x] = ptr]
  <2>1. EpollOK'
    BY <1>0, <1>2 DEF EpollOK
  <2>2. ASSUME NEW fd \in Fds, fd # x
        PROVE  interest'[fd] = interest[fd] /\ data'[fd] = data[fd]
    BY <1>0, <1>2, <2>2 DEF EpollOK
  <2>3. ASSUME x \in Fds
        PROVE  interest'[x] = events /\ data'[x] = ptr /\ owner'[x] \in Clients
    BY <1>0, <1>2, <2>3 DEF EpollOK, EventsSane
  <2> QED
    BY <2>1, <2>2, <2>3 DEF EventsSane
<1> QED
  BY <1>1, <1>2 DEF Modify

(* What malloc() and free() do to the types.                               *)
LEMMA HeapType ==
    ASSUME TypeOK, NEW b \in Bufs
    PROVE  /\ \A fd \in Fds, m \in AnyMessage : Malloc(b, fd, m) => HeapOK'
           /\ Free(b) => HeapOK'
<1>1. heap \in [Bufs -> Blocks]
  BY DEF TypeOK, HeapOK
<1>2. ASSUME NEW fd \in Fds, NEW m \in AnyMessage, Malloc(b, fd, m) PROVE HeapOK'
  <2>1. [live |-> TRUE, fd |-> fd, message |-> m] \in Blocks
    BY FdsAssumption, BlockTypes
  <2> QED
    BY <1>1, <1>2, <2>1 DEF Malloc, HeapOK
<1>3. ASSUME Free(b) PROVE HeapOK'
  <2>1. [heap[b] EXCEPT !.live = FALSE] \in Blocks
    BY <1>1, BlockTypes
  <2> QED
    BY <1>1, <1>3, <2>1 DEF Free, HeapOK
<1> QED
  BY <1>2, <1>3

(* Every action keeps the types, under every fault.                        *)
LEMMA TypeStep == ASSUME TypeInv, [Next]_vars PROVE TypeInv'
<1> USE DEF TypeInv
<1>0. TypeOK /\ EventsSane
  OBVIOUS
<1>a. ASSUME UNCHANGED <<conn, sent, taken>> PROVE PeersOK'
  BY <1>0, <1>a DEF TypeOK, PeersOK
<1>b. ASSUME UNCHANGED <<gone, reset, unreported>> PROVE NetOK'
  BY <1>0, <1>b DEF TypeOK, NetOK
<1>c. ASSUME UNCHANGED owner PROVE OwnersOK'
  BY <1>0, <1>c DEF TypeOK, OwnersOK
<1>d. ASSUME UNCHANGED <<interest, data>> PROVE EpollOK'
  BY <1>0, <1>d DEF TypeOK, EpollOK
<1>e. ASSUME UNCHANGED heap PROVE HeapOK'
  BY <1>0, <1>e DEF TypeOK, HeapOK
<1>f. ASSUME batch' \subseteq batch, running' \in {running, FALSE} PROVE LoopOK'
  BY <1>0, <1>f DEF TypeOK, LoopOK
<1>g. ASSUME UNCHANGED <<replies, noticed>> PROVE RepliesOK'
  BY <1>0, <1>g DEF TypeOK, RepliesOK
<1>h. ASSUME UNCHANGED <<owner, interest, data>>, batch' \subseteq batch PROVE EventsSane'
  BY <1>0, <1>h DEF EventsSane
<1>1. ASSUME NEW c \in Clients, Connect(c) \/ Send(c) \/ Leave(c) PROVE TypeInv'
  <2>1. UNCHANGED <<taken, replies, noticed, owner, interest, data, heap, batch, running>>
    BY <1>1 DEF Connect, Send, Leave, epoll, out
  <2>2. PeersOK'
    <3>1. CASE Connect(c)
      BY <1>0, <3>1 DEF Connect, TypeOK, PeersOK
    <3>2. CASE Send(c)
      BY <1>0, <3>2 DEF Send, TypeOK, PeersOK
    <3>3. CASE Leave(c)
      BY <1>0, <3>3 DEF Leave, TypeOK, PeersOK
    <3> QED
      BY <1>1, <3>1, <3>2, <3>3
  <2>3. NetOK'
    BY <1>0, <1>1 DEF Connect, Send, Leave, net, TypeOK, NetOK
  <2> QED
    BY <1>c, <1>d, <1>e, <1>f, <1>g, <1>h, <2>1, <2>2, <2>3 DEF TypeOK
<1>2. CASE EpollWait
  <2>1. /\ batch' = Ready /\ UNCHANGED <<peers, net, taken, out, owner, epoll, heap, running>>
    BY <1>2 DEF EpollWait
  <2>2. Ready \subseteq Events
    BY <1>0 DEF Ready, EventsSane, Events
  <2>3. \A fd \in Fds : InEvent(fd) \in Ready => owner[fd] \in Clients
    BY <1>0, EventsDiffer DEF Ready, EventsSane
  <2>4. LoopOK'
    BY <1>0, <2>1, <2>2 DEF TypeOK, LoopOK
  <2>5. EventsSane'
    BY <1>0, <2>1, <2>3 DEF EventsSane, epoll
  <2> QED
    BY <1>a, <1>b, <1>c, <1>d, <1>e, <1>g, <2>1, <2>4, <2>5 DEF TypeOK, peers, net, epoll, out
<1>3. CASE DealConnectRequest
  <2>1. batch' \subseteq batch
    BY <1>3 DEF DealConnectRequest, Handled
  <2>2. UNCHANGED <<gone, sent, reset, unreported, taken, replies, noticed, data, heap, running>>
    BY <1>3 DEF DealConnectRequest, net, out
  <2>3. CASE UNCHANGED <<conn, owner, interest>>
    BY <1>a, <1>b, <1>c, <1>d, <1>e, <1>f, <1>g, <1>h, <2>1, <2>2, <2>3 DEF TypeOK
  <2>4. ASSUME NEW c \in Clients, NEW fd \in Fds,
               conn' = [conn EXCEPT ![c] = "accepted"],
               owner' = [owner EXCEPT ![fd] = c],
               interest' = [interest EXCEPT ![fd] = "IN"] \/ interest' = interest
        PROVE  TypeInv'
    <3>1. PeersOK'
      BY <1>0, <2>2, <2>4 DEF TypeOK, PeersOK
    <3>2. OwnersOK'
      BY <1>0, <2>4 DEF TypeOK, OwnersOK
    <3>3. EpollOK'
      BY <1>0, <2>2, <2>4 DEF TypeOK, EpollOK
    <3>4. EventsSane'
      <4>1. owner'[fd] = c /\ \A f \in Fds : f # fd => owner'[f] = owner[f]
        BY <1>0, <2>4 DEF TypeOK, OwnersOK
      <4>2. \A f \in Fds : interest'[f] = interest[f] \/ (f = fd /\ interest'[f] = "IN")
        BY <1>0, <2>4 DEF TypeOK, EpollOK
      <4> QED
        BY <1>0, <2>1, <2>2, <4>1, <4>2 DEF EventsSane
    <3> QED
      BY <1>b, <1>e, <1>f, <1>g, <2>1, <2>2, <3>1, <3>2, <3>3, <3>4 DEF TypeOK
  <2> QED
    BY <1>3, <2>3, <2>4 DEF DealConnectRequest
<1>4. ASSUME NEW fd \in Fds, DealReadEvent(fd) PROVE TypeInv'
  <2> DEFINE c == owner[fd]
  <2>1. c \in Clients /\ batch' = batch \ {InEvent(fd)} /\ UNCHANGED <<replies, noticed>>
    BY <1>0, <1>4 DEF DealReadEvent, Handled, EventsSane, out
  <2>2. CASE ReadData(fd)
    <3>1. PICK b \in Bufs : /\ Malloc(b, fd, [client |-> c, n |-> taken[c] + 1])
                            /\ Modify(fd, "OUT", b)
      BY <2>2 DEF ReadData
    <3>2. taken[c] + 1 \in Nat
      BY <1>0, <2>1 DEF TypeOK, PeersOK
    <3>3. HeapOK'
      BY <1>0, <2>1, <3>1, <3>2, HeapType, BlockTypes
    <3>4. UNCHANGED <<conn, sent, gone, reset, unreported, owner, running>>
      BY <2>2 DEF ReadData, peers, net
    <3>5. PeersOK'
      BY <1>0, <2>1, <2>2, <3>4 DEF ReadData, TypeOK, PeersOK
    <3>6. /\ EpollOK'
          /\ \A f \in Fds : interest'[f] # "none" => owner'[f] \in Clients
          /\ \A f \in Fds : interest'[f] = "OUT" => data'[f] \in Bufs
      BY <1>0, <3>1, <3>4, ModifyType
    <3>7. EventsSane'
      BY <1>0, <2>1, <3>4, <3>6 DEF EventsSane
    <3> QED
      BY <1>b, <1>c, <1>f, <1>g, <2>1, <3>3, <3>4, <3>5, <3>6, <3>7 DEF TypeOK
  <2>3. CASE ReadEof(fd)
    <3>1. /\ conn' = [conn EXCEPT ![c] = "closed"]
          /\ owner' = [owner EXCEPT ![fd] = NoClient]
          /\ interest' = [interest EXCEPT ![fd] = "none"]
          /\ UNCHANGED <<gone, reset, unreported, sent, taken, data, heap, running>>
      BY <2>3 DEF ReadEof, net
    <3>2. PeersOK'
      BY <1>0, <3>1 DEF TypeOK, PeersOK
    <3>3. OwnersOK'
      BY <1>0, <3>1 DEF TypeOK, OwnersOK
    <3>4. EpollOK'
      BY <1>0, <3>1 DEF TypeOK, EpollOK
    <3>5. EventsSane'
      <4>1. \A f \in Fds : InEvent(f) \in batch' => f # fd /\ InEvent(f) \in batch
        BY <2>1
      <4>2. interest'[fd] = "none"
        BY <1>0, <3>1 DEF TypeOK, EpollOK
      <4>3. \A f \in Fds : f # fd => owner'[f] = owner[f] /\ interest'[f] = interest[f]
        BY <1>0, <3>1 DEF TypeOK, EpollOK, OwnersOK
      <4> QED
        BY <1>0, <3>1, <4>1, <4>2, <4>3 DEF EventsSane
    <3> QED
      BY <1>b, <1>e, <1>f, <1>g, <2>1, <3>1, <3>2, <3>3, <3>4, <3>5 DEF TypeOK
  <2>4. CASE ReadFails(fd)
    <3>1. HeapOK'
      BY <1>0, <2>4, HeapType, BlockTypes DEF ReadFails
    <3>2. UNCHANGED <<conn, gone, sent, reset, taken, owner, interest, data, running>>
      BY <2>4 DEF ReadFails, peers, epoll
    <3>3. NetOK'
      BY <1>0, <2>4, <3>2 DEF ReadFails, TypeOK, NetOK
    <3> QED
      BY <1>a, <1>c, <1>d, <1>f, <1>g, <1>h, <2>1, <3>1, <3>2, <3>3 DEF TypeOK
  <2>5. CASE OutOfMemory
    <3>1. /\ UNCHANGED <<conn, gone, sent, reset, unreported, taken, owner, interest, data, heap>>
          /\ running' = FALSE
      BY <2>5 DEF OutOfMemory, peers, net, epoll
    <3> QED
      BY <1>a, <1>b, <1>c, <1>d, <1>e, <1>f, <1>g, <1>h, <2>1, <3>1 DEF TypeOK
  <2> QED
    BY <1>4, <2>2, <2>3, <2>4, <2>5 DEF DealReadEvent
<1>5. ASSUME NEW fd \in Fds, NEW b \in Bufs, DealWriteEvent(fd, b) PROVE TypeInv'
  <2>1. batch' \subseteq batch /\ UNCHANGED <<conn, gone, sent, taken, owner>>
    BY <1>5 DEF DealWriteEvent, Handled, peers
  <2>2. PeersOK' /\ OwnersOK'
    BY <1>a, <1>c, <2>1
  <2>m. heap[b].message \in AnyMessage
    BY <1>0, BlockTypes DEF TypeOK, HeapOK
  <2>3. CASE WriteSucceeds(b)
    <3>1. /\ Reply(owner[heap[b].fd], heap[b].message) /\ Free(b)
          /\ Modify(heap[b].fd, "IN", NoBuf) /\ running' = running
      BY <2>3 DEF WriteSucceeds
    <3>2. HeapOK'
      BY <1>0, <3>1, HeapType
    <3>3. RepliesOK' /\ NetOK'
      BY <1>0, <2>1, <2>m, <3>1, ReplyType
    <3>4. /\ EpollOK'
          /\ \A f \in Fds : interest'[f] # "none" => owner'[f] \in Clients
          /\ \A f \in Fds : interest'[f] = "OUT" => data'[f] \in Bufs
      BY <1>0, <2>1, <3>1, ModifyType
    <3>5. EventsSane'
      BY <1>0, <2>1, <3>4 DEF EventsSane
    <3> QED
      BY <1>f, <2>1, <2>2, <3>1, <3>2, <3>3, <3>4, <3>5 DEF TypeOK
  <2>4. CASE WriteFails(b)
    <3>1. HeapOK'
      BY <1>0, <2>4, HeapType DEF WriteFails
    <3>2. /\ UNCHANGED <<replies, interest, data, running>> /\ unreported' \subseteq unreported
          /\ Notice(reset') \/ UNCHANGED <<noticed, reset>>
      BY <2>4 DEF WriteFails, Reported, net, epoll
    <3>3. /\ noticed' \subseteq Clients /\ reset \subseteq reset' /\ reset' \subseteq gone
      <4>1. CASE Notice(reset')
        BY <1>0, <2>1, <4>1, NoticeType
      <4>2. CASE UNCHANGED <<noticed, reset>>
        BY <1>0, <4>2 DEF TypeOK, NetOK, RepliesOK
      <4> QED
        BY <3>2, <4>1, <4>2
    <3>4. NetOK' /\ RepliesOK'
      BY <1>0, <2>1, <3>2, <3>3 DEF TypeOK, NetOK, RepliesOK
    <3> QED
      BY <1>d, <1>f, <1>h, <2>1, <2>2, <3>1, <3>2, <3>4 DEF TypeOK
  <2>5. CASE WriteKills(b) \/ ParseKills(b)
    <3>1. /\ UNCHANGED <<replies, noticed, interest, data, heap, reset, unreported>>
          /\ running' = FALSE
      BY <2>5 DEF WriteKills, ParseKills, net, epoll, out
    <3> QED
      BY <1>b, <1>d, <1>e, <1>f, <1>g, <1>h, <2>1, <2>2, <3>1 DEF TypeOK
  <2>6. CASE UseAfterFree(b)
    <3>1. RepliesOK' /\ NetOK'
      <4>1. CASE Reply(owner[heap[b].fd], heap[b].message)
        BY <1>0, <2>1, <2>m, <4>1, ReplyType
      <4>2. CASE UNCHANGED <<out, net>>
        BY <1>b, <1>g, <2>1, <4>2 DEF net, out
      <4> QED
        BY <2>6, <4>1, <4>2 DEF UseAfterFree
    <3>2. UNCHANGED <<interest, data, heap>> /\ running' = FALSE
      BY <2>6 DEF UseAfterFree, epoll
    <3> QED
      BY <1>d, <1>e, <1>f, <1>h, <2>1, <2>2, <3>1, <3>2 DEF TypeOK
  <2> QED
    BY <1>5, <2>3, <2>4, <2>5, <2>6 DEF DealWriteEvent
<1>6. CASE UNCHANGED vars
  BY <1>a, <1>b, <1>c, <1>d, <1>e, <1>f, <1>g, <1>h, <1>6 DEF TypeOK, vars
<1> QED
  BY <1>1, <1>2, <1>3, <1>4, <1>5, <1>6 DEF Next, Loop

(* The state of clients, epoll set and heap is always of its type,         *)
(* whatever fails.                                                         *)
THEOREM TypeCorrect == Spec => []TypeOK
<1>1. TypeInv /\ [Next]_vars => TypeInv'
  BY TypeStep
<1>2. TypeInv => TypeOK
  BY DEF TypeInv
<1> QED
  BY <1>1, <1>2, TypeInit, PTL DEF Spec

--------------------------------------------------------------------------------
(* Clients that wait for each reply, no notices, and neither a failing     *)
(* handler nor a failing EPOLL_CTL_MOD.                                    *)
Steady == ~Pipelining /\ Faults \subseteq {"accept", "add"}

(* Message i is answered by reply i, one message at most is unanswered,    *)
(* and a connection is reset only when none is.                            *)
InStep(c) ==
    /\ Len(replies[c]) <= taken[c] /\ taken[c] <= sent[c]
    /\ sent[c] <= Len(replies[c]) + 1
    /\ c \in reset => sent[c] = Len(replies[c])
    /\ \A i \in 1 .. Len(replies[c]) : replies[c][i] = [client |-> c, n |-> i]
RepliesInStep == \A c \in Clients : InStep(c)

(* An open descriptor is the connection of one accepted client.            *)
OneDescriptor ==
    \A f \in Fds : owner[f] \in Clients =>
        /\ conn[owner[f]] = "accepted"
        /\ \A g \in Fds : owner[g] = owner[f] => f = g

(* A socket waiting to write holds its own block, with the one unanswered  *)
(* message of its client.                                                  *)
Holds(fd) ==
    /\ heap[data[fd]].live
    /\ heap[data[fd]].fd = fd
    /\ heap[data[fd]].message = [client |-> owner[fd], n |-> sent[owner[fd]]]
    /\ taken[owner[fd]] = sent[owner[fd]]
    /\ sent[owner[fd]] = Len(replies[owner[fd]]) + 1
BlockHandedOver == \A fd \in Fds : interest[fd] = "OUT" => Holds(fd)

(* The events of a batch are still true when their turn comes.             *)
BatchFits ==
    /\ \A fd \in Fds : InEvent(fd) \in batch => interest[fd] = "IN"
    /\ \A fd \in Fds, b \in Bufs :
          OutEvent(fd, b) \in batch => interest[fd] = "OUT" /\ data[fd] = b

(* The inductive invariant of the safety properties. *)
SteadyInv == /\ TypeInv /\ RepliesInStep /\ OneDescriptor /\ BlockHandedOver /\ BatchFits
             /\ noticed = {}

(* Appending at the end of a sequence. *)
LEMMA AppendFacts ==
    ASSUME NEW S, NEW s \in Seq(S), NEW m \in S
    PROVE  /\ Len(Append(s, m)) = Len(s) + 1 /\ Len(s) \in Nat
           /\ \A i \in 1 .. Len(s) : Append(s, m)[i] = s[i]
           /\ Append(s, m)[Len(s) + 1] = m
  OBVIOUS

(* Nothing has been sent at the start. *)
LEMMA SteadyInit == Init => SteadyInv
<1> SUFFICES ASSUME Init PROVE SteadyInv
  OBVIOUS
<1>1. RepliesInStep
  <2> SUFFICES ASSUME NEW c \in Clients PROVE InStep(c)
    BY DEF RepliesInStep
  <2>1. replies[c] = << >> /\ taken[c] = 0 /\ sent[c] = 0
    BY DEF Init
  <2>2. Len(replies[c]) = 0
    BY <2>1
  <2> QED
    BY <2>1, <2>2 DEF InStep
<1>2. OneDescriptor /\ BlockHandedOver /\ BatchFits
  BY ClientsAssumption DEF Init, OneDescriptor, BlockHandedOver, BatchFits
<1> QED
  BY <1>1, <1>2, TypeInit DEF SteadyInv, Init

(* Without notices a handler writes to its own client only.                *)
LEMMA QuietNotice == ASSUME Steady PROVE Notified = {} /\ \A r : Notice(r) => r = reset /\ UNCHANGED noticed
<1>1. Notified = {}
  BY DEF Steady, Notified
<1> QED
  BY <1>1 DEF Notice
LEMMA QuietReply ==
    ASSUME Steady, NEW c, NEW m, Reply(c, m)
    PROVE  /\ c \notin reset /\ replies' = [replies EXCEPT ![c] = Append(@, m)]
           /\ reset' = AfterWrite(c, reset) /\ UNCHANGED <<unreported, noticed>>
  BY QuietNotice DEF Reply

(* A reply to the message a socket holds keeps its client in step.         *)
LEMMA ReplyInStep ==
    ASSUME Steady, TypeInv, RepliesInStep, NEW fd \in Fds, Holds(fd), owner[fd] \in Clients,
           Reply(owner[fd], heap[data[fd]].message), UNCHANGED <<sent, taken>>
    PROVE  /\ RepliesInStep'
           /\ \A c \in Clients : c # owner[fd] => replies'[c] = replies[c]
<1>0. PICK d \in Clients : d = owner[fd]
  OBVIOUS
<1> DEFINE m == heap[data[fd]].message
<1>1. replies \in [Clients -> Seq(AnyMessage)] /\ replies[d] \in Seq(AnyMessage)
  BY DEF TypeInv, TypeOK, RepliesOK
<1>2. replies' = [replies EXCEPT ![d] = Append(replies[d], m)]
  BY <1>0, QuietReply
<1>3. sent[d] \in Nat /\ m = [client |-> d, n |-> sent[d]]
  BY <1>0 DEF TypeInv, TypeOK, PeersOK, Holds
<1>4. m \in AnyMessage
  BY <1>3 DEF AnyMessage
<1>5. /\ Len(replies'[d]) = Len(replies[d]) + 1 /\ Len(replies[d]) \in Nat
      /\ \A i \in 1 .. Len(replies[d]) : replies'[d][i] = replies[d][i]
      /\ replies'[d][Len(replies[d]) + 1] = m
  <2>1. replies'[d] = Append(replies[d], m)
    BY <1>1, <1>2
  <2> HIDE DEF m
  <2> QED
    BY <1>1, <1>4, <2>1, AppendFacts
<1>6. taken[d] = sent[d] /\ sent[d] = Len(replies[d]) + 1
  BY <1>0 DEF Holds
<1>7. InStep(d)'
  <2>1. \A i \in 1 .. Len(replies'[d]) : replies'[d][i] = [client |-> d, n |-> i]
    <3> SUFFICES ASSUME NEW i \in 1 .. Len(replies'[d])
                 PROVE  replies'[d][i] = [client |-> d, n |-> i]
      OBVIOUS
    <3>1. CASE i \in 1 .. Len(replies[d])
      BY <1>5, <3>1 DEF RepliesInStep, InStep
    <3>2. CASE i = Len(replies[d]) + 1
      BY <1>3, <1>5, <1>6, <3>2
    <3> QED
      BY <1>5, <3>1, <3>2
  <2> QED
    BY <1>5, <1>6, <2>1 DEF InStep
<1>8. ASSUME NEW c \in Clients, c # d PROVE InStep(c)' /\ replies'[c] = replies[c]
  <2>1. replies'[c] = replies[c]
    BY <1>1, <1>2, <1>8
  <2>2. c \in reset' => c \in reset
    BY <1>0, <1>8, QuietReply DEF AfterWrite
  <2> QED
    BY <2>1, <2>2 DEF RepliesInStep, InStep
<1> QED
  BY <1>0, <1>7, <1>8 DEF RepliesInStep

(* A write event finds its block and a connection that is not reset, so    *)
(* the reply is written.                                                   *)
LEMMA WriteEvent ==
    ASSUME Steady, SteadyInv, NEW fd \in Fds, NEW b \in Bufs, DealWriteEvent(fd, b)
    PROVE  /\ interest[fd] = "OUT" /\ data[fd] = b /\ Holds(fd) /\ owner[fd] \in Clients
           /\ heap[b].live /\ heap[b].fd = fd /\ WriteSucceeds(b)
<1>1. interest[fd] = "OUT" /\ data[fd] = b
  BY DEF DealWriteEvent, Handled, SteadyInv, BatchFits
<1>2. PICK c \in Clients : c = owner[fd]
  BY <1>1 DEF SteadyInv, TypeInv, EventsSane
<1>3. Holds(fd) /\ heap[b].live /\ heap[b].fd = fd
  BY <1>1 DEF SteadyInv, BlockHandedOver, Holds
<1>4. c \notin reset
  <2>1. InStep(c) /\ sent[c] = Len(replies[c]) + 1 /\ Len(replies[c]) \in Nat
    BY <1>2, <1>3 DEF SteadyInv, RepliesInStep, Holds, TypeInv, TypeOK, RepliesOK
  <2> QED
    BY <2>1 DEF InStep
<1>5. c # NoClient /\ c \notin unreported
  BY <1>4, ClientsAssumption DEF SteadyInv, TypeInv, TypeOK, NetOK
<1>6. ~WriteFails(b) /\ ~WriteKills(b)
  BY <1>2, <1>3, <1>4, <1>5, QuietNotice DEF WriteFails, WriteKills, Reported, Steady
<1>7. ~ParseKills(b)
  <2>1. heap[b].message.client = c /\ NoMessage.client = NoClient
    BY <1>1, <1>2, <1>3 DEF Holds, NoMessage
  <2> QED
    BY <1>5, <2>1 DEF ParseKills
<1> QED
  BY <1>1, <1>2, <1>3, <1>6, <1>7 DEF DealWriteEvent

(* Every action keeps client, descriptor, block and batch in step.         *)
LEMMA SteadyStep ==
    ASSUME Steady, SteadyInv, TypeInv', [Next]_vars
    PROVE  SteadyInv'
<1> USE DEF SteadyInv
<1>0. TypeInv /\ TypeOK /\ EventsSane /\ RepliesInStep /\ OneDescriptor /\ BlockHandedOver /\ BatchFits
  BY DEF TypeInv
<1>z. noticed' = {}
  <2>1. ASSUME NEW fd \in Fds, NEW b \in Bufs, DealWriteEvent(fd, b) PROVE noticed' = {}
    <3>1. WriteSucceeds(b)
      BY <2>1, WriteEvent
    <3>2. PICK c, m : Reply(c, m)
      BY <3>1 DEF WriteSucceeds
    <3> QED
      BY <3>2, QuietReply
  <2> QED
    BY <2>1 DEF Next, Loop, Connect, Send, Leave, EpollWait, DealConnectRequest, DealReadEvent, out, vars
<1> USE <1>z
<1>n. /\ \A c \in Clients : sent[c] \in Nat /\ taken[c] \in Nat /\ Len(replies[c]) \in Nat
  BY <1>0 DEF TypeOK, PeersOK, RepliesOK
<1>a. ASSUME UNCHANGED <<sent, taken, replies>>, reset' \subseteq reset PROVE RepliesInStep'
  BY <1>0, <1>a DEF RepliesInStep, InStep
<1>b. ASSUME UNCHANGED <<conn, owner>> PROVE OneDescriptor'
  BY <1>0, <1>b DEF OneDescriptor
<1>c. ASSUME UNCHANGED <<sent, taken, replies, owner, interest, data, heap>> PROVE BlockHandedOver'
  BY <1>0, <1>c DEF BlockHandedOver, Holds
<1>d. ASSUME UNCHANGED <<interest, data>>, batch' \subseteq batch PROVE BatchFits'
  BY <1>0, <1>d DEF BatchFits
<1>1. ASSUME NEW c \in Clients, Connect(c) PROVE SteadyInv'
  <2>1. /\ conn[c] = "none" /\ conn' = [conn EXCEPT ![c] = "backlog"]
        /\ UNCHANGED <<gone, sent, reset, unreported, taken, replies, owner, interest, data, heap, batch>>
    BY <1>1 DEF Connect, net, epoll, out
  <2>2. OneDescriptor'
    BY <1>0, <2>1 DEF OneDescriptor, TypeOK, PeersOK
  <2> QED
    BY <1>a, <1>c, <1>d, <2>1, <2>2
<1>2. ASSUME NEW c \in Clients, Send(c) PROVE SteadyInv'
  <2>1. /\ sent[c] = Len(replies[c]) /\ c \notin gone /\ sent' = [sent EXCEPT ![c] = @ + 1]
        /\ UNCHANGED <<conn, gone, reset, unreported, taken, replies, owner, interest, data, heap, batch>>
    BY <1>2 DEF Send, net, epoll, out, Steady
  <2>2. sent'[c] = sent[c] + 1 /\ \A d \in Clients : d # c => sent'[d] = sent[d]
    BY <1>0, <2>1 DEF TypeOK, PeersOK
  <2>3. c \notin reset
    BY <1>0, <2>1 DEF TypeOK, NetOK
  <2>4. RepliesInStep'
    <3>1. InStep(c)'
      BY <1>0, <1>n, <2>1, <2>2, <2>3 DEF RepliesInStep, InStep
    <3>2. ASSUME NEW d \in Clients, d # c PROVE InStep(d)'
      BY <1>0, <2>1, <2>2, <3>2 DEF RepliesInStep, InStep
    <3> QED
      BY <3>1, <3>2 DEF RepliesInStep
  <2>5. BlockHandedOver'
    <3> SUFFICES ASSUME NEW fd \in Fds, interest[fd] = "OUT" PROVE Holds(fd)'
      BY <2>1 DEF BlockHandedOver
    <3>1. Holds(fd) /\ owner[fd] \in Clients
      BY <1>0 DEF BlockHandedOver, EventsSane
    <3>2. owner[fd] # c
      BY <1>n, <2>1, <3>1 DEF Holds
    <3> QED
      BY <2>1, <2>2, <3>1, <3>2 DEF Holds
  <2> QED
    BY <1>b, <1>d, <2>1, <2>4, <2>5
<1>3. ASSUME NEW c \in Clients, Leave(c) PROVE SteadyInv'
  <2>1. UNCHANGED <<conn, sent, taken, replies, owner, interest, data, heap, batch>>
    BY <1>3 DEF Leave, epoll, out
  <2>2. \/ reset' = reset
        \/ reset' = reset \cup {c} /\ sent[c] = Len(replies[c])
    BY <1>0, <1>3 DEF Leave, net, MayHaveUnread, Steady
  <2>3. RepliesInStep'
    BY <1>0, <2>1, <2>2 DEF RepliesInStep, InStep
  <2> QED
    BY <1>b, <1>c, <1>d, <2>1, <2>3
<1>4. CASE EpollWait
  <2>1. /\ batch' = Ready
        /\ UNCHANGED <<conn, gone, sent, reset, unreported, taken, replies, owner, interest, data, heap>>
    BY <1>4 DEF EpollWait, peers, net, epoll, out
  <2>2. BatchFits'
    <3>1. \A fd \in Fds : InEvent(fd) \in Ready => interest[fd] = "IN"
      BY EventsDiffer DEF Ready
    <3>2. \A fd \in Fds, b \in Bufs :
              OutEvent(fd, b) \in Ready => interest[fd] = "OUT" /\ data[fd] = b
      BY EventsDiffer DEF Ready
    <3> QED
      BY <2>1, <3>1, <3>2 DEF BatchFits
  <2> QED
    BY <1>a, <1>b, <1>c, <2>1, <2>2
<1>5. CASE DealConnectRequest
  <2>1. /\ batch' \subseteq batch
        /\ UNCHANGED <<gone, sent, reset, unreported, taken, replies, data, heap>>
    BY <1>5 DEF DealConnectRequest, Handled, net, out
  <2>2. CASE UNCHANGED <<conn, owner, interest>>
    BY <1>a, <1>b, <1>c, <1>d, <2>1, <2>2
  <2>3. ASSUME NEW c \in Clients, NEW fd \in Fds, conn[c] = "backlog", owner[fd] = NoClient,
               conn' = [conn EXCEPT ![c] = "accepted"],
               owner' = [owner EXCEPT ![fd] = c],
               interest' = [interest EXCEPT ![fd] = "IN"] \/ interest' = interest
        PROVE  SteadyInv'
    <3>1. interest[fd] = "none"
      BY <1>0, <2>3, ClientsAssumption DEF EventsSane
    <3>2. owner'[fd] = c /\ \A f \in Fds : f # fd => owner'[f] = owner[f] /\ interest'[f] = interest[f]
      BY <1>0, <2>3 DEF TypeOK, OwnersOK, EpollOK
    <3>3. interest'[fd] # "OUT"
      BY <1>0, <2>3, <3>1 DEF TypeOK, EpollOK
    <3>4. OneDescriptor'
      <4>1. \A f \in Fds : owner[f] # c
        BY <1>0, <2>3 DEF OneDescriptor
      <4>2. conn'[c] = "accepted" /\ \A d \in Clients : d # c => conn'[d] = conn[d]
        BY <1>0, <2>3 DEF TypeOK, PeersOK
      <4> QED
        BY <1>0, <3>2, <4>1, <4>2 DEF OneDescriptor
    <3>5. BlockHandedOver'
      BY <1>0, <2>1, <3>2, <3>3 DEF BlockHandedOver, Holds
    <3>6. BatchFits'
      BY <1>0, <2>1, <3>1, <3>2 DEF BatchFits
    <3> QED
      BY <1>a, <2>1, <3>4, <3>5, <3>6
  <2> QED
    BY <1>5, <2>2, <2>3 DEF DealConnectRequest
<1>6. ASSUME NEW fd \in Fds, DealReadEvent(fd) PROVE SteadyInv'
  <2>0. PICK c \in Clients : c = owner[fd]
    BY <1>0, <1>6 DEF DealReadEvent, Handled, EventsSane
  <2>1. /\ c \in Clients /\ interest[fd] = "IN" /\ batch' = batch \ {InEvent(fd)}
        /\ replies' = replies /\ owner[fd] = c
    BY <1>0, <1>6, <2>0 DEF DealReadEvent, Handled, BatchFits, out
  <2>2. \A f \in Fds : owner[f] = c => f = fd
    BY <1>0, <2>1 DEF OneDescriptor
  <2>3. CASE ReadData(fd)
    <3>1. PICK b \in Bufs : /\ Malloc(b, fd, [client |-> c, n |-> taken[c] + 1])
                            /\ Modify(fd, "OUT", b)
      BY <2>0, <2>3 DEF ReadData
    <3>2. /\ UNCHANGED <<conn, gone, sent, reset, unreported, owner>>
          /\ taken[c] < sent[c] /\ taken' = [taken EXCEPT ![c] = sent[c]]
      BY <2>0, <2>3 DEF ReadData, peers, net
    <3>3. taken'[c] = sent[c] /\ \A d \in Clients : d # c => taken'[d] = taken[d]
      BY <1>0, <2>1, <3>2 DEF TypeOK, PeersOK
    <3>4. /\ taken[c] + 1 = sent[c] /\ sent[c] = Len(replies[c]) + 1
      <4>1. InStep(c)
        BY <1>0 DEF RepliesInStep
      <4> QED
        BY <1>n, <3>2, <4>1 DEF InStep
    <3>5. /\ interest' = [interest EXCEPT ![fd] = "OUT"]
          /\ data' = [data EXCEPT ![fd] = b]
      BY <2>1, <3>1 DEF Modify, Steady
    <3>6. /\ interest'[fd] = "OUT" /\ data'[fd] = b
          /\ \A f \in Fds : f # fd => interest'[f] = interest[f] /\ data'[f] = data[f]
      BY <1>0, <3>5 DEF TypeOK, EpollOK
    <3>7. /\ ~heap[b].live
          /\ heap'[b] = [live |-> TRUE, fd |-> fd, message |-> [client |-> c, n |-> sent[c]]]
          /\ \A a \in Bufs : a # b => heap'[a] = heap[a]
      BY <1>0, <3>1, <3>4 DEF Malloc, TypeOK, HeapOK
    <3>8. RepliesInStep'
      <4>1. InStep(c)'
        BY <1>0, <1>n, <2>1, <3>2, <3>3, <3>4 DEF RepliesInStep, InStep
      <4>2. ASSUME NEW d \in Clients, d # c PROVE InStep(d)'
        BY <1>0, <2>1, <3>2, <3>3, <4>2 DEF RepliesInStep, InStep
      <4> QED
        BY <4>1, <4>2 DEF RepliesInStep
    <3>9. BlockHandedOver'
      <4>1. Holds(fd)'
        <5>1. /\ heap'[b].live /\ heap'[b].fd = fd
              /\ heap'[b].message = [client |-> c, n |-> sent[c]]
          BY <3>7
        <5> QED
          BY <2>1, <3>2, <3>3, <3>4, <3>6, <5>1 DEF Holds
      <4>2. ASSUME NEW f \in Fds, f # fd, interest'[f] = "OUT" PROVE Holds(f)'
        <5>1. Holds(f) /\ owner[f] \in Clients /\ owner[f] # c /\ data[f] \in Bufs
          BY <1>0, <2>2, <3>6, <4>2 DEF BlockHandedOver, EventsSane
        <5>2. data[f] # b
          BY <3>7, <5>1 DEF Holds
        <5> QED
          BY <2>1, <3>2, <3>3, <3>6, <3>7, <4>2, <5>1, <5>2 DEF Holds
      <4> QED
        BY <4>1, <4>2 DEF BlockHandedOver
    <3>10. BatchFits'
      <4>1. \A a \in Bufs : OutEvent(fd, a) \notin batch
        BY <1>0, <2>1 DEF BatchFits
      <4>2. InEvent(fd) \notin batch'
        BY <2>1
      <4> QED
        BY <1>0, <2>1, <3>6, <4>1, <4>2 DEF BatchFits
    <3> QED
      BY <1>b, <3>2, <3>8, <3>9, <3>10
  <2>4. CASE ReadEof(fd)
    <3>1. /\ conn' = [conn EXCEPT ![c] = "closed"]
          /\ owner' = [owner EXCEPT ![fd] = NoClient]
          /\ interest' = [interest EXCEPT ![fd] = "none"]
          /\ UNCHANGED <<gone, reset, unreported, sent, taken, data, heap>>
      BY <2>0, <2>4 DEF ReadEof, net
    <3>2. /\ owner'[fd] = NoClient /\ interest'[fd] = "none"
          /\ \A f \in Fds : f # fd => owner'[f] = owner[f] /\ interest'[f] = interest[f]
          /\ \A d \in Clients : d # c => conn'[d] = conn[d]
      BY <1>0, <3>1 DEF TypeOK, EpollOK, OwnersOK, PeersOK
    <3>3. OneDescriptor'
      BY <1>0, <2>2, <3>2, ClientsAssumption DEF OneDescriptor
    <3>4. BlockHandedOver'
      BY <1>0, <2>1, <3>1, <3>2 DEF BlockHandedOver, Holds
    <3>5. BatchFits'
      <4>1. \A a \in Bufs : OutEvent(fd, a) \notin batch
        BY <1>0, <2>1 DEF BatchFits
      <4>2. InEvent(fd) \notin batch'
        BY <2>1
      <4> QED
        BY <1>0, <2>1, <3>1, <3>2, <4>1, <4>2 DEF BatchFits
    <3> QED
      BY <1>a, <2>1, <3>1, <3>3, <3>4, <3>5
  <2>5. CASE ReadFails(fd)
    <3>1. PICK b \in Bufs : Malloc(b, fd, NoMessage)
      BY <2>5 DEF ReadFails
    <3>2. UNCHANGED <<conn, gone, sent, reset, taken, owner, interest, data>>
      BY <2>5 DEF ReadFails, peers, epoll
    <3>3. ~heap[b].live /\ \A a \in Bufs : a # b => heap'[a] = heap[a]
      BY <1>0, <3>1 DEF Malloc, TypeOK, HeapOK
    <3>4. BlockHandedOver'
      <4> SUFFICES ASSUME NEW f \in Fds, interest[f] = "OUT" PROVE Holds(f)'
        BY <3>2 DEF BlockHandedOver
      <4>1. Holds(f) /\ data[f] \in Bufs
        BY <1>0 DEF BlockHandedOver, EventsSane
      <4>2. heap'[data[f]] = heap[data[f]]
        BY <3>3, <4>1 DEF Holds
      <4> QED
        BY <2>1, <3>2, <4>1, <4>2 DEF Holds
    <3> QED
      BY <1>a, <1>b, <1>d, <2>1, <3>2, <3>4
  <2>6. CASE OutOfMemory
    <3>1. UNCHANGED <<conn, gone, sent, reset, unreported, taken, owner, interest, data, heap>>
      BY <2>6 DEF OutOfMemory, peers, net, epoll
    <3> QED
      BY <1>a, <1>b, <1>c, <1>d, <2>1, <3>1
  <2> QED
    BY <1>6, <2>3, <2>4, <2>5, <2>6 DEF DealReadEvent
<1>7. ASSUME NEW fd \in Fds, NEW b \in Bufs, DealWriteEvent(fd, b) PROVE SteadyInv'
  <2> DEFINE c == owner[fd]
  <2>1. /\ OutEvent(fd, b) \in batch /\ batch' = batch \ {OutEvent(fd, b)}
        /\ UNCHANGED <<conn, gone, sent, taken, owner>>
    BY <1>7 DEF DealWriteEvent, Handled, peers
  <2>2. /\ interest[fd] = "OUT" /\ data[fd] = b /\ Holds(fd) /\ c \in Clients
        /\ heap[b].live /\ heap[b].fd = fd
    BY <1>7, WriteEvent
  <2>5. WriteSucceeds(b)
    BY <1>7, WriteEvent
  <2>6. /\ Reply(c, heap[data[fd]].message) /\ Free(b) /\ Modify(fd, "IN", NoBuf)
    BY <2>2, <2>5 DEF WriteSucceeds
  <2>7. /\ RepliesInStep'
        /\ \A d \in Clients : d # c => replies'[d] = replies[d]
    BY <1>0, <2>1, <2>2, <2>6, ReplyInStep
  <2>8. /\ interest' = [interest EXCEPT ![fd] = "IN"]
        /\ data' = [data EXCEPT ![fd] = NoBuf]
    BY <2>2, <2>6 DEF Modify, Steady
  <2>9. /\ interest'[fd] = "IN"
        /\ \A f \in Fds : f # fd => interest'[f] = interest[f] /\ data'[f] = data[f]
    BY <1>0, <2>8 DEF TypeOK, EpollOK
  <2>10. \A a \in Bufs : a # b => heap'[a] = heap[a]
    BY <1>0, <2>6 DEF Free, TypeOK, HeapOK
  <2>11. BlockHandedOver'
    <3> SUFFICES ASSUME NEW f \in Fds, interest'[f] = "OUT" PROVE Holds(f)'
      BY DEF BlockHandedOver
    <3>1. f # fd
      BY <2>9
    <3>2. Holds(f) /\ data[f] \in Bufs /\ owner[f] \in Clients
      BY <1>0, <2>9, <3>1 DEF BlockHandedOver, EventsSane
    <3>3. data[f] # b /\ owner[f] # c
      BY <1>0, <2>2, <3>1, <3>2 DEF Holds, OneDescriptor
    <3> QED
      BY <2>1, <2>7, <2>9, <2>10, <3>1, <3>2, <3>3 DEF Holds
  <2>12. BatchFits'
    <3>1. InEvent(fd) \notin batch
      BY <1>0, <2>2 DEF BatchFits
    <3>2. \A a \in Bufs : OutEvent(fd, a) \notin batch'
      BY <1>0, <2>1, <2>2 DEF BatchFits
    <3> QED
      BY <1>0, <2>1, <2>9, <3>1, <3>2 DEF BatchFits
  <2> QED
    BY <1>b, <2>1, <2>7, <2>11, <2>12
<1>8. CASE UNCHANGED vars
  BY <1>a, <1>b, <1>c, <1>d, <1>8 DEF vars
<1> QED
  BY <1>1, <1>2, <1>3, <1>4, <1>5, <1>6, <1>7, <1>8 DEF Next, Loop

(* The invariant implies the properties of the handover and the replies.   *)
LEMMA SteadyImplies ==
    SteadyInv => WriterGetsReadersData /\ RepliesToSender /\ RepliesInOrder
<1> SUFFICES ASSUME SteadyInv PROVE WriterGetsReadersData /\ RepliesToSender /\ RepliesInOrder
  OBVIOUS
<1>1. WriterGetsReadersData
  <2> SUFFICES ASSUME NEW fd \in Fds, interest[fd] = "OUT"
               PROVE  /\ data[fd] \in Bufs /\ heap[data[fd]].live /\ heap[data[fd]].fd = fd
                      /\ owner[fd] # NoClient /\ heap[data[fd]].message.client = owner[fd]
                      /\ \A f \in Fds : interest[f] = "OUT" /\ data[f] = data[fd] => f = fd
    BY DEF WriterGetsReadersData
  <2>1. data[fd] \in Bufs /\ owner[fd] \in Clients /\ Holds(fd)
    BY DEF SteadyInv, TypeInv, EventsSane, BlockHandedOver
  <2>2. \A f \in Fds : interest[f] = "OUT" => heap[data[f]].fd = f
    BY DEF SteadyInv, BlockHandedOver, Holds
  <2> QED
    BY <2>1, <2>2, ClientsAssumption DEF Holds
<1>2. \A c \in Clients : \A i \in DOMAIN replies[c] :
         i \in Nat /\ replies[c][i].client = c /\ replies[c][i].n = i
  <2> SUFFICES ASSUME NEW c \in Clients, NEW i \in DOMAIN replies[c]
               PROVE  i \in Nat /\ replies[c][i].client = c /\ replies[c][i].n = i
    OBVIOUS
  <2>1. DOMAIN replies[c] = 1 .. Len(replies[c])
    BY DEF SteadyInv, TypeInv, TypeOK, RepliesOK
  <2>2. replies[c][i] = [client |-> c, n |-> i]
    BY <2>1 DEF SteadyInv, RepliesInStep, InStep
  <2> QED
    BY <2>1, <2>2
<1> QED
  BY <1>1, <1>2 DEF RepliesToSender, RepliesInOrder

(* The invariant is inductive. *)
LEMMA SteadyNext == ASSUME Steady PROVE SteadyInv /\ [Next]_vars => SteadyInv'
<1> SUFFICES ASSUME SteadyInv, [Next]_vars PROVE SteadyInv'
  OBVIOUS
<1>1. TypeInv'
  BY TypeStep DEF SteadyInv
<1> QED
  BY <1>1, SteadyStep

(* While no handler and no EPOLL_CTL_MOD fails and clients wait for their  *)
(* replies, the write event gets the reader's block, replies reach the     *)
(* sender, and they come in order and once.                                *)
THEOREM HandoverHolds ==
    Steady => (Spec => [](WriterGetsReadersData /\ RepliesToSender /\ RepliesInOrder))
<1> SUFFICES ASSUME Steady
             PROVE  Spec => [](WriterGetsReadersData /\ RepliesToSender /\ RepliesInOrder)
  OBVIOUS
<1>1. SteadyInv /\ [Next]_vars => SteadyInv'
  BY SteadyNext
<1> QED
  BY <1>1, SteadyInit, SteadyImplies, PTL DEF Spec

--------------------------------------------------------------------------------
(* dealReadEvent() leaks its block when read() fails, once per connection, *)
(* and the program has no way to get it back.                              *)

(* A block with a message belongs to a socket waiting to write.            *)
BlocksUsed ==
    \A b \in Bufs : heap[b].live /\ heap[b].message # NoMessage =>
        /\ heap[b].fd \in Fds
        /\ interest[heap[b].fd] = "OUT"
        /\ data[heap[b].fd] = b

(* Every allocated block is charged to a client of its own: the one whose  *)
(* message it holds, or the one whose failed read() leaked it.             *)
Charged(f) ==
    /\ \A b \in Bufs : heap[b].live =>
          /\ f[b] \in Clients
          /\ heap[b].message = NoMessage => f[b] \in reset \ unreported
          /\ heap[b].message # NoMessage => f[b] = heap[b].message.client
    /\ \A a, b \in Bufs : heap[a].live /\ heap[b].live /\ f[a] = f[b] => a = b
MemoryInv ==
    /\ BlocksUsed
    /\ \E f \in [Bufs -> Clients \cup {NoClient}] : Charged(f)

(* Nothing is allocated at the start. *)
LEMMA MemoryInit == Init => MemoryInv
<1> SUFFICES ASSUME Init PROVE MemoryInv
  OBVIOUS
<1>1. \A b \in Bufs : ~heap[b].live
  BY DEF Init
<1>2. Charged([b \in Bufs |-> NoClient])
  BY <1>1 DEF Charged
<1> QED
  BY <1>1, <1>2 DEF MemoryInv, BlocksUsed

(* Before a block is filled for c, none is charged to c.                   *)
LEMMA NotCharged ==
    ASSUME SteadyInv, BlocksUsed, NEW f, Charged(f), NEW fd \in Fds, interest[fd] = "IN",
           NEW c \in Clients, c = owner[fd], taken[c] < sent[c] \/ c \in unreported,
           NEW a \in Bufs, heap[a].live
    PROVE  f[a] # c
<1>1. CASE heap[a].message = NoMessage
  <2>1. f[a] \in reset \ unreported
    BY <1>1 DEF Charged
  <2>2. ASSUME c \in reset PROVE ~(taken[c] < sent[c])
    <3>1. InStep(c) /\ taken[c] \in Nat /\ sent[c] \in Nat /\ Len(replies[c]) \in Nat
      BY DEF SteadyInv, RepliesInStep, TypeInv, TypeOK, PeersOK, RepliesOK
    <3> QED
      BY <2>2, <3>1 DEF InStep
  <2> QED
    BY <2>1, <2>2
<1>2. CASE heap[a].message # NoMessage
  <2> DEFINE g == heap[a].fd
  <2>1. g \in Fds /\ interest[g] = "OUT" /\ data[g] = a
    BY <1>2 DEF BlocksUsed
  <2>2. heap[a].message = [client |-> owner[g], n |-> sent[owner[g]]] /\ owner[g] \in Clients
    BY <2>1 DEF SteadyInv, BlockHandedOver, Holds, TypeInv, EventsSane
  <2>3. f[a] = owner[g]
    BY <1>2, <2>2 DEF Charged
  <2>4. g # fd
    BY <2>1
  <2> QED
    BY <2>1, <2>2, <2>3, <2>4 DEF SteadyInv, OneDescriptor
<1> QED
  BY <1>1, <1>2

(* A block is charged when it is filled, and to nobody else while it lives. *)
LEMMA MemoryStep ==
    ASSUME Steady, SteadyInv, MemoryInv, [Next]_vars
    PROVE  MemoryInv'
<1>0. /\ TypeOK /\ EventsSane /\ OneDescriptor /\ BlockHandedOver /\ BatchFits
      /\ BlocksUsed
  BY DEF SteadyInv, TypeInv, MemoryInv
<1>f. PICK f \in [Bufs -> Clients \cup {NoClient}] : Charged(f)
  BY DEF MemoryInv
<1>a. ASSUME UNCHANGED heap, reset \ unreported \subseteq reset' \ unreported',
             \A g \in Fds : interest[g] = "OUT" => interest'[g] = "OUT" /\ data'[g] = data[g]
      PROVE  MemoryInv'
  <2>1. Charged(f)'
    BY <1>a, <1>f DEF Charged
  <2>2. BlocksUsed'
    BY <1>0, <1>a DEF BlocksUsed
  <2> QED
    BY <1>0, <1>a, <2>1, <2>2 DEF MemoryInv
<1>1. ASSUME NEW c \in Clients, Connect(c) \/ Send(c) \/ Leave(c) PROVE MemoryInv'
  <2>1. UNCHANGED <<heap, interest, data>>
    BY <1>1 DEF Connect, Send, Leave, epoll
  <2>2. reset \ unreported \subseteq reset' \ unreported'
    BY <1>0, <1>1 DEF Connect, Send, Leave, net, TypeOK, NetOK
  <2> QED
    BY <1>a, <2>1, <2>2
<1>2. CASE EpollWait
  BY <1>a, <1>2 DEF EpollWait, epoll, net
<1>3. CASE DealConnectRequest
  <2>1. UNCHANGED <<reset, unreported, data, heap>>
    BY <1>3 DEF DealConnectRequest, net
  <2>2. \/ interest' = interest
        \/ \E fd \in Fds : owner[fd] = NoClient /\ interest' = [interest EXCEPT ![fd] = "IN"]
    BY <1>3 DEF DealConnectRequest
  <2>3. \A g \in Fds : interest[g] = "OUT" => interest'[g] = "OUT"
    BY <1>0, <2>2, ClientsAssumption DEF EventsSane, TypeOK, EpollOK
  <2> QED
    BY <1>a, <2>1, <2>3
<1>4. ASSUME NEW fd \in Fds, DealReadEvent(fd) PROVE MemoryInv'
  <2>0. PICK c \in Clients : c = owner[fd]
    BY <1>0, <1>4 DEF DealReadEvent, Handled, EventsSane
  <2>1. interest[fd] = "IN"
    BY <1>0, <1>4 DEF DealReadEvent, Handled, BatchFits
  <2>2. ASSUME NEW b \in Bufs, NEW m, Malloc(b, fd, m),
               taken[c] < sent[c] \/ c \in unreported,
               reset \ unreported \subseteq reset' \ unreported',
               \/ m = NoMessage /\ c \in reset' \ unreported'
               \/ m # NoMessage /\ m.client = c /\ interest'[fd] = "OUT" /\ data'[fd] = b,
               \A g \in Fds \ {fd} : interest'[g] = interest[g] /\ data'[g] = data[g]
        PROVE  MemoryInv'
    <3>1. /\ ~heap[b].live /\ heap'[b] = [live |-> TRUE, fd |-> fd, message |-> m]
          /\ \A a \in Bufs : a # b => heap'[a] = heap[a]
      BY <1>0, <2>2 DEF Malloc, TypeOK, HeapOK
    <3>2. heap'[b].live /\ heap'[b].fd = fd /\ heap'[b].message = m
      BY <3>1
    <3>3. \A a \in Bufs : a # b /\ heap[a].live => f[a] # c
      BY <1>0, <1>f, <2>0, <2>1, <2>2, NotCharged
    <3> DEFINE h == [f EXCEPT ![b] = c]
    <3>4. h \in [Bufs -> Clients \cup {NoClient}] /\ h[b] = c
          /\ \A a \in Bufs : a # b => h[a] = f[a]
      BY <1>f
    <3> HIDE DEF h
    <3>5. Charged(h)'
      <4>1. ASSUME NEW a \in Bufs, heap'[a].live
            PROVE  /\ h[a] \in Clients
                   /\ heap'[a].message = NoMessage => h[a] \in reset' \ unreported'
                   /\ heap'[a].message # NoMessage => h[a] = heap'[a].message.client
        <5>1. CASE a = b
          BY <2>2, <3>2, <3>4, <5>1
        <5>2. CASE a # b
          BY <1>f, <2>2, <3>1, <3>4, <4>1, <5>2 DEF Charged
        <5> QED
          BY <5>1, <5>2
      <4>2. ASSUME NEW a1 \in Bufs, NEW a2 \in Bufs, heap'[a1].live, heap'[a2].live, h[a1] = h[a2]
            PROVE  a1 = a2
        BY <1>f, <3>1, <3>3, <3>4, <4>2 DEF Charged
      <4> QED
        BY <4>1, <4>2 DEF Charged
    <3>6. BlocksUsed'
      <4> SUFFICES ASSUME NEW a \in Bufs, heap'[a].live, heap'[a].message # NoMessage
                   PROVE  /\ heap'[a].fd \in Fds /\ interest'[heap'[a].fd] = "OUT"
                          /\ data'[heap'[a].fd] = a
        BY DEF BlocksUsed
      <4>1. CASE a = b
        BY <2>2, <3>2, <4>1
      <4>2. CASE a # b
        <5>1. /\ heap'[a] = heap[a] /\ heap[a].fd \in Fds /\ interest[heap[a].fd] = "OUT"
              /\ data[heap[a].fd] = a
          BY <1>0, <3>1, <4>2 DEF BlocksUsed
        <5> QED
          BY <2>1, <2>2, <5>1
      <4> QED
        BY <4>1, <4>2
    <3> QED
      BY <1>0, <2>2, <3>4, <3>5, <3>6 DEF MemoryInv
  <2>3. CASE ReadData(fd)
    <3>1. PICK b \in Bufs : /\ Malloc(b, fd, [client |-> c, n |-> taken[c] + 1])
                            /\ Modify(fd, "OUT", b)
      BY <2>0, <2>3 DEF ReadData
    <3>2. taken[c] < sent[c] /\ UNCHANGED <<reset, unreported>>
      BY <2>0, <2>3 DEF ReadData, net
    <3>3. interest' = [interest EXCEPT ![fd] = "OUT"] /\ data' = [data EXCEPT ![fd] = b]
      BY <2>1, <3>1 DEF Modify, Steady
    <3>4. /\ interest'[fd] = "OUT" /\ data'[fd] = b
          /\ \A g \in Fds \ {fd} : interest'[g] = interest[g] /\ data'[g] = data[g]
      BY <1>0, <3>3 DEF TypeOK, EpollOK
    <3> DEFINE m == [client |-> c, n |-> taken[c] + 1]
    <3>5. m.client = c /\ m # NoMessage
      <4>1. m.client = c /\ NoMessage.client = NoClient /\ c # NoClient
        BY ClientsAssumption DEF NoMessage
      <4> QED
        BY <4>1
    <3> HIDE DEF m
    <3>6. Malloc(b, fd, m)
      BY <3>1 DEF m
    <3> QED
      BY <2>2, <3>2, <3>4, <3>5, <3>6
  <2>4. CASE ReadEof(fd)
    <3>1. /\ interest' = [interest EXCEPT ![fd] = "none"]
          /\ UNCHANGED <<reset, unreported, data, heap>>
      BY <2>4 DEF ReadEof, net
    <3>2. \A g \in Fds : interest[g] = "OUT" => interest'[g] = "OUT"
      BY <1>0, <2>1, <3>1 DEF TypeOK, EpollOK
    <3> QED
      BY <1>a, <3>1, <3>2
  <2>5. CASE ReadFails(fd)
    <3>1. PICK b \in Bufs : Malloc(b, fd, NoMessage)
      BY <2>5 DEF ReadFails
    <3>2. /\ c \in unreported /\ unreported' = unreported \ {c}
          /\ UNCHANGED <<reset, interest, data>>
      BY <2>0, <2>5 DEF ReadFails, epoll
    <3>3. c \in reset' \ unreported'
      BY <1>0, <3>2 DEF TypeOK, NetOK
    <3>4. reset \ unreported \subseteq reset' \ unreported'
      BY <3>2
    <3> QED
      BY <2>2, <3>1, <3>2, <3>3, <3>4
  <2>6. CASE OutOfMemory
    <3>1. UNCHANGED <<reset, unreported, interest, data, heap>>
      BY <2>6 DEF OutOfMemory, net, epoll
    <3> QED
      BY <1>a, <3>1
  <2> QED
    BY <1>4, <2>3, <2>4, <2>5, <2>6 DEF DealReadEvent
<1>5. ASSUME NEW fd \in Fds, NEW b \in Bufs, DealWriteEvent(fd, b) PROVE MemoryInv'
  <2>1. /\ interest[fd] = "OUT" /\ data[fd] = b /\ heap[b].fd = fd /\ WriteSucceeds(b)
    BY <1>5, WriteEvent
  <2>2. /\ Free(b) /\ Modify(fd, "IN", NoBuf)
        /\ unreported' = unreported /\ reset \subseteq reset'
    BY <2>1, QuietReply DEF WriteSucceeds, AfterWrite
  <2>3. /\ ~heap'[b].live /\ \A a \in Bufs : a # b => heap'[a] = heap[a]
    <3>1. heap \in [Bufs -> Blocks] /\ heap[b] \in Blocks
      BY <1>0 DEF TypeOK, HeapOK
    <3>2. heap' = [heap EXCEPT ![b] = [heap[b] EXCEPT !.live = FALSE]]
      BY <2>2 DEF Free
    <3>3. [heap[b] EXCEPT !.live = FALSE].live = FALSE
      BY <3>1 DEF Blocks
    <3> QED
      BY <3>1, <3>2, <3>3
  <2>4. /\ interest' = [interest EXCEPT ![fd] = "IN"] /\ data' = [data EXCEPT ![fd] = NoBuf]
    BY <2>1, <2>2 DEF Modify, Steady
  <2>5. \A g \in Fds : g # fd => interest'[g] = interest[g] /\ data'[g] = data[g]
    BY <1>0, <2>4 DEF TypeOK, EpollOK
  <2>6. Charged(f)'
    <3>1. ASSUME NEW a \in Bufs, heap'[a].live
          PROVE  a # b /\ heap'[a] = heap[a] /\ heap[a].live
      BY <2>3, <3>1
    <3> QED
      BY <1>f, <2>2, <3>1 DEF Charged
  <2>7. BlocksUsed'
    <3> SUFFICES ASSUME NEW a \in Bufs, heap'[a].live, heap'[a].message # NoMessage
                 PROVE  /\ heap'[a].fd \in Fds /\ interest'[heap'[a].fd] = "OUT"
                        /\ data'[heap'[a].fd] = a
      BY DEF BlocksUsed
    <3>1. a # b /\ heap'[a] = heap[a]
      BY <2>3
    <3>2. heap[a].fd \in Fds /\ interest[heap[a].fd] = "OUT" /\ data[heap[a].fd] = a
      BY <1>0, <3>1 DEF BlocksUsed
    <3> QED
      BY <2>1, <2>5, <3>1, <3>2
  <2> QED
    BY <1>0, <1>f, <2>2, <2>6, <2>7 DEF MemoryInv
<1>6. CASE UNCHANGED vars
  BY <1>a, <1>6 DEF vars
<1> QED
  BY <1>1, <1>2, <1>3, <1>4, <1>5, <1>6 DEF Next, Loop

(* What is charged is injective. *)
LEMMA MemoryImplies == MemoryInv => OneBlockPerClient
<1> SUFFICES ASSUME MemoryInv PROVE OneBlockPerClient
  OBVIOUS
<1>1. PICK f \in [Bufs -> Clients \cup {NoClient}] : Charged(f)
  BY DEF MemoryInv
<1> DEFINE live == {b \in Bufs : heap[b].live}
           g == [b \in live |-> f[b]]
<1>2. g \in [live -> Clients]
  BY <1>1 DEF Charged
<1>3. \A a, b \in live : g[a] = g[b] => a = b
  BY <1>1 DEF Charged
<1> QED
  BY <1>2, <1>3 DEF OneBlockPerClient

(* Under the same conditions what failed read()s lose is bounded by the    *)
(* connections that were reset: allocated blocks can be mapped one to one  *)
(* into the clients, so the daemon never holds more blocks than it has had *)
(* clients, however long it runs.                                          *)
THEOREM OneBlockPerClientHolds == Steady => (Spec => []OneBlockPerClient)
<1> SUFFICES ASSUME Steady PROVE Spec => []OneBlockPerClient
  OBVIOUS
<1>1. SteadyInv /\ [Next]_vars => SteadyInv'
  BY SteadyNext
<1>2. SteadyInv /\ MemoryInv /\ [Next]_vars => MemoryInv'
  BY MemoryStep
<1> QED
  BY <1>1, <1>2, SteadyInit, MemoryInit, MemoryImplies, PTL DEF Spec
================================================================================
