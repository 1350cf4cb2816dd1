--------------------------------- MODULE Relay ---------------------------------
(***************************************************************************)
(* The chain of daemons: the receiver, the dispatcher and the login        *)
(* service, how they are started, die and are started again, and the TCP   *)
(* connections between them.  The receiver and the dispatcher hand a       *)
(* request to the next daemon with a write() and wait for its answer with  *)
(* a blocking read(); the connection they use is made once, at start-up,   *)
(* kept as a descriptor number, and watched by epoll like any other.       *)
(* The login service is LoginService in one step, the event loop is        *)
(* DaemonLoop without the batches and with as much of the heap as a freed  *)
(* block needs, and the notice of dealServiceResponse() is left to         *)
(* SingleTerminal.                                                         *)
(***************************************************************************)
EXTENDS Integers, Sequences, Functions

CONSTANTS Clients,
          NoLink,       \* what a closed descriptor refers to
          Fds,          \* descriptors beyond the listening and the epoll one
          MaxRequests,  \* bound: requests of all clients together
          MaxStarts,    \* bound: how often each daemon is started
          MaxKills,     \* bound: daemons killed
          Mortal        \* the daemons that may be killed

Relays  == {"receiver", "dispatcher"}
Daemons == Relays \cup {"service"}

ASSUME ClientsAssumption ==
    Clients \cap Daemons = {} /\ Clients \cap (Relays \X (1 .. MaxStarts)) = {}
ASSUME NoLinkAssumption == NoLink \notin Clients \cup (Relays \X (1 .. MaxStarts))
ASSUME FdsAssumption == Fds \subseteq Nat \ {0}
ASSUME BoundsAssumption == MaxRequests \in Nat /\ MaxStarts \in Nat /\ MaxKills \in Nat
ASSUME MortalAssumption == Mortal \subseteq Daemons

(* A connection is named after its initiator: a client, or one run of a    *)
(* relay.  Its lower end is the initiator, its upper end the daemon        *)
(* connected to.                                                           *)
Links == Clients \cup (Relays \X (1 .. MaxStarts))
Sides == {"lower", "upper"}
Other(s) == IF s = "lower" THEN "upper" ELSE "lower"
Up(p) == IF p = "receiver" THEN "dispatcher" ELSE "service"
End(k, s) == IF k \in Clients THEN (IF s = "lower" THEN k ELSE "receiver")
                              ELSE (IF s = "lower" THEN k[1] ELSE Up(k[1]))

(* A request has a messageType item, an answer msg and extendInfo.logoutFd; *)
(* both carry here whose request it is and which one.                      *)
Messages  == [kind : {"request", "answer"}, client : Clients, n : Nat \ {0}]
NoMessage == [kind |-> "none", client |-> NoLink, n |-> 0]

VARIABLES
    daemon,  \* daemon[p]: the state of a daemon's process, see Off
    starts,  \* starts[p]: how often p was started
    kills,   \* daemons killed so far
    view,    \* view[k][s]: k as the kernel at end s sees it
    chan,    \* chan[k][s]: what end s of k has not read yet
    asked,   \* asked[c]: requests c has written
    got      \* got[c]: history: the newest request c has read the answer to

vars == <<daemon, starts, kills, view, chan, asked, got>>

(* pc: down, in the event loop, in the blocking read(), about to write the *)
(* answer, or in a second free(); upFd: _sendToMessageDispatcherServiceFd  *)
(* or the entry of _serviceFdMap; fds: what each descriptor refers to;     *)
(* block: the message in the block of a descriptor registered for          *)
(* EPOLLOUT; freed: the descriptors whose registration points to a block   *)
(* that has been freed; waste: what such a block may hold by now; to and   *)
(* message: sendToClientFd and message of the handler at work; doomed: it  *)
(* works on a freed block; response: what was read                         *)
Off == [pc |-> "down", upFd |-> 0, fds |-> [fd \in Fds |-> NoLink],
        block |-> [fd \in Fds |-> NoMessage], freed |-> {}, waste |-> {},
        to |-> 0, message |-> NoMessage, doomed |-> FALSE, response |-> NoMessage]

Init == /\ daemon = [p \in Daemons |-> Off]
        /\ starts = [p \in Daemons |-> 0]
        /\ kills = 0
        /\ view = [k \in Links |-> [s \in Sides |-> "none"]]
        /\ chan = [k \in Links |-> [s \in Sides |-> << >>]]
        /\ asked = [c \in Clients |-> 0]
        /\ got = [c \in Clients |-> 0]

--------------------------------------------------------------------------------
(* Connections *)

Connected == [s \in Sides |-> "open"]
Own(p) == <<p, starts[p]>>
Side(p, k) == IF End(k, "lower") = p THEN "lower" ELSE "upper"

(* The end of a process, or of a client, closes all its connections.       *)
(* Unread data turn the FIN into an RST.                                   *)
ClosesAll(p) ==
    /\ view' = [k \in Links |-> [s \in Sides |->
           IF End(k, Other(s)) = p /\ view[k][s] = "open"
           THEN IF chan[k][Other(s)] = << >> THEN "fin" ELSE "reset"
           ELSE view[k][s]]]
    /\ chan' = [k \in Links |-> [s \in Sides |->
           IF End(k, s) = p THEN << >> ELSE chan[k][s]]]

Dies(p) == daemon' = [daemon EXCEPT ![p] = Off] /\ ClosesAll(p)

(* write() of m by p: a peer that has closed answers with an RST *)
Written(p, k, m) ==
    LET s == Side(p, k) IN
    \/ /\ view[k][s] = "open"
       /\ chan' = [chan EXCEPT ![k][Other(s)] = Append(@, m)]
       /\ UNCHANGED view
    \/ /\ view[k][s] = "fin"
       /\ view' = [view EXCEPT ![k][s] = "broken"]
       /\ UNCHANGED chan

(* write() or read() by p fails with ECONNRESET, which is reported once *)
Refused(p, k) == /\ view[k][Side(p, k)] = "reset"
                 /\ view' = [view EXCEPT ![k][Side(p, k)] = "broken"]
                 /\ UNCHANGED chan

--------------------------------------------------------------------------------
(* Clients *)

Connect(c) ==
    /\ view[c].lower = "none"
    /\ daemon["receiver"].pc # "down"
    /\ view' = [view EXCEPT ![c] = Connected]
    /\ UNCHANGED <<daemon, starts, kills, chan, asked, got>>

(* A command; those merged with one not yet read are DaemonLoop's matter *)
Send(c) ==
    /\ view[c] = Connected
    /\ chan[c].upper = << >>
    /\ FoldFunction(+, 0, asked) < MaxRequests
    /\ asked' = [asked EXCEPT ![c] = @ + 1]
    /\ chan' = [chan EXCEPT ![c].upper =
                    <<[kind |-> "request", client |-> c, n |-> asked'[c]]>>]
    /\ UNCHANGED <<daemon, starts, kills, view, got>>

(* What has arrived is printed *)
Prints(c) ==
    LET m == chan[c].lower IN
    /\ m # << >>
    /\ chan' = [chan EXCEPT ![c].lower = << >>]
    /\ got' = [got EXCEPT ![c] = IF m[Len(m)].kind = "answer" THEN m[Len(m)].n ELSE @]
    /\ UNCHANGED <<daemon, starts, kills, view, asked>>

Leave(c) ==
    /\ view[c].upper = "open"
    /\ ClosesAll(c)
    /\ UNCHANGED <<daemon, starts, kills, asked, got>>

--------------------------------------------------------------------------------
(* Start and end of a daemon *)

Lowest(fds) == {fd \in fds : \A f \in fds : fd <= f}

(* main() up to its loop.  connectToService() is called once; without the  *)
(* next daemon it fails and the process exits.                             *)
Start(p) ==
    LET k == <<p, starts[p] + 1>> IN
    /\ daemon[p].pc = "down"
    /\ starts[p] < MaxStarts
    /\ starts' = [starts EXCEPT ![p] = @ + 1]
    /\ \/ /\ p \in Relays
          /\ daemon[Up(p)].pc # "down"
          /\ \E fd \in Lowest(Fds) :
                 daemon' = [daemon EXCEPT ![p] =
                     [Off EXCEPT !.pc = "loop", !.upFd = fd, !.fds[fd] = k]]
          /\ view' = [view EXCEPT ![k] = Connected]
       \/ /\ p = "service"
          /\ daemon' = [daemon EXCEPT ![p].pc = "loop"]
          /\ UNCHANGED view
    /\ UNCHANGED <<kills, chan, asked, got>>

(* An operator, or an assertion of the login service *)
Kill(p) ==
    /\ p \in Mortal
    /\ daemon[p].pc # "down"
    /\ kills < MaxKills
    /\ kills' = kills + 1
    /\ Dies(p)
    /\ UNCHANGED <<starts, asked, got>>

--------------------------------------------------------------------------------
(* The event loop *)

Backlog(p) == {k \in Links : /\ End(k, "upper") = p
                             /\ view[k].lower = "open"
                             /\ k \notin Range(daemon[p].fds)}

(* accept() takes the lowest free descriptor *)
DealConnectRequest(p) ==
    LET free == {fd \in Fds : daemon[p].fds[fd] = NoLink} IN
    /\ daemon[p].pc = "loop"
    /\ \E k \in Backlog(p), fd \in Lowest(free) :
          daemon' = [daemon EXCEPT ![p].fds[fd] = k]
    /\ UNCHANGED <<starts, kills, view, chan, asked, got>>

(* dealReadEvent() for any descriptor, that of the next daemon included *)
ReadData(p, fd) ==
    LET k == daemon[p].fds[fd]
        s == Side(p, k) IN
    /\ chan[k][s] # << >>
    /\ daemon' = [daemon EXCEPT ![p].block[fd] = Head(chan[k][s])]
    /\ chan' = [chan EXCEPT ![k][s] = << >>]
    /\ UNCHANGED view
ReadEnd(p, fd) ==
    LET k == daemon[p].fds[fd]
        s == Side(p, k) IN
    /\ chan[k][s] = << >>
    /\ \/ /\ view[k][s] \in {"fin", "broken"}
          /\ daemon' = [daemon EXCEPT ![p].fds[fd] = NoLink]
          /\ view' = [view EXCEPT ![k][Other(s)] = "fin"]
          /\ UNCHANGED chan
       \/ Refused(p, k) /\ UNCHANGED daemon
DealReadEvent(p, fd) ==
    /\ daemon[p].pc = "loop"
    /\ daemon[p].fds[fd] # NoLink
    /\ daemon[p].block[fd] = NoMessage
    /\ fd \notin daemon[p].freed
    /\ ReadData(p, fd) \/ ReadEnd(p, fd)
    /\ UNCHANGED <<starts, kills, asked, got>>

(* dealWriteEvent() after the handler: free(), and back to EPOLLIN only if *)
(* the handler succeeded.  If it failed, the registration keeps pointing   *)
(* to the block.  malloc() may give that block to any later read(), whose  *)
(* handler frees it in turn: what it holds is then what one of the blocks  *)
(* freed since has held.  A second free() of a block aborts the process.   *)
HandlerReturns(p, fd, m, doomed, ok) ==
    LET stale == IF ok THEN daemon[p].freed ELSE daemon[p].freed \cup {fd}
        waste == daemon[p].waste \cup {[fd |-> fd, message |-> m]} IN
    \/ /\ ~doomed
       /\ daemon' = [daemon EXCEPT
              ![p].pc = "loop", ![p].to = 0, ![p].message = NoMessage, ![p].response = NoMessage,
              ![p].block[fd] = NoMessage,
              ![p].freed = stale,
              ![p].waste = IF stale = {} THEN {} ELSE waste]
    \/ /\ doomed
       /\ daemon' = [daemon EXCEPT ![p].pc = "abort", ![p].doomed = TRUE]
Aborts(p) == /\ daemon[p].pc = "abort"
             /\ Dies(p)
             /\ UNCHANGED <<starts, kills, asked, got>>

(* dealClientMessage() up to its read().  The number upFd may be closed by *)
(* now, or be that of another connection.                                  *)
Forwards(p, fd, m, doomed) ==
    LET k == daemon[p].fds[daemon[p].upFd] IN
    /\ p = "dispatcher" => m.kind = "request"
    /\ k # NoLink
    /\ \/ /\ Written(p, k, m)
          /\ daemon' = [daemon EXCEPT ![p].pc = "read", ![p].to = fd,
                                      ![p].message = m, ![p].doomed = doomed]
       \/ view[k][Side(p, k)] = "broken" /\ Dies(p)
CannotForward(p, fd, m, doomed) ==
    LET k == daemon[p].fds[daemon[p].upFd] IN
    /\ \/ /\ \/ k = NoLink
             \/ p = "dispatcher" /\ m.kind # "request"
          /\ UNCHANGED <<view, chan>>
       \/ k # NoLink /\ Refused(p, k)
    /\ HandlerReturns(p, fd, m, doomed, FALSE)
(* Mutant of Serves: the response has no msg item *)
ServesWithoutMsg(p, fd, m, doomed) ==
    /\ daemon' = [daemon EXCEPT ![p].pc = "answer", ![p].to = fd,
                                ![p].message = m, ![p].doomed = doomed,
                                ![p].response = [m EXCEPT !.kind = "none"]]
    /\ UNCHANGED <<view, chan>>

(* userLoginService's dealClientMessage(), which is LoginService *)
Serves(p, fd, m, doomed) ==
    /\ daemon' = [daemon EXCEPT ![p].pc = "answer", ![p].to = fd,
                                ![p].message = m, ![p].doomed = doomed,
                                ![p].response = [m EXCEPT !.kind = "answer"]]
    /\ UNCHANGED <<view, chan>>

Handles(p, fd, m, doomed) == \/ p = "service" /\ Serves(p, fd, m, doomed)
                             \/ p \in Relays /\ Forwards(p, fd, m, doomed)
                             \/ p \in Relays /\ CannotForward(p, fd, m, doomed)

(* dealWriteEvent() *)
DealWriteEvent(p, fd) ==
    /\ daemon[p].pc = "loop"
    /\ daemon[p].block[fd] # NoMessage
    /\ Handles(p, fd, daemon[p].block[fd], FALSE)
    /\ UNCHANGED <<starts, kills, asked, got>>

(* dealWriteEvent() with a block that has been freed.  It takes descriptor *)
(* and message from what the block holds now; text that is no JSON is a    *)
(* NULL dereference.  (While the block is another read()'s and not freed   *)
(* yet, the stale event does what the event of that block does.)           *)
UseAfterFree(p) ==
    /\ daemon[p].pc = "loop"
    /\ daemon[p].freed # {}
    /\ \/ Dies(p)
       \/ \E w \in daemon[p].waste : Handles(p, w.fd, w.message, TRUE)
    /\ UNCHANGED <<starts, kills, asked, got>>

--------------------------------------------------------------------------------
(* The rest of dealClientMessage() *)

HandlerEnds(p, ok) == HandlerReturns(p, daemon[p].to, daemon[p].message, daemon[p].doomed, ok)

(* Mutant of ReadResponse: the response stays in the socket buffer *)
ReadResponsePeek(p) ==
    LET k == daemon[p].fds[daemon[p].upFd]
        s == Side(p, k) IN
    /\ daemon[p].pc = "read"
    /\ chan[k][s] # << >>
    /\ daemon' = [daemon EXCEPT ![p].pc = "answer", ![p].response = Head(chan[k][s])]
    /\ UNCHANGED <<starts, kills, view, chan, asked, got>>

(* The blocking read() from the next daemon; a closed connection is an     *)
(* empty response.                                                         *)
ReadResponse(p) ==
    LET k == daemon[p].fds[daemon[p].upFd]
        s == Side(p, k) IN
    /\ daemon[p].pc = "read"
    /\ \/ /\ chan[k][s] # << >>
          /\ daemon' = [daemon EXCEPT ![p].pc = "answer",
                                      ![p].response = Head(chan[k][s])]
          /\ chan' = [chan EXCEPT ![k][s] = << >>]
          /\ UNCHANGED view
       \/ /\ chan[k][s] = << >>
          /\ view[k][s] \in {"fin", "broken"}
          /\ daemon' = [daemon EXCEPT ![p].pc = "answer", ![p].response = NoMessage]
          /\ UNCHANGED <<view, chan>>
       \/ /\ chan[k][s] = << >>
          /\ Refused(p, k)
          /\ HandlerEnds(p, FALSE)
    /\ UNCHANGED <<starts, kills, asked, got>>

(* Mutant of WriteResponse: the dispatcher does not pass the answer on *)
WriteResponseNot(p) ==
    LET k == daemon[p].fds[daemon[p].to] IN
    /\ daemon[p].pc = "answer"
    /\ \/ /\ p = "dispatcher"
          /\ UNCHANGED <<view, chan>>
       \/ /\ p # "dispatcher"
          /\ daemon[p].response # NoMessage
          /\ k # NoLink
          /\ Written(p, k, daemon[p].response)
    /\ HandlerEnds(p, TRUE)
    /\ UNCHANGED <<starts, kills, asked, got>>

(* The answer to the client, or what passes for one: write() of m to k.    *)
(* One of 0 bytes sends nothing but fails like any other.                  *)
PassOn(p, k, m) ==
    \/ /\ m # NoMessage /\ k # NoLink
       /\ Written(p, k, m)
       /\ HandlerEnds(p, TRUE)
    \/ /\ m = NoMessage /\ k # NoLink
       /\ view[k][Side(p, k)] \in {"open", "fin"}
       /\ HandlerEnds(p, TRUE)
       /\ UNCHANGED <<view, chan>>
    \/ /\ k # NoLink
       /\ Refused(p, k)
       /\ HandlerEnds(p, FALSE)
    \/ /\ k # NoLink
       /\ view[k][Side(p, k)] = "broken"
       /\ Dies(p)
    \/ /\ k = NoLink
       /\ HandlerEnds(p, FALSE)
       /\ UNCHANGED <<view, chan>>

(* The dispatcher passes on what it has read, and so does the service what *)
(* it has made.  The receiver parses its response: an empty one is no JSON *)
(* and its cJSON_GetObjectItem() a NULL dereference, one without msg is an *)
(* error.                                                                  *)
WriteResponse(p) ==
    LET m == daemon[p].response IN
    /\ daemon[p].pc = "answer"
    /\ \/ /\ p = "receiver" => m.kind = "answer"
          /\ PassOn(p, daemon[p].fds[daemon[p].to], m)
       \/ /\ p = "receiver"
          /\ m.kind = "request"
          /\ HandlerEnds(p, FALSE)
          /\ UNCHANGED <<view, chan>>
       \/ /\ p = "receiver"
          /\ m = NoMessage
          /\ Dies(p)
    /\ UNCHANGED <<starts, kills, asked, got>>

--------------------------------------------------------------------------------
Step(p) == \/ DealConnectRequest(p)
           \/ \E fd \in Fds : DealReadEvent(p, fd) \/ DealWriteEvent(p, fd)
           \/ UseAfterFree(p)
           \/ ReadResponse(p)
           \/ WriteResponse(p)
           \/ Aborts(p)

Next == \/ \E p \in Daemons : Start(p) \/ Kill(p) \/ Step(p)
        \/ \E c \in Clients : Connect(c) \/ Send(c) \/ Prints(c) \/ Leave(c)

(* The daemons run as long as one of them can.  Nobody has to kill or to   *)
(* start one, and clients owe nothing.                                     *)
Spec == Init /\ [][Next]_vars /\ WF_vars(\E p \in Daemons : Step(p))

--------------------------------------------------------------------------------
(* Properties *)

Processes == [pc : {"down", "loop", "read", "answer", "abort"}, upFd : Fds \cup {0},
              fds : [Fds -> Links \cup {NoLink}],
              block : [Fds -> Messages \cup {NoMessage}], freed : SUBSET Fds,
              waste : SUBSET [fd : Fds, message : Messages],
              to : Fds \cup {0}, message : Messages \cup {NoMessage}, doomed : BOOLEAN,
              response : Messages \cup {NoMessage}]

(* Types of the processes, the connections and what is on them. *)
TypeOK ==
    /\ daemon \in [Daemons -> Processes]
    /\ starts \in [Daemons -> 0 .. MaxStarts]
    /\ kills \in 0 .. MaxKills
    /\ view \in [Links -> [Sides -> {"none", "open", "fin", "reset", "broken"}]]
    /\ chan \in [Links -> [Sides -> Seq(Messages)]]
    /\ asked \in [Clients -> Nat]
    /\ got \in [Clients -> Nat]

(* "Send the response to the client" (messageDispatcher.cpp:84,            *)
(* messageReceiver.cpp:69): an answer on a client's connection is the      *)
(* answer to a request of that client, and each request is answered at     *)
(* most once and in order, for as long as the receiver has not used a      *)
(* freed block; that may be some client's request of before, and kills the *)
(* receiver.  Freed blocks of the other daemons do no harm.                *)
(* Nothing in a message ties it to its request: that rests on the relays   *)
(* waiting, through deaths, restarts and reused descriptors.               *)
AnswersOwnRequests ==
    \A c \in Clients : \A i \in DOMAIN chan[c].lower :
        LET m == chan[c].lower[i] IN
        m.kind = "answer" /\ view[c].lower = "open" /\ ~daemon["receiver"].doomed =>
            /\ m.client = c
            /\ got[c] < m.n /\ m.n <= asked[c]
            /\ \A j \in 1 .. i - 1 : chan[c].lower[j].kind = "answer"
                                        => chan[c].lower[j].n < m.n

(* "Send the information to messageDispatcherService"                      *)
(* (messageReceiver.cpp:52): a client is never sent a request.             *)
RequestsStayInside ==
    \A c \in Clients : \A i \in DOMAIN chan[c].lower : chan[c].lower[i].kind = "answer"

Waiting == daemon["receiver"].pc = "read"

(* The receiver waits on a connection on which nothing will come: the      *)
(* dispatcher has "answered" with nothing.                                 *)
Unanswered ==
    LET k == Own("receiver")
        d == daemon["dispatcher"] IN
    /\ Waiting
    /\ view[k] = Connected
    /\ chan[k] = [s \in Sides |-> << >>]
    /\ d.pc = "loop"
    /\ d.freed = {}
    /\ \A fd \in Fds : d.fds[fd] = k => d.block[fd] = NoMessage
ServiceDied == daemon["service"].pc = "down" \/ starts["service"] > 1

(* Each relay of the chain is connected to the next daemon *)
Intact == /\ daemon["service"].pc # "down"
          /\ \A p \in Relays : daemon[p].pc # "down" /\ view[Own(p)] = Connected

(* The newest request of c has no answer yet *)
Owed(c) == /\ view[c] = Connected
           /\ got[c] < asked[c]
           /\ \A i \in DOMAIN chan[c].lower : chan[c].lower[i].n < asked[c]

(* The receiver serves nobody while it waits.  It stops waiting and every  *)
(* client has its answer, in a second run of the daemons as in the first,  *)
(* unless the login service died under the request, the number of the      *)
(* dispatcher's connection is by now a client's, or the chain is broken    *)
(* with nobody waiting.  There is no other way to wait for ever.           *)
NobodyWaitsForever ==
    LET r == daemon["receiver"] IN
    Waiting \/ (\E c \in Clients : Owed(c)) ~>
        \/ ~Waiting /\ (\A c \in Clients : ~Owed(c))
        \/ ~Waiting /\ ~Intact
        \/ Unanswered /\ ServiceDied
        \/ Waiting /\ r.fds[r.upFd] \in Clients
================================================================================
