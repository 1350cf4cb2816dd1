------------------------------ MODULE RelayProofs ------------------------------
(***************************************************************************)
(* Proofs about Relay for any number of clients, descriptors, requests,    *)
(* starts and kills, and any daemons that may be killed.                   *)
(***************************************************************************)
EXTENDS Relay, SequenceTheorems, TLAPS

--------------------------------------------------------------------------------
(* The inductive invariant, in named parts. *)

Running(p) == daemon[p].pc # "down"

(* The connection to the next daemon is still the one upFd was made for.   *)
(* Once lost it stays lost, and p passes no answer on any more.            *)
Sound(p) == p = "service" \/ (Running(p) /\ daemon[p].fds[daemon[p].upFd] = Own(p))

AnswerTo(m) == [m EXCEPT !.kind = "answer"]

(* The handler at work has its block, or a freed one. *)
HandlerOK(d) ==
    /\ d.pc \in {"read", "answer"} =>
          /\ d.to \in Fds /\ d.message # NoMessage /\ d.message.kind = "request"
          /\ ~d.doomed => d.message = d.block[d.to]
          /\ d.doomed => \E w \in d.waste : w.fd = d.to
    /\ d.pc \in {"down", "loop"} => ~d.doomed

(* What each process keeps: a block holds or held a request; a connection  *)
(* has one descriptor, and only upFd can be the one p made itself.         *)
ProcessOK(p) ==
    LET d == daemon[p] IN
    /\ Running(p) /\ p \in Relays => starts[p] > 0 /\ d.upFd \in Fds
    /\ HandlerOK(d)
    /\ d.pc = "read" => p \in Relays /\ d.fds[d.upFd] # NoLink
    /\ \A w \in d.waste : w.message.kind = "request"
    /\ \A f \in Fds : d.block[f] # NoMessage => d.fds[f] # NoLink /\ d.block[f].kind = "request"
    /\ \A f, g \in Fds : d.fds[f] = d.fds[g] /\ d.fds[f] # NoLink => f = g
    /\ \A f \in Fds : \/ d.fds[f] = NoLink
                      \/ End(d.fds[f], "upper") = p
                      \/ p \in Relays /\ Running(p) /\ d.fds[f] = Own(p) /\ f = d.upFd

(* The answer p has is to the message it handles, and p is connected to    *)
(* the daemon it came from.                                                *)
ResponseOK(p) ==
    LET d == daemon[p] IN
    d.pc = "answer" =>
        /\ d.response.kind = "answer" =>
              /\ Sound(p)
              /\ d.response = AnswerTo(d.message)
              /\ p \in Relays => d.fds[d.to] # Own(p)
        /\ d.response.kind = "request" /\ p # "receiver" => ~Sound(p)

(* An empty response is the end of the connection to the next daemon.  The *)
(* service has no handler that fails, and the dispatcher only after it has *)
(* lost the service: what it does with a freed block brings no answer.     *)
Lost(p) == p \in Relays /\ (Sound(p) => view[Own(p)].lower # "open")
NoAnswer(p) ==
    \A i \in DOMAIN chan[Own(p)].lower : chan[Own(p)].lower[i].kind # "answer"
FreedOK(p) ==
    LET d == daemon[p] IN
    /\ ~Running(p) => d.freed = {}
    /\ d.pc = "answer" /\ d.response = NoMessage => Lost(p)
    /\ Running(p) /\ p # "receiver" /\ (d.freed # {} \/ d.doomed) =>
          /\ Lost(p)
          /\ d.response.kind # "answer"
          /\ NoAnswer(p)

(* Who sees a connection open: its upper end only while the run that made  *)
(* it holds it, its lower end only while the daemon it leads to runs, and  *)
(* as long as that daemon has a descriptor for it.                         *)
ViewOK(k) ==
    /\ k \notin Clients /\ view[k].upper = "open" =>
          /\ Running(k[1]) /\ k = Own(k[1])
          /\ daemon[k[1]].fds[daemon[k[1]].upFd] = k
    /\ view[k].lower = "open" => Running(End(k, "upper"))
    /\ \A f \in Fds : daemon[End(k, "upper")].fds[f] = k => view[k].lower = "open"

(* What is sent to a closed end is lost.  A relay that dies with an answer *)
(* unread has no request left above.                                       *)
ResetOK(k) ==
    /\ view[k].lower # "open" => chan[k].upper = << >>
    /\ k \notin Clients /\ view[k].upper = "reset" =>
          /\ ~(Running(k[1]) /\ k = Own(k[1]))
          /\ Sound(End(k, "upper")) =>
                /\ chan[k].upper = << >>
                /\ \A f \in Fds : daemon[End(k, "upper")].fds[f] = k =>
                                     daemon[End(k, "upper")].block[f] = NoMessage

(* Only requests go up, and a connection yet to be made is empty. *)
TrafficOK(k) ==
    /\ \A i \in DOMAIN chan[k].upper : chan[k].upper[i].kind = "request"
    /\ k \notin Clients /\ k[2] > starts[k[1]] =>
          view[k].lower # "open" /\ chan[k].upper = << >> /\ chan[k].lower = << >>

(* p and the daemon above it are in touch, and that daemon with the next *)
InTouch(p) == view[Own(p)].lower = "open" /\ view[Own(p)].upper = "open" /\ Sound(Up(p))

Awaits(p, m) == daemon[p].pc = "read" /\ daemon[p].message = m

(* While p is in touch there is at most one request or answer between it   *)
(* and the daemon above it, and it belongs to the message p waits for an   *)
(* answer to: in the connection, in that daemon's block, ...               *)
RequestSent(p) ==
    InTouch(p) /\ chan[Own(p)].upper # << >> =>
        /\ chan[Own(p)].lower = << >>
        /\ Len(chan[Own(p)].upper) = 1 /\ Awaits(p, chan[Own(p)].upper[1])
        /\ \A f \in Fds : daemon[Up(p)].fds[f] = Own(p) => daemon[Up(p)].block[f] = NoMessage
RequestHeld(p) ==
    InTouch(p) => \A f \in Fds :
        daemon[Up(p)].fds[f] = Own(p) /\ daemon[Up(p)].block[f] # NoMessage =>
            Awaits(p, daemon[Up(p)].block[f]) /\ chan[Own(p)].lower = << >>
(* ... or back in the connection.  An answer finds p waiting for it, even  *)
(* when the two are no longer in touch.                                    *)
AnswerSent(p) ==
    /\ InTouch(p) /\ chan[Own(p)].lower # << >> => daemon[p].pc = "read"
    /\ \A i \in DOMAIN chan[Own(p)].lower : chan[Own(p)].lower[i].kind = "answer" =>
          /\ i = 1
          /\ daemon[p].pc = "read"
          /\ daemon[p].fds[daemon[p].upFd] = Own(p)
          /\ chan[Own(p)].lower[i] = AnswerTo(daemon[p].message)
(* A request comes back to p, to be read as an answer or by the event      *)
(* loop, only when the daemon above has lost its own connection.           *)
Back(p) == LET d == daemon[p] IN
           d.block[d.upFd] # NoMessage \/ \E w \in d.waste : w.fd = d.upFd
RequestBack(p) ==
    /\ \A i \in DOMAIN chan[Own(p)].lower : chan[Own(p)].lower[i].kind = "request" =>
          Up(p) # "service" /\ ~InTouch(p)
    /\ daemon[p].fds[daemon[p].upFd] = Own(p) /\ Back(p) =>
          /\ ~InTouch(p)
          /\ \A i \in DOMAIN chan[Own(p)].lower : chan[Own(p)].lower[i].kind # "answer"
ExchangeOK(p) ==
    Running(p) => RequestSent(p) /\ RequestHeld(p) /\ AnswerSent(p) /\ RequestBack(p)

(* A client's requests are numbered: what it has been answered, what is on *)
(* the way to it, what the receiver works on and what it has just written  *)
(* are in this order, until the receiver uses a freed block.               *)
AnsweredBefore(c, n) ==
    /\ got[c] < n
    /\ \A i \in DOMAIN chan[c].lower :
          chan[c].lower[i].kind = "answer" => chan[c].lower[i].n < n
AnswersOK(c) ==
    \A i \in DOMAIN chan[c].lower : chan[c].lower[i].kind = "answer" =>
        /\ chan[c].lower[i].client = c
        /\ got[c] < chan[c].lower[i].n /\ chan[c].lower[i].n <= asked[c]
        /\ \A j \in 1 .. i - 1 : chan[c].lower[j].kind = "answer" =>
              chan[c].lower[j].n < chan[c].lower[i].n
BlocksOK(c) ==
    LET r == daemon["receiver"] IN
    \A f \in Fds : r.fds[f] = c /\ r.block[f] # NoMessage =>
        /\ r.block[f].client = c
        /\ r.block[f].n <= asked[c]
        /\ AnsweredBefore(c, r.block[f].n)
SentOK(c) ==
    LET r == daemon["receiver"] IN
    chan[c].upper # << >> =>
        /\ chan[c].upper = <<[kind |-> "request", client |-> c, n |-> asked[c]]>>
        /\ AnsweredBefore(c, asked[c])
        /\ \A f \in Fds : r.fds[f] = c /\ r.block[f] # NoMessage => r.block[f].n < asked[c]
Trusted(c) == \/ view[c].lower = "none"
              \/ view[c].lower = "open" /\ ~daemon["receiver"].doomed
ClientOK(c) == Trusted(c) => got[c] <= asked[c] /\ AnswersOK(c) /\ BlocksOK(c) /\ SentOK(c)

(* The inductive invariant of AnswersOwnRequests: wherever the daemons are *)
(* killed and started again between write() and read() of a                *)
(* dealClientMessage(), a relay in touch with the daemon above it has at   *)
(* most one request there, its own, and an answer is passed on only over   *)
(* the connection its request went out on.                                 *)
CoreInv == /\ TypeOK
           /\ \A p \in Daemons : ProcessOK(p) /\ ResponseOK(p)
           /\ \A k \in Links : ViewOK(k) /\ TrafficOK(k)
           /\ \A p \in Relays : ExchangeOK(p)
           /\ \A c \in Clients : ClientOK(c)
LossInv == /\ \A p \in Daemons : FreedOK(p)
           /\ \A k \in Links : ResetOK(k)
RelayInv == CoreInv /\ LossInv

--------------------------------------------------------------------------------
(* The ends of a connection. *)

(* The daemon above a relay is another one. *)
LEMMA UpFacts ==
    ASSUME NEW p \in Relays
    PROVE  /\ Up(p) \in Daemons /\ Up(p) # p /\ p \in Daemons
           /\ p # "service" /\ Up(p) # "receiver"
           /\ \A q \in Relays : Up(q) = Up(p) => q = p
  BY DEF Up, Relays, Daemons

(* A connection is a client's, which leads to the receiver, or one run's   *)
(* of a relay, which leads to the daemon above it.                         *)
LEMMA Ends ==
    ASSUME NEW k \in Links
    PROVE  /\ k # NoLink
           /\ k \in Clients => End(k, "lower") = k /\ End(k, "upper") = "receiver" /\ k \notin Daemons
           /\ k \notin Clients => /\ k[1] \in Relays /\ k[2] \in 1 .. MaxStarts /\ k = <<k[1], k[2]>>
                                  /\ End(k, "lower") = k[1] /\ End(k, "upper") = Up(k[1])
           /\ End(k, "upper") \in Daemons
  <1>1. k # NoLink
    BY NoLinkAssumption DEF Links
  <1>2. k \in Clients => End(k, "lower") = k /\ End(k, "upper") = "receiver" /\ k \notin Daemons
    BY ClientsAssumption DEF End
  <1>3. ASSUME k \notin Clients
        PROVE  /\ k[1] \in Relays /\ k[2] \in 1 .. MaxStarts /\ k = <<k[1], k[2]>>
               /\ End(k, "lower") = k[1] /\ End(k, "upper") = Up(k[1])
    <2>1. k \in Relays \X (1 .. MaxStarts)
      BY <1>3 DEF Links
    <2> QED BY <1>3, <2>1 DEF End
  <1>4. End(k, "upper") \in Daemons
    BY <1>2, <1>3, UpFacts DEF Daemons, Relays
  <1> QED BY <1>1, <1>2, <1>3, <1>4

(* A run of a relay is the lower end of its own connection. *)
LEMMA RunLink ==
    ASSUME NEW p \in Relays, NEW n \in 1 .. MaxStarts
    PROVE  /\ <<p, n>> \in Links /\ <<p, n>> \notin Clients /\ <<p, n>> # NoLink
           /\ <<p, n>>[1] = p /\ <<p, n>>[2] = n
           /\ End(<<p, n>>, "lower") = p /\ End(<<p, n>>, "upper") = Up(p)
  <1>1. <<p, n>> \in Relays \X (1 .. MaxStarts) /\ <<p, n>>[1] = p /\ <<p, n>>[2] = n
    OBVIOUS
  <1>2. <<p, n>> \in Links /\ <<p, n>> \notin Clients
    BY <1>1, ClientsAssumption DEF Links
  <1> QED BY <1>1, <1>2, Ends

(* So it is for the current run. *)
LEMMA OwnLink ==
    ASSUME TypeOK, NEW p \in Relays, Running(p), ProcessOK(p)
    PROVE  /\ Own(p) \in Links /\ Own(p) \notin Clients /\ Own(p) # NoLink
           /\ Own(p)[1] = p /\ Own(p)[2] = starts[p]
           /\ End(Own(p), "lower") = p /\ End(Own(p), "upper") = Up(p)
  <1>1. starts[p] \in 1 .. MaxStarts
    BY BoundsAssumption, UpFacts DEF TypeOK, ProcessOK
  <1> QED BY <1>1, RunLink DEF Own

(* The types of a process's parts. *)
LEMMA ProcessType ==
    ASSUME TypeOK, NEW p \in Daemons
    PROVE  /\ daemon[p] \in Processes
           /\ daemon[p].pc \in {"down", "loop", "read", "answer", "abort"}
           /\ daemon[p].upFd \in Fds \cup {0}
           /\ daemon[p].fds \in [Fds -> Links \cup {NoLink}]
           /\ daemon[p].block \in [Fds -> Messages \cup {NoMessage}]
           /\ daemon[p].freed \in SUBSET Fds
           /\ daemon[p].waste \in SUBSET [fd : Fds, message : Messages]
           /\ daemon[p].to \in Fds \cup {0}
           /\ daemon[p].message \in Messages \cup {NoMessage}
           /\ daemon[p].doomed \in BOOLEAN
           /\ daemon[p].response \in Messages \cup {NoMessage}
  <1>1. daemon[p] \in Processes
    BY DEF TypeOK
  <1> QED BY <1>1 DEF Processes

(* The end of a connection that p holds: the lower one of its own, the     *)
(* upper one of the others.                                                *)
LEMMA SideOf ==
    ASSUME TypeOK, NEW p \in Daemons, ProcessOK(p), NEW f \in Fds,
           NEW k, k = daemon[p].fds[f], k # NoLink
    PROVE  /\ k \in Links
           /\ Side(p, k) \in Sides
           /\ \/ /\ Side(p, k) = "lower" /\ Other(Side(p, k)) = "upper"
                 /\ p \in Relays /\ Running(p) /\ k = Own(p) /\ f = daemon[p].upFd
                 /\ End(k, "upper") # p
              \/ /\ Side(p, k) = "upper" /\ Other(Side(p, k)) = "lower"
                 /\ End(k, "upper") = p
                 /\ p \in Relays /\ Running(p) => k # Own(p)
  <1>1. k \in Links
    BY ProcessType
  <1>2. CASE p \in Relays /\ Running(p) /\ k = Own(p)
    <2>1. End(k, "lower") = p /\ End(k, "upper") = Up(p)
      BY <1>2, OwnLink
    <2>2. f = daemon[p].upFd
      BY <1>2, <2>1, UpFacts DEF ProcessOK
    <2> QED BY <1>1, <1>2, <2>1, <2>2, UpFacts DEF Side, Other, Sides
  <1>3. CASE ~(p \in Relays /\ Running(p) /\ k = Own(p))
    <2>1. End(k, "upper") = p
      BY <1>3 DEF ProcessOK
    <2>2. End(k, "lower") # p
      BY <1>1, <2>1, Ends, UpFacts
    <2> QED BY <1>1, <1>3, <2>1, <2>2 DEF Side, Other, Sides
  <1> QED BY <1>2, <1>3

--------------------------------------------------------------------------------
(* What the actions do to a process, field by field. *)

Others(p) == \A q \in Daemons : q # p => daemon'[q] = daemon[q]
Becomes(p, pc, fds, block) ==
    /\ daemon' \in [Daemons -> Processes]
    /\ Others(p)
    /\ daemon'[p].pc = pc /\ daemon'[p].upFd = daemon[p].upFd
    /\ daemon'[p].fds = fds /\ daemon'[p].block = block
Remembers(p, to, message, doomed, response) ==
    /\ daemon'[p].to = to /\ daemon'[p].message = message /\ daemon'[p].doomed = doomed
    /\ daemon'[p].response = response
Wastes(p, freed, waste) == daemon'[p].freed = freed /\ daemon'[p].waste = waste
WastesNothing(p) == Wastes(p, daemon[p].freed, daemon[p].waste)
WastesOne(p, fd, m) ==
    \A w \in daemon'[p].waste : w \in daemon[p].waste \/ w = [fd |-> fd, message |-> m]
ForgetsNothing(p) ==
    Remembers(p, daemon[p].to, daemon[p].message, daemon[p].doomed, daemon[p].response)

(* A step replaces one process. *)
LEMMA OneProcess ==
    ASSUME TypeOK, NEW p \in Daemons, NEW new \in Processes, daemon' = [daemon EXCEPT ![p] = new]
    PROVE  daemon' \in [Daemons -> Processes] /\ Others(p) /\ daemon'[p] = new
  BY DEF TypeOK, Others

(* accept() and close() change one descriptor. *)
LEMMA AcceptEffect ==
    ASSUME TypeOK, NEW p \in Daemons, NEW fd \in Fds, NEW k \in Links \cup {NoLink},
           daemon' = [daemon EXCEPT ![p].fds[fd] = k]
    PROVE  /\ Becomes(p, daemon[p].pc, [daemon[p].fds EXCEPT ![fd] = k], daemon[p].block)
           /\ ForgetsNothing(p) /\ WastesNothing(p)
  <1> DEFINE fds == [daemon[p].fds EXCEPT ![fd] = k]
             new == [daemon[p] EXCEPT !.fds = fds]
  <1>1. daemon' = [daemon EXCEPT ![p] = new]
    OBVIOUS
  <1>2. fds \in [Fds -> Links \cup {NoLink}]
    BY ProcessType
  <1> HIDE DEF fds
  <1>3. /\ new \in Processes /\ new.pc = daemon[p].pc /\ new.upFd = daemon[p].upFd /\ new.fds = fds
        /\ new.block = daemon[p].block /\ new.to = daemon[p].to /\ new.response = daemon[p].response
        /\ new.message = daemon[p].message /\ new.doomed = daemon[p].doomed
        /\ new.freed = daemon[p].freed /\ new.waste = daemon[p].waste
    BY <1>2, ProcessType DEF Processes
  <1> HIDE DEF new
  <1> QED BY <1>1, <1>3, OneProcess DEF Becomes, Remembers, ForgetsNothing, Wastes, WastesNothing, fds

(* dealReadEvent() fills the block of one descriptor. *)
LEMMA ReadEffect ==
    ASSUME TypeOK, NEW p \in Daemons, NEW fd \in Fds, NEW m \in Messages,
           daemon' = [daemon EXCEPT ![p].block[fd] = m]
    PROVE  /\ Becomes(p, daemon[p].pc, daemon[p].fds, [daemon[p].block EXCEPT ![fd] = m])
           /\ ForgetsNothing(p) /\ WastesNothing(p)
  <1> DEFINE block == [daemon[p].block EXCEPT ![fd] = m]
             new == [daemon[p] EXCEPT !.block = block]
  <1>1. daemon' = [daemon EXCEPT ![p] = new]
    OBVIOUS
  <1>2. block \in [Fds -> Messages \cup {NoMessage}]
    BY ProcessType
  <1> HIDE DEF block
  <1>3. /\ new \in Processes /\ new.pc = daemon[p].pc /\ new.upFd = daemon[p].upFd /\ new.block = block
        /\ new.fds = daemon[p].fds /\ new.to = daemon[p].to /\ new.response = daemon[p].response
        /\ new.message = daemon[p].message /\ new.doomed = daemon[p].doomed
        /\ new.freed = daemon[p].freed /\ new.waste = daemon[p].waste
    BY <1>2, ProcessType DEF Processes
  <1> HIDE DEF new
  <1> QED BY <1>1, <1>3, OneProcess DEF Becomes, Remembers, ForgetsNothing, Wastes, WastesNothing, block

(* A handler that has written to the next daemon waits in read(). *)
LEMMA ForwardEffect ==
    ASSUME TypeOK, NEW p \in Daemons, NEW fd \in Fds, NEW m \in Messages, NEW doomed \in BOOLEAN,
           daemon' = [daemon EXCEPT ![p].pc = "read", ![p].to = fd, ![p].message = m,
                                    ![p].doomed = doomed]
    PROVE  /\ Becomes(p, "read", daemon[p].fds, daemon[p].block)
           /\ Remembers(p, fd, m, doomed, daemon[p].response) /\ WastesNothing(p)
  <1> DEFINE new == [daemon[p] EXCEPT !.pc = "read", !.to = fd, !.message = m, !.doomed = doomed]
  <1>1. daemon' = [daemon EXCEPT ![p] = new]
    BY DEF TypeOK
  <1>2. /\ new \in Processes /\ new.pc = "read" /\ new.upFd = daemon[p].upFd /\ new.fds = daemon[p].fds
        /\ new.block = daemon[p].block /\ new.to = fd /\ new.message = m /\ new.doomed = doomed
        /\ new.response = daemon[p].response
        /\ new.freed = daemon[p].freed /\ new.waste = daemon[p].waste
    BY ProcessType DEF Processes
  <1> HIDE DEF new
  <1> QED BY <1>1, <1>2, OneProcess DEF Becomes, Remembers, Wastes, WastesNothing

(* The login service has its answer, *)
LEMMA ServeEffect ==
    ASSUME TypeOK, NEW p \in Daemons, NEW fd \in Fds, NEW m \in Messages, NEW doomed \in BOOLEAN,
           NEW a \in Messages,
           daemon' = [daemon EXCEPT ![p].pc = "answer", ![p].to = fd, ![p].message = m,
                                    ![p].doomed = doomed, ![p].response = a]
    PROVE  /\ Becomes(p, "answer", daemon[p].fds, daemon[p].block)
           /\ Remembers(p, fd, m, doomed, a) /\ WastesNothing(p)
  <1> DEFINE new == [daemon[p] EXCEPT !.pc = "answer", !.to = fd, !.message = m, !.doomed = doomed,
                                      !.response = a]
  <1>1. daemon' = [daemon EXCEPT ![p] = new]
    BY DEF TypeOK
  <1>2. /\ new \in Processes /\ new.pc = "answer" /\ new.upFd = daemon[p].upFd
        /\ new.fds = daemon[p].fds /\ new.block = daemon[p].block /\ new.to = fd
        /\ new.message = m /\ new.doomed = doomed /\ new.response = a
        /\ new.freed = daemon[p].freed /\ new.waste = daemon[p].waste
    BY ProcessType DEF Processes
  <1> HIDE DEF new
  <1> QED BY <1>1, <1>2, OneProcess DEF Becomes, Remembers, Wastes, WastesNothing

(* or a relay has read one, or the end of the connection. *)
LEMMA ResponseEffect ==
    ASSUME TypeOK, NEW p \in Daemons, NEW a \in Messages \cup {NoMessage},
           daemon' = [daemon EXCEPT ![p].pc = "answer", ![p].response = a]
    PROVE  /\ Becomes(p, "answer", daemon[p].fds, daemon[p].block)
           /\ Remembers(p, daemon[p].to, daemon[p].message, daemon[p].doomed, a) /\ WastesNothing(p)
  <1> DEFINE new == [daemon[p] EXCEPT !.pc = "answer", !.response = a]
  <1>1. daemon' = [daemon EXCEPT ![p] = new]
    BY DEF TypeOK
  <1>2. /\ new \in Processes /\ new.pc = "answer" /\ new.upFd = daemon[p].upFd
        /\ new.fds = daemon[p].fds /\ new.block = daemon[p].block /\ new.to = daemon[p].to
        /\ new.message = daemon[p].message /\ new.doomed = daemon[p].doomed /\ new.response = a
        /\ new.freed = daemon[p].freed /\ new.waste = daemon[p].waste
    BY ProcessType DEF Processes
  <1> HIDE DEF new
  <1> QED BY <1>1, <1>2, OneProcess DEF Becomes, Remembers, Wastes, WastesNothing

(* The end of a handler: its block is freed, *)
LEMMA ReturnEffect ==
    ASSUME TypeOK, NEW p \in Daemons, NEW fd \in Fds, NEW m \in Messages, NEW ok \in BOOLEAN,
           HandlerReturns(p, fd, m, FALSE, ok)
    PROVE  /\ Becomes(p, "loop", daemon[p].fds, [daemon[p].block EXCEPT ![fd] = NoMessage])
           /\ Remembers(p, 0, NoMessage, daemon[p].doomed, NoMessage)
           /\ WastesOne(p, fd, m)
           /\ ok => daemon'[p].freed = daemon[p].freed
  <1> DEFINE freed == IF ok THEN daemon[p].freed ELSE daemon[p].freed \cup {fd}
             one == [fd |-> fd, message |-> m]
             waste == IF freed = {} THEN {} ELSE daemon[p].waste \cup {one}
  <1>0. daemon' = [daemon EXCEPT
            ![p].pc = "loop", ![p].to = 0, ![p].message = NoMessage, ![p].response = NoMessage,
            ![p].block[fd] = NoMessage, ![p].freed = freed,
            ![p].waste = waste]
    BY DEF HandlerReturns
  <1>00. waste = {} \/ waste = daemon[p].waste \cup {one}
    OBVIOUS
  <1> HIDE DEF freed, one, waste
  <1> DEFINE block == [daemon[p].block EXCEPT ![fd] = NoMessage]
             new == [daemon[p] EXCEPT !.pc = "loop", !.to = 0, !.message = NoMessage,
                                      !.response = NoMessage, !.block = block, !.freed = freed,
                                      !.waste = waste]
  <1>1. daemon' = [daemon EXCEPT ![p] = new]
    <2> DEFINE d1 == [daemon EXCEPT ![p].pc = "loop", ![p].to = 0, ![p].message = NoMessage,
                                    ![p].response = NoMessage]
               n1 == [daemon[p] EXCEPT !.pc = "loop", !.to = 0, !.message = NoMessage,
                                       !.response = NoMessage]
    <2>1. d1 = [daemon EXCEPT ![p] = n1]
      BY DEF TypeOK
    <2>2. daemon' = [d1 EXCEPT ![p].block[fd] = NoMessage, ![p].freed = freed, ![p].waste = waste]
      BY <1>0
    <2>3. new = [n1 EXCEPT !.block = block, !.freed = freed, !.waste = waste]
      OBVIOUS
    <2>4. n1.block = daemon[p].block /\ d1[p] = n1
      BY <2>1, ProcessType DEF TypeOK, Processes
    <2> HIDE DEF d1, n1, new
    <2>5. block = [n1.block EXCEPT ![fd] = NoMessage]
      BY <2>4
    <2> HIDE DEF block
    <2>6. daemon' = [d1 EXCEPT ![p] = new]
      BY <2>1, <2>2, <2>3, <2>4, <2>5 DEF TypeOK
    <2> QED BY <2>1, <2>6 DEF TypeOK
  <1>2. one \in [fd : Fds, message : Messages]
    BY DEF one
  <1>3. /\ freed \in SUBSET Fds /\ block \in [Fds -> Messages \cup {NoMessage}]
        /\ ok => freed = daemon[p].freed
    BY ProcessType DEF freed
  <1> HIDE DEF block
  <1>4. waste \in SUBSET [fd : Fds, message : Messages] /\ waste \subseteq daemon[p].waste \cup {one}
    BY <1>00, <1>2, ProcessType
  <1>5. /\ new \in Processes /\ new.pc = "loop" /\ new.to = 0 /\ new.response = NoMessage
        /\ new.message = NoMessage /\ new.doomed = daemon[p].doomed
        /\ new.block = block /\ new.fds = daemon[p].fds /\ new.upFd = daemon[p].upFd
        /\ new.freed = freed /\ new.waste = waste
    BY <1>3, <1>4, ProcessType DEF Processes
  <1> HIDE DEF new
  <1>6. daemon' \in [Daemons -> Processes] /\ Others(p) /\ daemon'[p] = new
    BY <1>1, <1>5, OneProcess
  <1>7. \A w \in daemon'[p].waste : w \in daemon[p].waste \/ w = one
    BY <1>4, <1>5, <1>6
  <1>8. /\ Becomes(p, "loop", daemon[p].fds, block)
        /\ Remembers(p, 0, NoMessage, daemon[p].doomed, NoMessage)
        /\ ok => daemon'[p].freed = daemon[p].freed
    BY <1>3, <1>5, <1>6 DEF Becomes, Remembers
  <1>9. WastesOne(p, fd, m)
    BY <1>7 DEF WastesOne, one
  <1> QED BY <1>8, <1>9 DEF block

(* and the second time the process is about to abort. *)
LEMMA AbortEffect ==
    ASSUME TypeOK, NEW p \in Daemons, NEW fd, NEW m, NEW ok, HandlerReturns(p, fd, m, TRUE, ok)
    PROVE  /\ Becomes(p, "abort", daemon[p].fds, daemon[p].block)
           /\ Remembers(p, daemon[p].to, daemon[p].message, TRUE, daemon[p].response)
           /\ WastesNothing(p)
  <1> DEFINE new == [daemon[p] EXCEPT !.pc = "abort", !.doomed = TRUE]
  <1>1. daemon' = [daemon EXCEPT ![p] = new]
    BY ProcessType DEF HandlerReturns, Processes
  <1>2. /\ new \in Processes /\ new.pc = "abort" /\ new.upFd = daemon[p].upFd
        /\ new.fds = daemon[p].fds /\ new.block = daemon[p].block /\ new.to = daemon[p].to
        /\ new.message = daemon[p].message /\ new.doomed = TRUE /\ new.response = daemon[p].response
        /\ new.freed = daemon[p].freed /\ new.waste = daemon[p].waste
    BY ProcessType DEF Processes
  <1> HIDE DEF new
  <1> QED BY <1>1, <1>2, OneProcess DEF Becomes, Remembers, Wastes, WastesNothing

(* A process that is down has no descriptors and no blocks. *)
LEMMA OffType ==
    /\ Off \in Processes /\ Off.pc = "down" /\ Off.upFd = 0 /\ Off.to = 0
    /\ Off.response = NoMessage /\ Off.message = NoMessage /\ Off.doomed = FALSE
    /\ Off.freed = {} /\ Off.waste = {}
    /\ \A f \in Fds : Off.fds[f] = NoLink /\ Off.block[f] = NoMessage
  <1>1. /\ [fd \in Fds |-> NoLink] \in [Fds -> Links \cup {NoLink}]
        /\ [fd \in Fds |-> NoMessage] \in [Fds -> Messages \cup {NoMessage}]
    OBVIOUS
  <1> QED BY <1>1 DEF Off, Processes

--------------------------------------------------------------------------------
(* What the actions do to the connections. *)

ViewType == view \in [Links -> [Sides -> {"none", "open", "fin", "reset", "broken"}]]
ChanType == chan \in [Links -> [Sides -> Seq(Messages)]]

(* Nobody takes a connection for open that did not before, or the reverse, *)
(* and none is reset                                                       *)
ViewQuiet == \A k \in Links, s \in Sides :
    /\ view'[k][s] = "open" <=> view[k][s] = "open"
    /\ view'[k][s] \in {"none", "reset"} => view'[k][s] = view[k][s]
(* The rest of the traffic is untouched *)
ElsewhereSame(k, s) ==
    \A j \in Links, t \in Sides : j # k \/ t # s => chan'[j][t] = chan[j][t]

(* m arrives at end s of k *)
Arrives(k, s, m) == ElsewhereSame(k, s) /\ chan'[k][s] = Append(chan[k][s], m)

(* An error that is reported, or a write() to a peer that has closed. *)
LEMMA BreakEffect ==
    ASSUME ViewType, NEW k \in Links, NEW s \in Sides, view[k][s] # "open",
           view' = [view EXCEPT ![k][s] = "broken"]
    PROVE  ViewType' /\ ViewQuiet
  BY DEF ViewType, ViewQuiet

(* A write() that is delivered. *)
LEMMA AppendEffect ==
    ASSUME ChanType, NEW k \in Links, NEW s \in Sides, NEW m \in Messages,
           chan' = [chan EXCEPT ![k][s] = Append(@, m)]
    PROVE  ChanType' /\ Arrives(k, s, m)
  <1>1. chan[k][s] \in Seq(Messages)
    BY DEF ChanType
  <1>2. Append(chan[k][s], m) \in Seq(Messages)
    BY <1>1
  <1> QED BY <1>2 DEF ChanType, ElsewhereSame, Arrives

(* A read(), which takes all there is. *)
LEMMA EmptyEffect ==
    ASSUME ChanType, NEW k \in Links, NEW s \in Sides,
           chan' = [chan EXCEPT ![k][s] = << >>]
    PROVE  ChanType' /\ ElsewhereSame(k, s) /\ chan'[k][s] = << >>
  <1>1. << >> \in Seq(Messages)
    BY EmptySeq
  <1> QED BY <1>1 DEF ChanType, ElsewhereSame

(* The entries of a longer sequence. *)
LEMMA AppendFacts ==
    ASSUME NEW q \in Seq(Messages), NEW m \in Messages, NEW r, r = Append(q, m)
    PROVE  /\ r # << >> /\ Len(r) = Len(q) + 1
           /\ \A i \in DOMAIN r :
                 \/ i \in DOMAIN q /\ r[i] = q[i]
                 \/ i = Len(q) + 1 /\ r[i] = m /\ \A j \in DOMAIN q : j < i
  OBVIOUS

(* The first entry of a sequence. *)
LEMMA HeadFacts ==
    ASSUME NEW q \in Seq(Messages), q # << >>
    PROVE  1 \in DOMAIN q /\ Head(q) = q[1] /\ Head(q) \in Messages
  OBVIOUS

(* The last entry of a sequence. *)
LEMMA LastFacts ==
    ASSUME NEW q \in Seq(Messages), q # << >>
    PROVE  Len(q) \in DOMAIN q /\ q[Len(q)] \in Messages
  OBVIOUS

(* The end of a process or of a client. *)
LEMMA CloseEffect ==
    ASSUME ViewType, ChanType, NEW p, ClosesAll(p)
    PROVE  /\ ViewType' /\ ChanType'
           /\ \A k \in Links, s \in Sides :
                 /\ view'[k][s] = "open" <=> view[k][s] = "open" /\ End(k, Other(s)) # p
                 /\ End(k, s) = p => chan'[k][s] = << >>
                 /\ End(k, s) # p => chan'[k][s] = chan[k][s]
  <1>1. << >> \in Seq(Messages)
    BY EmptySeq
  <1>2. ChanType'
    BY <1>1 DEF ChanType, ClosesAll
  <1>3. ViewType'
    BY DEF ViewType, ClosesAll
  <1>4. ASSUME NEW k \in Links, NEW s \in Sides
        PROVE  /\ view'[k][s] = "open" <=> view[k][s] = "open" /\ End(k, Other(s)) # p
               /\ End(k, s) = p => chan'[k][s] = << >>
               /\ End(k, s) # p => chan'[k][s] = chan[k][s]
    BY DEF ClosesAll
  <1> QED BY <1>2, <1>3, <1>4

--------------------------------------------------------------------------------
(* What does not change. *)

(* The processes keep their descriptors, and none starts or ends *)
SameFds == \A q \in Daemons :
    /\ daemon'[q].fds = daemon[q].fds /\ daemon'[q].upFd = daemon[q].upFd
    /\ Running(q)' <=> Running(q)

(* Most steps of a process keep its descriptors. *)
LEMMA BecomesSameFds ==
    ASSUME TypeOK, NEW p \in Daemons, Running(p), NEW pc \in {"loop", "read", "answer", "abort"},
           NEW block, Becomes(p, pc, daemon[p].fds, block)
    PROVE  SameFds
  BY DEF Becomes, SameFds, Running, Others

(* A process that does not step. *)
LEMMA OthersOK ==
    ASSUME NEW q \in Daemons, daemon'[q] = daemon[q], starts'[q] = starts[q],
           ProcessOK(q), ResponseOK(q)
    PROVE  ProcessOK(q)' /\ ResponseOK(q)'
  <1>1. Running(q)' = Running(q) /\ Own(q)' = Own(q)
    BY DEF Running, Own
  <1>2. Sound(q)' = Sound(q)
    BY <1>1 DEF Sound
  <1>3. ProcessOK(q)'
    BY <1>1 DEF ProcessOK, HandlerOK
  <1> QED BY <1>1, <1>2, <1>3 DEF ResponseOK

(* Whether a relay has lost the next daemon depends on its descriptors, *)
LEMMA SoundSame ==
    ASSUME SameFds, UNCHANGED starts, NEW q \in Daemons
    PROVE  Sound(q)' <=> Sound(q)
  BY DEF SameFds, Sound, Own

(* and so does who may see a connection open, *)
LEMMA ViewFrame ==
    ASSUME SameFds, UNCHANGED starts, ViewQuiet, NEW k \in Links, ViewOK(k)
    PROVE  ViewOK(k)'
  <1>1. End(k, "upper") \in Daemons /\ (k \notin Clients => k[1] \in Daemons)
    BY Ends, UpFacts
  <1>2. /\ view'[k].upper = "open" <=> view[k].upper = "open"
        /\ view'[k].lower = "open" <=> view[k].lower = "open"
    BY DEF ViewQuiet, Sides
  <1> QED BY <1>1, <1>2 DEF ViewOK, SameFds, Own

(* and whether two daemons are in touch. *)
LEMMA TouchSame ==
    ASSUME TypeOK, SameFds, UNCHANGED starts, ViewQuiet, NEW q \in Relays, Running(q), ProcessOK(q)
    PROVE  (InTouch(q)' <=> InTouch(q)) /\ Own(q)' = Own(q)
  <1>1. Own(q) \in Links /\ Own(q)' = Own(q)
    BY OwnLink DEF Own
  <1>2. Sound(Up(q))' <=> Sound(Up(q))
    BY SoundSame, UpFacts
  <1>3. /\ view'[Own(q)].upper = "open" <=> view[Own(q)].upper = "open"
        /\ view'[Own(q)].lower = "open" <=> view[Own(q)].lower = "open"
    BY <1>1 DEF ViewQuiet, Sides
  <1> QED BY <1>1, <1>2, <1>3 DEF InTouch

(* An exchange in which neither process nor connection gets anything new.  *)
LEMMA ExchangeFrame ==
    ASSUME NEW q \in Relays, ExchangeOK(q), Running(q), starts'[q] = starts[q],
           InTouch(q)' => InTouch(q),
           chan'[Own(q)] = chan[Own(q)],
           daemon'[q] = daemon[q],
           \A f \in Fds : daemon'[Up(q)].fds[f] = Own(q) /\ daemon'[Up(q)].block[f] # NoMessage =>
               /\ daemon[Up(q)].fds[f] = Own(q)
               /\ daemon'[Up(q)].block[f] = daemon[Up(q)].block[f]
    PROVE  ExchangeOK(q)'
  <1>1. Own(q)' = Own(q) /\ Running(q)' = Running(q)
    BY DEF Own, Running
  <1>2. RequestSent(q)' /\ RequestHeld(q)'
    BY <1>1 DEF ExchangeOK, RequestSent, RequestHeld, Awaits
  <1>3. Back(q)' <=> Back(q)
    BY DEF Back
  <1>4. AnswerSent(q)' /\ RequestBack(q)'
    BY <1>1, <1>3 DEF ExchangeOK, AnswerSent, RequestBack
  <1> QED BY <1>2, <1>4 DEF ExchangeOK

(* A client whose messages stay where they are, or are lost. *)
LEMMA ClientFrame ==
    ASSUME NEW c \in Clients, ClientOK(c), Trusted(c)' => Trusted(c),
           asked'[c] = asked[c], got'[c] = got[c],
           chan'[c].lower = chan[c].lower \/ chan'[c].lower = << >>,
           chan'[c].upper = chan[c].upper \/ chan'[c].upper = << >>,
           \A f \in Fds : daemon'["receiver"].fds[f] = c /\ daemon'["receiver"].block[f] # NoMessage =>
               /\ daemon["receiver"].fds[f] = c
               /\ daemon'["receiver"].block[f] = daemon["receiver"].block[f]
    PROVE  ClientOK(c)'
  <1> SUFFICES ASSUME Trusted(c), AnswersOK(c), BlocksOK(c), SentOK(c), got[c] <= asked[c]
               PROVE  got'[c] <= asked'[c] /\ AnswersOK(c)' /\ BlocksOK(c)' /\ SentOK(c)'
    BY DEF ClientOK
  <1>1. \A n : AnsweredBefore(c, n) => AnsweredBefore(c, n)'
    BY DEF AnsweredBefore
  <1>2. AnswersOK(c)'
    BY DEF AnswersOK
  <1>3. BlocksOK(c)'
    BY <1>1 DEF BlocksOK
  <1>4. SentOK(c)'
    BY <1>1 DEF SentOK
  <1> QED BY <1>2, <1>3, <1>4

--------------------------------------------------------------------------------
(* Steps of a process that keeps its descriptors. *)

(* Nothing is on its way between p and the daemon above it, as long as the *)
(* two are in touch, and no answer is.                                     *)
Nothing(p) ==
    /\ InTouch(p) => /\ chan[Own(p)].upper = << >> /\ chan[Own(p)].lower = << >>
                     /\ \A f \in Fds : daemon[Up(p)].fds[f] = Own(p) => daemon[Up(p)].block[f] = NoMessage
    /\ \A i \in DOMAIN chan[Own(p)].lower : chan[Own(p)].lower[i].kind # "answer"

(* Outside of its read() a relay has no exchange under way. *)
LEMMA NothingUnlessReading ==
    ASSUME NEW p \in Relays, ExchangeOK(p), Running(p), daemon[p].pc # "read"
    PROVE  Nothing(p)
  BY DEF ExchangeOK, Nothing, RequestSent, RequestHeld, AnswerSent, Awaits

(* With nothing on its way after a step there is little to show. *)
LEMMA ExchangeIfNothing ==
    ASSUME NEW p \in Relays, Nothing(p)', RequestBack(p)'
    PROVE  ExchangeOK(p)'
  <1>1. RequestSent(p)' /\ RequestHeld(p)'
    BY DEF Nothing, RequestSent, RequestHeld
  <1>2. AnswerSent(p)'
    BY DEF Nothing, AnswerSent
  <1> QED BY <1>1, <1>2 DEF ExchangeOK

(* A connection that a process holds has been made. *)
LEMMA InUse ==
    ASSUME CoreInv, NEW p \in Daemons, NEW f \in Fds, NEW k, k = daemon[p].fds[f], k # NoLink
    PROVE  k \in Links /\ (k \notin Clients => ~(k[2] > starts[k[1]]))
  <1>1. TypeOK /\ ProcessOK(p)
    BY DEF CoreInv
  <1>2. k \in Links
    BY <1>1, SideOf
  <1>3. ViewOK(k) /\ TrafficOK(k)
    BY <1>2 DEF CoreInv
  <1>4. CASE p \in Relays /\ Running(p) /\ k = Own(p)
    <2>1. k[1] = p /\ k[2] = starts[p]
      BY <1>1, <1>4, OwnLink
    <2>2. starts[p] \in Int
      BY <1>1 DEF TypeOK
    <2> QED BY <1>2, <2>1, <2>2
  <1>5. CASE End(k, "upper") = p
    BY <1>2, <1>3, <1>5 DEF ViewOK, TrafficOK
  <1> QED BY <1>1, <1>4, <1>5, SideOf

(* A client trusts the receiver no more than before. *)
LEMMA TrustKept ==
    ASSUME ViewQuiet, NEW c \in Clients, daemon["receiver"].doomed => daemon'["receiver"].doomed
    PROVE  Trusted(c)' => Trusted(c)
  <1>1. /\ view'[c].lower = "open" <=> view[c].lower = "open"
        /\ view'[c].lower = "none" => view[c].lower = "none"
    BY DEF ViewQuiet, Sides, Links
  <1> QED BY <1>1 DEF Trusted

(* Only the connections of p carry something new *)
Foreign(p) == \A k \in Links : End(k, "lower") # p /\ End(k, "upper") # p => chan'[k] = chan[k]

(* A connection of p is no one else's. *)
LEMMA ForeignIfElsewhere ==
    ASSUME CoreInv, ChanType', NEW p \in Daemons, NEW f \in Fds, NEW k, k = daemon[p].fds[f], k # NoLink,
           NEW s \in Sides, ElsewhereSame(k, s)
    PROVE  Foreign(p)
  <1>1. TypeOK /\ ProcessOK(p)
    BY DEF CoreInv
  <1>2. k \in Links /\ (End(k, "lower") = p \/ End(k, "upper") = p)
    BY <1>1, SideOf, OwnLink
  <1>3. ASSUME NEW j \in Links, End(j, "lower") # p, End(j, "upper") # p PROVE chan'[j] = chan[j]
    <2>1. j # k
      BY <1>2, <1>3
    <2>2. chan'[j]["lower"] = chan[j]["lower"] /\ chan'[j]["upper"] = chan[j]["upper"]
      BY <2>1 DEF ElsewhereSame, Sides
    <2>3. chan[j] \in [Sides -> Seq(Messages)] /\ chan'[j] \in [Sides -> Seq(Messages)]
      BY <1>1 DEF TypeOK, ChanType
    <2> QED BY <2>2, <2>3 DEF Sides
  <1> QED BY <1>3 DEF Foreign

(* The exchange of the relay below p, when p takes or leaves what it has.  *)
LEMMA BelowFrame ==
    ASSUME CoreInv, SameFds, ViewQuiet, UNCHANGED starts,
           NEW q \in Relays, daemon'[q] = daemon[q],
           Running(q) => chan'[Own(q)] = chan[Own(q)],
           \A f \in Fds : daemon'[Up(q)].block[f] # NoMessage =>
               daemon'[Up(q)].block[f] = daemon[Up(q)].block[f]
    PROVE  ExchangeOK(q)'
  <1>1. CASE ~Running(q)
    BY <1>1, UpFacts DEF SameFds, ExchangeOK
  <1>2. CASE Running(q)
    <2>1. TypeOK /\ ProcessOK(q) /\ ExchangeOK(q)
      BY UpFacts DEF CoreInv
    <2>2. InTouch(q)' <=> InTouch(q)
      BY <1>2, <2>1, TouchSame
    <2>3. daemon'[Up(q)].fds = daemon[Up(q)].fds
      BY UpFacts DEF SameFds
    <2> QED BY <1>2, <2>1, <2>2, <2>3, ExchangeFrame
  <1> QED BY <1>1, <1>2

(* What is left to show for a step of p. *)
LEMMA QuietStep ==
    ASSUME CoreInv, NEW p \in Daemons,
           daemon' \in [Daemons -> Processes], Others(p), SameFds,
           ViewType', ViewQuiet, ChanType', Foreign(p),
           UNCHANGED <<starts, kills, asked, got>>,
           ProcessOK(p)', ResponseOK(p)',
           \A k \in Links : TrafficOK(k)',
           p \in Relays => ExchangeOK(p)',
           \A q \in Relays : Up(q) = p => ExchangeOK(q)',
           p = "receiver" => \A c \in Clients : ClientOK(c)'
    PROVE  CoreInv'
  <1>1. TypeOK'
    BY DEF CoreInv, TypeOK, ViewType, ChanType
  <1>2. ASSUME NEW q \in Daemons PROVE ProcessOK(q)' /\ ResponseOK(q)'
    BY OthersOK DEF CoreInv, Others
  <1>3. ASSUME NEW k \in Links PROVE ViewOK(k)'
    BY ViewFrame DEF CoreInv
  <1>4. ASSUME NEW q \in Relays PROVE ExchangeOK(q)'
    <2>1. CASE q = p
      BY <2>1
    <2>2. CASE q # p /\ Up(q) # p
      <3>1. daemon'[q] = daemon[q] /\ daemon'[Up(q)] = daemon[Up(q)]
        BY <2>2, UpFacts DEF Others
      <3>2. ASSUME Running(q) PROVE chan'[Own(q)] = chan[Own(q)]
        <4>1. TypeOK /\ ProcessOK(q)
          BY UpFacts DEF CoreInv
        <4>2. Own(q) \in Links /\ End(Own(q), "lower") = q /\ End(Own(q), "upper") = Up(q)
          BY <3>2, <4>1, OwnLink
        <4> QED BY <2>2, <4>2 DEF Foreign
      <3> QED BY <3>1, <3>2, BelowFrame
    <2> QED BY <2>1, <2>2
  <1>5. ASSUME NEW c \in Clients, p # "receiver" PROVE ClientOK(c)'
    <2>1. c \in Links /\ "receiver" \in Daemons
      BY DEF Links, Daemons, Relays
    <2>2. chan'[c] = chan[c] /\ daemon'["receiver"] = daemon["receiver"]
      BY <1>5, <2>1, Ends DEF Foreign, Others
    <2> QED BY <2>2, ClientFrame, TrustKept DEF CoreInv
  <1> QED BY <1>1, <1>2, <1>3, <1>4, <1>5 DEF CoreInv

(* p has nothing new in a block or a freed block *)
KeepsWaste(p) == \A w \in daemon'[p].waste :
    w \in daemon[p].waste \/ (daemon[p].block[w.fd] # NoMessage /\ w.message = daemon[p].block[w.fd])
Shrinks(p) ==
    /\ \A f \in Fds : daemon'[p].block[f] # NoMessage => daemon'[p].block[f] = daemon[p].block[f]
    /\ KeepsWaste(p)

(* The process that steps. *)
LEMMA ProcessStep ==
    ASSUME CoreInv, NEW p \in Daemons, Running(p), UNCHANGED starts,
           NEW pc \in {"loop", "read", "answer", "abort"}, NEW block,
           Becomes(p, pc, daemon[p].fds, block), HandlerOK(daemon'[p]), KeepsWaste(p),
           pc = "read" => p \in Relays /\ daemon[p].fds[daemon[p].upFd] # NoLink,
           \A f \in Fds : block[f] # NoMessage =>
               daemon[p].fds[f] # NoLink /\ block[f].kind = "request"
    PROVE  ProcessOK(p)'
  <1>1. TypeOK /\ ProcessOK(p)
    BY DEF CoreInv
  <1>2. Running(p)' /\ Own(p)' = Own(p)
    BY DEF Becomes, Running, Own
  <1>3. ASSUME NEW w \in daemon'[p].waste PROVE w.message.kind = "request"
    <2>1. daemon'[p] \in Processes
      BY DEF Becomes
    <2>2. w.fd \in Fds
      BY <1>3, <2>1 DEF Processes
    <2> QED BY <1>1, <1>3, <2>2 DEF ProcessOK, KeepsWaste
  <1> QED BY <1>1, <1>2, <1>3 DEF ProcessOK, Becomes

(* Traffic after a step that sends nothing, *)
LEMMA TrafficFewer ==
    ASSUME CoreInv, UNCHANGED starts, NEW j \in Links,
           view'[j].lower = "open" => view[j].lower = "open",
           \A s \in Sides : chan'[j][s] = chan[j][s] \/ chan'[j][s] = << >>
    PROVE  TrafficOK(j)'
  <1>1. TrafficOK(j)
    BY DEF CoreInv
  <1>3. /\ chan'[j].upper = chan[j].upper \/ chan'[j].upper = << >>
        /\ chan'[j].lower = chan[j].lower \/ chan'[j].lower = << >>
    BY DEF Sides
  <1>4. \A i \in DOMAIN chan'[j].upper : chan'[j].upper[i].kind = "request"
    BY <1>1, <1>3 DEF TrafficOK
  <1> QED BY <1>1, <1>3, <1>4 DEF TrafficOK

(* or breaks nothing either, *)
LEMMA TrafficLess ==
    ASSUME CoreInv, ViewQuiet, UNCHANGED starts, NEW j \in Links,
           \A s \in Sides : chan'[j][s] = chan[j][s] \/ chan'[j][s] = << >>
    PROVE  TrafficOK(j)'
  <1>1. view'[j].lower = "open" => view[j].lower = "open"
    BY DEF ViewQuiet, Sides
  <1> QED BY <1>1, TrafficFewer

(* and after one that sends a message on a connection in use. *)
LEMMA TrafficMore ==
    ASSUME CoreInv, ViewQuiet, UNCHANGED starts,
           NEW p \in Daemons, NEW f \in Fds, NEW k, k = daemon[p].fds[f], k # NoLink,
           NEW s \in Sides, NEW m \in Messages, s = "upper" => m.kind = "request",
           Arrives(k, s, m), NEW j \in Links
    PROVE  TrafficOK(j)'
  <1>1. TypeOK /\ TrafficOK(j)
    BY DEF CoreInv
  <1>2. k \in Links /\ (k \notin Clients => ~(k[2] > starts[k[1]]))
    BY InUse
  <1>3. CASE j # k
    BY <1>3, TrafficLess DEF Arrives, ElsewhereSame
  <1>4. CASE j = k
    <2>1. chan[k][s] \in Seq(Messages)
      BY <1>1, <1>2 DEF TypeOK
    <2>2. ASSUME NEW i \in DOMAIN chan'[k].upper PROVE chan'[k].upper[i].kind = "request"
      <3>1. CASE s = "upper"
        <4> DEFINE q == chan[k].upper
                   r == chan'[k].upper
        <4>1. r = Append(q, m) /\ q \in Seq(Messages)
          BY <2>1, <3>1 DEF Arrives
        <4>2. \A l \in DOMAIN q : q[l].kind = "request"
          BY <1>1, <1>4 DEF TrafficOK
        <4> HIDE DEF q, r
        <4>3. r[i] = m \/ (i \in DOMAIN q /\ r[i] = q[i])
          <5>1. i \in DOMAIN r
            BY <2>2 DEF r
          <5> QED BY <4>1, <5>1, AppendFacts
        <4>4. r[i].kind = "request"
          BY <3>1, <4>2, <4>3
        <4> QED BY <4>4 DEF r
      <3>2. CASE s # "upper"
        <4>1. chan'[k]["upper"] = chan[k]["upper"]
          BY <1>2, <3>2 DEF Arrives, ElsewhereSame, Sides
        <4> QED BY <1>1, <1>4, <2>2, <4>1 DEF TrafficOK
      <3> QED BY <3>1, <3>2
    <2> QED BY <1>2, <1>4, <2>2 DEF TrafficOK
  <1> QED BY <1>3, <1>4

(* A relay whose descriptor upFd has become another connection. *)
LEMMA NothingIfLost ==
    ASSUME CoreInv, NEW p \in Relays, Running(p), daemon[p].fds[daemon[p].upFd] # Own(p)
    PROVE  Nothing(p) /\ ~InTouch(p)
  <1>1. TypeOK /\ ProcessOK(p) /\ ExchangeOK(p)
    BY UpFacts DEF CoreInv
  <1>2. Own(p) \in Links /\ Own(p) \notin Clients /\ Own(p)[1] = p
    BY <1>1, OwnLink
  <1>3. ~InTouch(p)
    <2>1. ViewOK(Own(p))
      BY <1>2 DEF CoreInv
    <2> QED BY <1>2, <2>1 DEF ViewOK, InTouch
  <1> QED BY <1>1, <1>3 DEF Nothing, ExchangeOK, AnswerSent

(* The exchange of p itself in a step that does not touch it. *)
LEMMA ExchangeStill ==
    ASSUME CoreInv, NEW p \in Relays, Running(p), Nothing(p), chan'[Own(p)] = chan[Own(p)],
           Others(p), SameFds, ViewQuiet, UNCHANGED starts, Shrinks(p)
    PROVE  ExchangeOK(p)'
  <1>1. TypeOK /\ ProcessOK(p) /\ ExchangeOK(p)
    BY UpFacts DEF CoreInv
  <1>2. (InTouch(p)' <=> InTouch(p)) /\ Own(p)' = Own(p)
    BY <1>1, TouchSame
  <1>3. daemon'[Up(p)] = daemon[Up(p)]
    BY UpFacts DEF Others
  <1>4. Nothing(p)'
    BY <1>2, <1>3 DEF Nothing
  <1>5. daemon[p].upFd \in Fds /\ daemon'[p].upFd = daemon[p].upFd /\ daemon'[p].fds = daemon[p].fds
    BY <1>1, UpFacts DEF ProcessOK, SameFds
  <1>6. Back(p)' => Back(p)
    BY <1>5 DEF Back, Shrinks, KeepsWaste
  <1>7. RequestBack(p)'
    BY <1>1, <1>2, <1>5, <1>6 DEF ExchangeOK, RequestBack
  <1> QED BY <1>4, <1>7, ExchangeIfNothing

(* A step of p in which nothing is sent or read. *)
LEMMA SilentStep ==
    ASSUME CoreInv, NEW p \in Daemons, Running(p), UNCHANGED <<starts, kills, chan, asked, got>>,
           NEW pc \in {"loop", "read", "answer", "abort"}, NEW block,
           Becomes(p, pc, daemon[p].fds, block), HandlerOK(daemon'[p]), Shrinks(p),
           daemon[p].doomed => daemon'[p].doomed,
           ViewType', ViewQuiet,
           pc = "read" => p \in Relays /\ daemon[p].fds[daemon[p].upFd] # NoLink,
           ResponseOK(p)',
           p \in Relays => Nothing(p)
    PROVE  CoreInv'
  <1>1. TypeOK /\ ProcessOK(p)
    BY DEF CoreInv
  <1>2. SameFds /\ Others(p) /\ daemon' \in [Daemons -> Processes]
    BY <1>1, BecomesSameFds DEF Becomes
  <1>3. ProcessOK(p)'
    <2>1. \A f \in Fds : block[f] # NoMessage =>
              daemon[p].fds[f] # NoLink /\ block[f].kind = "request"
      BY <1>1 DEF ProcessOK, Shrinks, Becomes
    <2> QED BY <2>1, ProcessStep DEF Shrinks
  <1>4. ChanType' /\ Foreign(p)
    BY <1>1 DEF TypeOK, ChanType, Foreign
  <1>5. \A k \in Links : TrafficOK(k)'
    BY TrafficLess
  <1>6. p \in Relays => ExchangeOK(p)'
    BY <1>2, ExchangeStill
  <1>7. ASSUME NEW q \in Relays, Up(q) = p PROVE ExchangeOK(q)'
    <2>1. daemon'[q] = daemon[q]
      BY <1>2, <1>7, UpFacts DEF Others
    <2> QED BY <1>2, <1>7, <2>1, BelowFrame DEF Shrinks
  <1>8. ASSUME p = "receiver", NEW c \in Clients PROVE ClientOK(c)'
    BY <1>8, ClientFrame, TrustKept DEF CoreInv, Becomes, Shrinks
  <1> QED BY <1>2, <1>3, <1>4, <1>5, <1>6, <1>7, <1>8, QuietStep

--------------------------------------------------------------------------------
(* The event loop reads. *)

(* An error reported by read() or write() leaves the connection as dead as *)
(* it was.                                                                 *)
LEMMA RefusedEffect ==
    ASSUME TypeOK, NEW p \in Daemons, NEW k \in Links, Side(p, k) \in Sides, Refused(p, k)
    PROVE  ViewType' /\ ViewQuiet /\ UNCHANGED chan /\ view[k][Side(p, k)] # "open"
  <1>1. ViewType
    BY DEF TypeOK, ViewType
  <1> QED BY <1>1, BreakEffect DEF Refused

(* A write() that succeeds is delivered, or lost. *)
LEMMA WrittenEffect ==
    ASSUME TypeOK, NEW p \in Daemons, NEW k \in Links, NEW s \in Sides, s = Side(p, k),
           NEW t \in Sides, t = Other(s), NEW m \in Messages, Written(p, k, m)
    PROVE  /\ ViewType' /\ ViewQuiet /\ ChanType'
           /\ \/ UNCHANGED chan
              \/ view[k][s] = "open" /\ Arrives(k, t, m)
  <1>1. ViewType /\ ChanType
    BY DEF TypeOK, ViewType, ChanType
  <1>2. CASE view[k][s] = "open" /\ chan' = [chan EXCEPT ![k][t] = Append(@, m)] /\ UNCHANGED view
    BY <1>1, <1>2, AppendEffect DEF ViewType, ViewQuiet
  <1>3. CASE view[k][s] = "fin" /\ view' = [view EXCEPT ![k][s] = "broken"] /\ UNCHANGED chan
    BY <1>1, <1>3, BreakEffect DEF ChanType
  <1> QED BY <1>2, <1>3 DEF Written

(* p reads from a connection, into the block of its descriptor fd. *)
Takes(p, fd, k, s, m) ==
    /\ k = daemon[p].fds[fd] /\ k # NoLink /\ s = Side(p, k)
    /\ m \in Messages /\ chan[k][s] \in Seq(Messages) /\ 1 \in DOMAIN chan[k][s]
    /\ m = chan[k][s][1] /\ m.kind = "request"
    /\ chan'[k][s] = << >> /\ ElsewhereSame(k, s)
    /\ Becomes(p, daemon[p].pc, daemon[p].fds, [daemon[p].block EXCEPT ![fd] = m])
    /\ ForgetsNothing(p) /\ WastesNothing(p)

(* The exchange with the relay below: its request is held instead of sent. *)
LEMMA TakesBelow ==
    ASSUME CoreInv, NEW p \in Daemons, Running(p), NEW fd \in Fds, NEW k, NEW s, NEW m,
           Takes(p, fd, k, s, m), SameFds, ViewQuiet, UNCHANGED starts, ChanType',
           NEW q \in Relays, Up(q) = p
    PROVE  ExchangeOK(q)'
  <1>1. CASE ~Running(q)
    BY <1>1, UpFacts DEF SameFds, ExchangeOK
  <1>2. CASE Running(q)
    <2>1. TypeOK /\ ProcessOK(q) /\ ExchangeOK(q) /\ ProcessOK(p)
      BY UpFacts DEF CoreInv
    <2>2. /\ Own(q) \in Links /\ Own(q)' = Own(q) /\ (InTouch(q)' <=> InTouch(q))
          /\ End(Own(q), "upper") = p /\ End(Own(q), "lower") = q
      BY <1>2, <2>1, TouchSame, OwnLink
    <2>3. q # p /\ daemon'[q] = daemon[q] /\ Running(q)'
      BY <1>2, UpFacts DEF Takes, Becomes, Others, Running
    <2>4. /\ daemon'[p].fds = daemon[p].fds
          /\ daemon'[p].block = [daemon[p].block EXCEPT ![fd] = m]
          /\ daemon[p].block \in [Fds -> Messages \cup {NoMessage}]
      BY <2>1, ProcessType DEF Takes, Becomes
    <2>5. CASE k # Own(q)
      <3>1. /\ chan'[Own(q)]["lower"] = chan[Own(q)]["lower"]
            /\ chan'[Own(q)]["upper"] = chan[Own(q)]["upper"]
        BY <2>2, <2>5 DEF Takes, ElsewhereSame, Sides
      <3>2. chan[Own(q)] \in [Sides -> Seq(Messages)] /\ chan'[Own(q)] \in [Sides -> Seq(Messages)]
        BY <2>1, <2>2 DEF TypeOK, ChanType
      <3>3. chan'[Own(q)] = chan[Own(q)]
        BY <3>1, <3>2 DEF Sides
      <3>4. ASSUME NEW f \in Fds, daemon'[p].fds[f] = Own(q) PROVE daemon'[p].block[f] = daemon[p].block[f]
        <4>1. f # fd
          BY <2>4, <2>5, <3>4 DEF Takes
        <4> QED BY <2>4, <4>1
      <3> QED BY <1>2, <2>1, <2>2, <2>3, <2>4, <3>3, <3>4, ExchangeFrame
    <2>6. CASE k = Own(q)
      <3>1. s = "upper"
        BY <2>2, <2>3, <2>6 DEF Takes, Side
      <3>2. chan'[Own(q)]["lower"] = chan[Own(q)]["lower"]
        BY <2>2, <2>6, <3>1 DEF Takes, ElsewhereSame, Sides
      <3>3. chan'[Own(q)]["upper"] = << >> /\ chan[Own(q)]["upper"][1] = m /\ chan[Own(q)]["upper"] # << >>
        BY <2>6, <3>1 DEF Takes
      <3>4. RequestSent(q)'
        BY <2>2, <3>3 DEF RequestSent
      <3>5. RequestHeld(q)'
        <4>1. SUFFICES ASSUME InTouch(q), NEW f \in Fds, daemon[p].fds[f] = Own(q),
                              daemon'[p].block[f] # NoMessage
                       PROVE  Awaits(q, daemon'[p].block[f]) /\ chan[Own(q)].lower = << >>
          BY <2>2, <2>3, <2>4, <3>2 DEF RequestHeld, Awaits
        <4>2. /\ chan[Own(q)].lower = << >> /\ Awaits(q, m)
              /\ daemon[p].block[f] = NoMessage
          BY <1>2, <2>1, <3>3, <4>1 DEF ExchangeOK, RequestSent
        <4>3. daemon'[p].block[f] = m
          BY <2>4, <4>1, <4>2
        <4> QED BY <4>2, <4>3
      <3>6. AnswerSent(q)'
        BY <1>2, <2>1, <2>2, <2>3, <3>2 DEF ExchangeOK, AnswerSent
      <3>7. Back(q)' <=> Back(q)
        BY <2>3 DEF Back
      <3>8. RequestBack(q)'
        BY <1>2, <2>1, <2>2, <2>3, <3>2, <3>7 DEF ExchangeOK, RequestBack
      <3> QED BY <3>8, <3>4, <3>5, <3>6 DEF ExchangeOK
    <2> QED BY <2>5, <2>6
  <1> QED BY <1>1, <1>2

(* A client: its newest request is in the receiver's block. *)
LEMMA TakesClient ==
    ASSUME CoreInv, NEW fd \in Fds, NEW k, NEW s, NEW m, Takes("receiver", fd, k, s, m),
           ViewQuiet, UNCHANGED <<asked, got>>, NEW c \in Clients
    PROVE  ClientOK(c)'
  <1>0. Trusted(c)' => Trusted(c)
    BY TrustKept DEF Takes, ForgetsNothing, Remembers
  <1>1. TypeOK /\ ClientOK(c) /\ c \in Links /\ "receiver" \in Daemons
    BY DEF CoreInv, Links, Daemons, Relays
  <1>2. /\ End(c, "lower") = c /\ c # "receiver"
    BY <1>1, Ends
  <1>3. /\ daemon'["receiver"].fds = daemon["receiver"].fds
        /\ daemon'["receiver"].block = [daemon["receiver"].block EXCEPT ![fd] = m]
        /\ daemon["receiver"].block \in [Fds -> Messages \cup {NoMessage}]
    BY <1>1, ProcessType DEF Takes, Becomes
  <1>4. k = c => s = "upper"
    BY <1>2 DEF Takes, Side
  <1>5. chan'[c]["lower"] = chan[c]["lower"]
    BY <1>1, <1>4 DEF Takes, ElsewhereSame, Sides
  <1>6. CASE k # c
    <2>1. chan'[c]["upper"] = chan[c]["upper"]
      BY <1>1, <1>6 DEF Takes, ElsewhereSame, Sides
    <2>2. ASSUME NEW f \in Fds, daemon'["receiver"].fds[f] = c
          PROVE  daemon'["receiver"].block[f] = daemon["receiver"].block[f]
      <3>1. f # fd
        BY <1>3, <1>6, <2>2 DEF Takes
      <3> QED BY <1>3, <3>1
    <2> QED BY <1>0, <1>1, <1>3, <1>5, <2>1, <2>2, ClientFrame
  <1>7. CASE k = c
    <2> SUFFICES ASSUME Trusted(c)
                 PROVE  got[c] <= asked[c] /\ AnswersOK(c)' /\ BlocksOK(c)' /\ SentOK(c)'
      BY <1>0 DEF ClientOK
    <2>1. chan[c].upper # << >> /\ chan'[c].upper = << >> /\ m = chan[c].upper[1]
      BY <1>4, <1>7 DEF Takes
    <2>2. m.client = c /\ m.n = asked[c] /\ AnsweredBefore(c, asked[c])
      BY <1>1, <2>1 DEF ClientOK, SentOK
    <2>3. \A n : AnsweredBefore(c, n)' = AnsweredBefore(c, n)
      BY <1>5 DEF AnsweredBefore
    <2>4. AnswersOK(c)'
      BY <1>1, <1>5 DEF ClientOK, AnswersOK
    <2>5. BlocksOK(c)'
      <3>1. SUFFICES ASSUME NEW f \in Fds, daemon["receiver"].fds[f] = c,
                            daemon'["receiver"].block[f] # NoMessage
                     PROVE  /\ daemon'["receiver"].block[f].client = c
                            /\ daemon'["receiver"].block[f].n <= asked[c]
                            /\ AnsweredBefore(c, daemon'["receiver"].block[f].n)
        BY <1>3, <2>3 DEF BlocksOK
      <3>2. CASE f = fd
        <4>1. daemon'["receiver"].block[f] = m /\ asked[c] \in Nat
          BY <1>1, <1>3, <3>2 DEF TypeOK
        <4> QED BY <2>2, <4>1
      <3>3. CASE f # fd
        <4>1. daemon'["receiver"].block[f] = daemon["receiver"].block[f]
          BY <1>3, <3>3
        <4> QED BY <1>1, <3>1, <4>1 DEF ClientOK, BlocksOK
      <3> QED BY <3>2, <3>3
    <2>6. SentOK(c)'
      BY <2>1 DEF SentOK
    <2>7. got[c] <= asked[c]
      BY <1>1 DEF ClientOK
    <2> QED BY <2>4, <2>5, <2>6, <2>7
  <1> QED BY <1>6, <1>7

(* The exchange of p itself: the event loop takes only requests that come  *)
(* back on p's own connection.                                             *)
LEMMA TakesOwn ==
    ASSUME CoreInv, NEW p \in Relays, daemon[p].pc = "loop", NEW fd \in Fds, NEW k, NEW s, NEW m,
           Takes(p, fd, k, s, m), SameFds, ViewQuiet, UNCHANGED starts
    PROVE  ExchangeOK(p)'
  <1>1. TypeOK /\ ProcessOK(p) /\ ExchangeOK(p) /\ Running(p)
    BY UpFacts DEF CoreInv, Running
  <1>2. Nothing(p)
    BY <1>1, NothingUnlessReading
  <1>3. Own(p) \in Links /\ Own(p)' = Own(p) /\ (InTouch(p)' <=> InTouch(p))
    BY <1>1, TouchSame, OwnLink
  <1>4. /\ daemon'[Up(p)] = daemon[Up(p)] /\ daemon'[p].fds = daemon[p].fds
        /\ daemon'[p].upFd = daemon[p].upFd
        /\ daemon'[p].block = [daemon[p].block EXCEPT ![fd] = m]
        /\ daemon[p].block \in [Fds -> Messages \cup {NoMessage}] /\ daemon[p].upFd \in Fds
    BY <1>1, UpFacts, ProcessType DEF Takes, Becomes, Others, ProcessOK
  <1>5. /\ chan'[Own(p)]["lower"] = chan[Own(p)]["lower"] \/ chan'[Own(p)]["lower"] = << >>
        /\ chan'[Own(p)]["upper"] = chan[Own(p)]["upper"] \/ chan'[Own(p)]["upper"] = << >>
    BY <1>3 DEF Takes, ElsewhereSame, Sides
  <1>6. Nothing(p)'
    BY <1>2, <1>3, <1>4, <1>5 DEF Nothing
  <1>7. RequestBack(p)'
    <2>1. \A i \in DOMAIN chan'[Own(p)].lower : chan'[Own(p)].lower[i].kind = "request" =>
              Up(p) # "service" /\ ~InTouch(p)
      BY <1>1, <1>5 DEF ExchangeOK, RequestBack
    <2>2. ASSUME daemon[p].fds[daemon[p].upFd] = Own(p), Back(p)'
          PROVE  ~InTouch(p)
      <3>1. CASE Back(p)
        BY <1>1, <2>2, <3>1 DEF ExchangeOK, RequestBack
      <3>2. CASE ~Back(p)
        <4>1. fd = daemon[p].upFd
          <5>1. daemon'[p].waste = daemon[p].waste
            BY DEF Takes, WastesNothing, Wastes
          <5> QED BY <1>4, <2>2, <3>2, <5>1 DEF Back
        <4>2. s = "lower"
          BY <1>1, <2>2, <4>1, OwnLink DEF Takes, Side
        <4>3. 1 \in DOMAIN chan[Own(p)].lower /\ chan[Own(p)].lower[1].kind = "request"
          BY <2>2, <4>1, <4>2 DEF Takes
        <4> QED BY <1>1, <4>3 DEF ExchangeOK, RequestBack
      <3> QED BY <3>1, <3>2
    <2>3. \A i \in DOMAIN chan'[Own(p)].lower : chan'[Own(p)].lower[i].kind # "answer"
      BY <1>2, <1>5 DEF Nothing
    <2> QED BY <1>3, <1>4, <2>1, <2>2, <2>3 DEF RequestBack
  <1> QED BY <1>6, <1>7, ExchangeIfNothing

(* dealReadEvent() with data. *)
LEMMA ReadDataStep ==
    ASSUME CoreInv, NEW p \in Daemons, NEW fd \in Fds, daemon[p].pc = "loop",
           daemon[p].fds[fd] # NoLink, ReadData(p, fd), UNCHANGED <<starts, kills, asked, got>>
    PROVE  CoreInv'
  <1>1. TypeOK /\ ProcessOK(p) /\ ResponseOK(p) /\ Running(p)
    BY DEF CoreInv, Running
  <1> DEFINE k == daemon[p].fds[fd]
             s == Side(p, k)
             m == Head(chan[k][s])
  <1>2. /\ k \in Links /\ s \in Sides
        /\ \/ s = "lower" /\ p \in Relays /\ k = Own(p)
           \/ s = "upper"
    BY <1>1, SideOf
  <1>3. chan[k][s] \in Seq(Messages) /\ chan[k][s] # << >>
    BY <1>1, <1>2 DEF TypeOK, ReadData
  <1>4. 1 \in DOMAIN chan[k][s] /\ m = chan[k][s][1] /\ m \in Messages
    BY <1>3, HeadFacts
  <1>5. m.kind = "request"
    <2>1. CASE s = "upper"
      <3>1. TrafficOK(k)
        BY <1>2 DEF CoreInv
      <3> QED BY <1>4, <2>1, <3>1 DEF TrafficOK
    <2>2. CASE s = "lower" /\ p \in Relays /\ k = Own(p)
      <3>1. Nothing(p)
        BY <1>1, <2>2, NothingUnlessReading DEF CoreInv
      <3>2. m.kind # "answer"
        BY <1>4, <2>2, <3>1 DEF Nothing
      <3> QED BY <1>4, <3>2 DEF Messages
    <2> QED BY <1>2, <2>1, <2>2
  <1>6. chan' = [chan EXCEPT ![k][s] = << >>] /\ UNCHANGED view
        /\ daemon' = [daemon EXCEPT ![p].block[fd] = m]
    BY DEF ReadData
  <1>7. k = daemon[p].fds[fd] /\ k # NoLink /\ s = Side(p, k)
    OBVIOUS
  <1> HIDE DEF k, s, m
  <1>8. /\ Becomes(p, daemon[p].pc, daemon[p].fds, [daemon[p].block EXCEPT ![fd] = m])
        /\ ForgetsNothing(p) /\ WastesNothing(p)
    BY <1>1, <1>4, <1>6, ReadEffect
  <1>9. ChanType' /\ ElsewhereSame(k, s) /\ chan'[k][s] = << >> /\ ViewType' /\ ViewQuiet
    BY <1>1, <1>2, <1>6, EmptyEffect DEF TypeOK, ChanType, ViewType, ViewQuiet
  <1>10. Takes(p, fd, k, s, m)
    BY <1>3, <1>4, <1>5, <1>7, <1>8, <1>9 DEF Takes
  <1>11. SameFds /\ Others(p) /\ daemon' \in [Daemons -> Processes]
    BY <1>1, <1>8, BecomesSameFds DEF Becomes
  <1>12. ProcessOK(p)'
    <2> DEFINE block == [daemon[p].block EXCEPT ![fd] = m]
    <2>1. ASSUME NEW f \in Fds, block[f] # NoMessage
          PROVE  daemon[p].fds[f] # NoLink /\ block[f].kind = "request"
      BY <1>1, <1>5, <1>7, <2>1, ProcessType DEF ProcessOK
    <2> HIDE DEF block
    <2>2. Becomes(p, "loop", daemon[p].fds, block)
      BY <1>8 DEF block
    <2>3. HandlerOK(daemon'[p])
      BY <1>1, <1>8 DEF ProcessOK, HandlerOK, Becomes, ForgetsNothing, Remembers
    <2>4. KeepsWaste(p)
      BY <1>8 DEF KeepsWaste, WastesNothing, Wastes
    <2> QED BY <1>1, <2>1, <2>2, <2>3, <2>4, ProcessStep
  <1>13. ResponseOK(p)'
    BY <1>8 DEF Becomes, ResponseOK
  <1>14. ASSUME NEW j \in Links PROVE TrafficOK(j)'
    BY <1>9, TrafficLess DEF ElsewhereSame
  <1>15. Foreign(p)
    BY <1>2, <1>7, <1>9, ForeignIfElsewhere
  <1>16. p \in Relays => ExchangeOK(p)'
    BY <1>9, <1>10, <1>11, TakesOwn
  <1>17. \A q \in Relays : Up(q) = p => ExchangeOK(q)'
    BY <1>1, <1>9, <1>10, <1>11, TakesBelow
  <1>18. p = "receiver" => \A c \in Clients : ClientOK(c)'
    BY <1>9, <1>10, TakesClient
  <1> QED BY <1>9, <1>11, <1>12, <1>13, <1>14, <1>15, <1>16, <1>17, <1>18, QuietStep

(* read() reports ECONNRESET. *)
LEMMA ReadRefusedStep ==
    ASSUME CoreInv, NEW p \in Daemons, NEW fd \in Fds, daemon[p].pc = "loop",
           daemon[p].fds[fd] # NoLink, Refused(p, daemon[p].fds[fd]),
           UNCHANGED <<daemon, starts, kills, asked, got>>
    PROVE  CoreInv'
  <1>1. TypeOK /\ ProcessOK(p) /\ Running(p)
    BY DEF CoreInv, Running
  <1>2. ViewType' /\ ViewQuiet /\ UNCHANGED chan
    BY <1>1, SideOf, RefusedEffect
  <1>3. /\ Becomes(p, "loop", daemon[p].fds, daemon[p].block)
        /\ ForgetsNothing(p) /\ WastesNothing(p)
    BY <1>1 DEF Becomes, ForgetsNothing, Remembers, WastesNothing, Wastes, Others, TypeOK
  <1>4. Shrinks(p) /\ HandlerOK(daemon'[p])
    BY <1>1 DEF Shrinks, KeepsWaste, ProcessOK
  <1>5. ResponseOK(p)'
    BY DEF ResponseOK
  <1>6. p \in Relays => Nothing(p)
    BY <1>1, NothingUnlessReading DEF CoreInv
  <1> QED BY <1>1, <1>2, <1>3, <1>4, <1>5, <1>6, SilentStep

--------------------------------------------------------------------------------
(* The handlers up to the blocking read(). *)

(* The login service answers the request in the block.  It never has a     *)
(* freed one.                                                              *)
LEMMA ServesStep ==
    ASSUME CoreInv, NEW fd \in Fds, daemon["service"].pc = "loop",
           NEW m, m = daemon["service"].block[fd], m # NoMessage, Serves("service", fd, m, FALSE),
           UNCHANGED <<starts, kills, asked, got>>
    PROVE  CoreInv'
  <1> DEFINE p == "service"
             a == AnswerTo(m)
  <1>1. /\ TypeOK /\ p \in Daemons /\ p \notin Relays /\ Running(p) /\ ProcessOK(p)
        /\ m = daemon[p].block[fd] /\ m \in Messages /\ m.kind = "request" /\ ~daemon[p].doomed
    BY ProcessType DEF CoreInv, Daemons, Relays, Running, ProcessOK, HandlerOK
  <1>2. a \in Messages /\ a.kind = "answer"
    BY <1>1 DEF AnswerTo, Messages
  <1>3. /\ daemon' = [daemon EXCEPT ![p].pc = "answer", ![p].to = fd, ![p].message = m,
                                    ![p].doomed = FALSE, ![p].response = a]
        /\ UNCHANGED <<view, chan>>
    BY DEF Serves, AnswerTo
  <1>4. a = AnswerTo(m) /\ p = "service"
    OBVIOUS
  <1> HIDE DEF p, a
  <1>5. /\ Becomes(p, "answer", daemon[p].fds, daemon[p].block) /\ Remembers(p, fd, m, FALSE, a)
        /\ WastesNothing(p)
    BY <1>1, <1>2, <1>3, ServeEffect
  <1>6. Shrinks(p) /\ ViewType' /\ ViewQuiet
    BY <1>1, <1>3, <1>5
    DEF Becomes, Shrinks, KeepsWaste, WastesNothing, Wastes, TypeOK, ViewType, ViewQuiet
  <1>7. ResponseOK(p)'
    BY <1>1, <1>2, <1>4, <1>5 DEF ResponseOK, Sound, Becomes, Remembers
  <1>8. HandlerOK(daemon'[p])
    BY <1>1, <1>5 DEF HandlerOK, Becomes, Remembers
  <1> QED BY <1>1, <1>3, <1>5, <1>6, <1>7, <1>8, SilentStep

(* p writes m to the connection k of its descriptor fd, which arrives. *)
Sends(p, fd, k, t, m) ==
    /\ k = daemon[p].fds[fd] /\ k # NoLink /\ t = Other(Side(p, k))
    /\ view[k][Side(p, k)] = "open" /\ m \in Messages /\ Arrives(k, t, m)

(* Whoever has lost the next daemon may send a request down. *)
LEMMA RequestDown ==
    ASSUME CoreInv, NEW p \in Relays, Running(p), ~Sound(p), NEW fd \in Fds, NEW k, NEW t, NEW m,
           Sends(p, fd, k, t, m), m.kind = "request",
           SameFds, Others(p), Shrinks(p), ViewQuiet, UNCHANGED starts, ChanType',
           NEW q \in Relays, Up(q) = p
    PROVE  ExchangeOK(q)'
  <1>1. p \in Daemons /\ q # p /\ p # "service" /\ daemon'[q] = daemon[q]
    BY UpFacts DEF Others
  <1>2. CASE ~Running(q)
    BY <1>2, UpFacts DEF SameFds, ExchangeOK
  <1>3. CASE Running(q)
    <2>1. TypeOK /\ ProcessOK(q) /\ ExchangeOK(q) /\ ProcessOK(p)
      BY <1>1, UpFacts DEF CoreInv
    <2>2. /\ Own(q) \in Links /\ Own(q)' = Own(q) /\ (InTouch(q)' <=> InTouch(q))
          /\ End(Own(q), "upper") = p /\ End(Own(q), "lower") = q
      BY <1>3, <2>1, TouchSame, OwnLink
    <2>3. CASE k # Own(q)
      <3>1. /\ chan'[Own(q)]["lower"] = chan[Own(q)]["lower"]
            /\ chan'[Own(q)]["upper"] = chan[Own(q)]["upper"]
        BY <2>2, <2>3 DEF Sends, Arrives, ElsewhereSame, Sides
      <3>2. chan[Own(q)] \in [Sides -> Seq(Messages)] /\ chan'[Own(q)] \in [Sides -> Seq(Messages)]
        BY <2>1, <2>2 DEF TypeOK, ChanType
      <3>3. chan'[Own(q)] = chan[Own(q)]
        BY <3>1, <3>2 DEF Sides
      <3> QED BY <1>1, <3>3, BelowFrame DEF Shrinks
    <2>4. CASE k = Own(q)
      <3>1. t = "lower"
        BY <1>1, <2>2, <2>4 DEF Sends, Side, Other
      <3>2. ~InTouch(q)
        BY DEF InTouch
      <3> DEFINE old == chan[Own(q)].lower
                 new == chan'[Own(q)].lower
      <3>3. new = Append(old, m) /\ old \in Seq(Messages) /\ m \in Messages
        BY <2>1, <2>2, <2>4, <3>1 DEF Sends, Arrives, TypeOK, Sides
      <3> HIDE DEF old, new
      <3>4. \A i \in DOMAIN new : \/ i \in DOMAIN old /\ new[i] = old[i]
                                  \/ new[i] = m
        BY <3>3, AppendFacts
      <3>5. \A i \in DOMAIN new : new[i].kind = "answer" => i \in DOMAIN old /\ new[i] = old[i]
        BY <3>4
      <3>6. AnswerSent(q)'
        BY <1>1, <1>3, <2>1, <2>2, <3>2, <3>5 DEF ExchangeOK, AnswerSent, old, new
      <3>8. Back(q)' <=> Back(q)
        BY <1>1 DEF Back
      <3>7. RequestBack(q)'
        BY <3>8, <1>1, <1>3, <2>1, <2>2, <3>2, <3>5 DEF ExchangeOK, RequestBack, old, new
      <3> QED BY <2>2, <3>2, <3>6, <3>7 DEF ExchangeOK, RequestSent, RequestHeld
    <2> QED BY <2>3, <2>4
  <1> QED BY <1>2, <1>3

(* A client may be sent a request, but that is no answer. *)
LEMMA RequestToClient ==
    ASSUME CoreInv, NEW fd \in Fds, NEW k, NEW t, NEW m, Sends("receiver", fd, k, t, m),
           m.kind = "request", SameFds, Shrinks("receiver"), ViewQuiet, UNCHANGED <<asked, got>>,
           daemon["receiver"].doomed => daemon'["receiver"].doomed, NEW c \in Clients
    PROVE  ClientOK(c)'
  <1>1. TypeOK /\ ClientOK(c) /\ c \in Links /\ "receiver" \in Daemons
    BY DEF CoreInv, Links, Daemons, Relays
  <1>2. End(c, "lower") = c /\ c # "receiver"
    BY <1>1, Ends
  <1>3. k = c => t = "lower"
    BY <1>2 DEF Sends, Side, Other
  <1>4. chan'[c]["upper"] = chan[c]["upper"]
    BY <1>1, <1>3 DEF Sends, Arrives, ElsewhereSame, Sides
  <1> DEFINE old == chan[c].lower
             new == chan'[c].lower
  <1>5. \A i \in DOMAIN new : new[i].kind = "answer" => i \in DOMAIN old /\ new[i] = old[i]
    <2>1. CASE k # c
      <3>1. new = old
        BY <1>1, <2>1 DEF Sends, Arrives, ElsewhereSame, Sides
      <3> QED BY <3>1
    <2>2. CASE k = c
      <3>1. new = Append(old, m) /\ old \in Seq(Messages) /\ m \in Messages
        BY <1>1, <1>3, <2>2 DEF Sends, Arrives, TypeOK, Sides
      <3> HIDE DEF old, new
      <3> QED BY <3>1, AppendFacts
    <2> QED BY <2>1, <2>2
  <1>6. \A i \in DOMAIN old : i \in DOMAIN new /\ new[i] = old[i]
    <2>1. CASE k # c
      BY <1>1, <2>1 DEF Sends, Arrives, ElsewhereSame, Sides
    <2>2. CASE k = c
      <3>1. new = Append(old, m) /\ old \in Seq(Messages) /\ m \in Messages
        BY <1>1, <1>3, <2>2 DEF Sends, Arrives, TypeOK, Sides
      <3> HIDE DEF old, new
      <3> QED BY <3>1
    <2> QED BY <2>1, <2>2
  <1>7. \A n : AnsweredBefore(c, n) => AnsweredBefore(c, n)'
    BY <1>5 DEF AnsweredBefore
  <1>9. daemon'["receiver"].fds = daemon["receiver"].fds
    BY <1>1 DEF SameFds
  <1> SUFFICES ASSUME Trusted(c)
               PROVE  got[c] <= asked[c] /\ AnswersOK(c)' /\ BlocksOK(c)' /\ SentOK(c)'
    BY TrustKept DEF ClientOK
  <1>8. AnswersOK(c)'
    <2>1. SUFFICES ASSUME NEW i \in DOMAIN new, new[i].kind = "answer"
                   PROVE  /\ new[i].client = c
                          /\ got[c] < new[i].n /\ new[i].n <= asked[c]
                          /\ \A j \in 1 .. i - 1 : new[j].kind = "answer" => new[j].n < new[i].n
      BY DEF AnswersOK
    <2>2. i \in DOMAIN old /\ new[i] = old[i]
      BY <1>5, <2>1
    <2>3. \A j \in 1 .. i - 1 : j \in DOMAIN old
      <3>1. old \in Seq(Messages)
        BY <1>1 DEF TypeOK, Sides
      <3> HIDE DEF old
      <3> QED BY <2>2, <3>1
    <2>4. \A j \in 1 .. i - 1 : new[j] = old[j]
      BY <1>6, <2>3
    <2> QED BY <1>1, <2>1, <2>2, <2>4 DEF ClientOK, AnswersOK
  <1>10. BlocksOK(c)'
    BY <1>1, <1>7, <1>9 DEF ClientOK, BlocksOK, Shrinks
  <1>11. SentOK(c)'
    BY <1>1, <1>4, <1>7, <1>9 DEF ClientOK, SentOK, Shrinks
  <1> QED BY <1>1, <1>8, <1>10, <1>11 DEF ClientOK

(* The request goes to the next daemon, and p waits for its answer. *)
LEMMA ForwardsOwn ==
    ASSUME CoreInv, NEW p \in Relays, daemon[p].pc = "loop", NEW fd \in Fds,
           NEW u, NEW k, NEW t, NEW m, NEW doomed,
           Sends(p, u, k, t, m), k = Own(p),
           Becomes(p, "read", daemon[p].fds, daemon[p].block),
           Remembers(p, fd, m, doomed, daemon[p].response), WastesNothing(p), SameFds, ViewQuiet, UNCHANGED starts
    PROVE  ExchangeOK(p)'
  <1>1. TypeOK /\ ProcessOK(p) /\ ExchangeOK(p) /\ Running(p) /\ p \in Daemons
    BY UpFacts DEF CoreInv, Running
  <1>2. Nothing(p)
    BY <1>1, NothingUnlessReading
  <1>3. /\ Own(p) \in Links /\ Own(p)' = Own(p) /\ (InTouch(p)' <=> InTouch(p))
        /\ End(Own(p), "lower") = p
    BY <1>1, TouchSame, OwnLink
  <1>4. /\ daemon'[Up(p)] = daemon[Up(p)] /\ daemon'[p].fds = daemon[p].fds
        /\ daemon'[p].upFd = daemon[p].upFd /\ daemon'[p].block = daemon[p].block
        /\ daemon'[p].pc = "read" /\ Running(p)' /\ daemon'[p].message = m
        /\ daemon'[p].waste = daemon[p].waste
    BY UpFacts DEF Becomes, Others, Running, Remembers, WastesNothing, Wastes
  <1>5. t = "upper"
    BY <1>3 DEF Sends, Side, Other
  <1>6. chan'[Own(p)]["lower"] = chan[Own(p)]["lower"]
    BY <1>3, <1>5 DEF Sends, Arrives, ElsewhereSame, Sides
  <1>7. chan'[Own(p)]["upper"] = Append(chan[Own(p)]["upper"], m) /\ m \in Messages
    BY <1>5 DEF Sends, Arrives
  <1>8. RequestSent(p)'
    <2>1. SUFFICES ASSUME InTouch(p)
                   PROVE  /\ chan'[Own(p)].lower = << >>
                          /\ Len(chan'[Own(p)].upper) = 1 /\ m = chan'[Own(p)].upper[1]
                          /\ \A f \in Fds : daemon[Up(p)].fds[f] = Own(p) =>
                                daemon[Up(p)].block[f] = NoMessage
      BY <1>3, <1>4 DEF RequestSent, Awaits
    <2>2. /\ chan[Own(p)].upper = << >> /\ chan[Own(p)].lower = << >>
          /\ \A f \in Fds : daemon[Up(p)].fds[f] = Own(p) => daemon[Up(p)].block[f] = NoMessage
      BY <1>2, <2>1 DEF Nothing
    <2>3. chan'[Own(p)].upper = <<m>>
      BY <1>7, <2>2
    <2> QED BY <1>6, <2>2, <2>3
  <1>9. RequestHeld(p)'
    BY <1>2, <1>3, <1>4 DEF RequestHeld, Nothing
  <1>10. AnswerSent(p)'
    BY <1>1, <1>2, <1>3, <1>4, <1>6 DEF AnswerSent, Nothing
  <1>11. Back(p)' <=> Back(p)
    BY <1>4 DEF Back
  <1>12. RequestBack(p)'
    BY <1>1, <1>2, <1>3, <1>4, <1>6, <1>11 DEF RequestBack, ExchangeOK, Nothing
  <1> QED BY <1>12, <1>8, <1>9, <1>10 DEF ExchangeOK

(* Only the connection written to carries something new. *)
LEMMA SendsElsewhere ==
    ASSUME CoreInv, ChanType', NEW p, NEW fd, NEW k, NEW t, NEW m, Sends(p, fd, k, t, m)
    PROVE  \A j \in Links : j # k => chan'[j] = chan[j]
  <1> SUFFICES ASSUME NEW j \in Links, j # k PROVE chan'[j] = chan[j]
    OBVIOUS
  <1>1. chan'[j]["lower"] = chan[j]["lower"] /\ chan'[j]["upper"] = chan[j]["upper"]
    BY DEF Sends, Arrives, ElsewhereSame, Sides
  <1>2. chan[j] \in [Sides -> Seq(Messages)] /\ chan'[j] \in [Sides -> Seq(Messages)]
    BY DEF CoreInv, TypeOK, ChanType
  <1> QED BY <1>1, <1>2 DEF Sides

(* dealClientMessage() of a relay up to its read(). *)
LEMMA ForwardsStep ==
    ASSUME CoreInv, NEW p \in Relays, NEW fd \in Fds, daemon[p].pc = "loop",
           NEW doomed \in BOOLEAN, NEW m \in Messages, m # NoMessage, m.kind = "request",
           ~doomed => m = daemon[p].block[fd],
           doomed => \E w \in daemon[p].waste : w.fd = fd,
           NEW u, u = daemon[p].upFd, NEW k, k = daemon[p].fds[u], k # NoLink, Written(p, k, m),
           Becomes(p, "read", daemon[p].fds, daemon[p].block),
           Remembers(p, fd, m, doomed, daemon[p].response), WastesNothing(p),
           UNCHANGED <<starts, kills, asked, got>>
    PROVE  CoreInv'
  <1>1. TypeOK /\ ProcessOK(p) /\ ExchangeOK(p) /\ Running(p) /\ p \in Daemons /\ p # "service"
    BY UpFacts DEF CoreInv, Running
  <1>2. u \in Fds
    BY <1>1 DEF ProcessOK
  <1> DEFINE s == Side(p, k)
             t == Other(s)
  <1>3. k \in Links /\ s \in Sides /\ t \in Sides
    BY <1>1, <1>2, SideOf DEF Sides
  <1>4. HandlerOK(daemon'[p]) /\ ~daemon[p].doomed
    BY <1>1 DEF ProcessOK, HandlerOK, Becomes, Remembers, WastesNothing, Wastes
  <1>6. s = Side(p, k) /\ t = Other(s)
    OBVIOUS
  <1> HIDE DEF s, t
  <1>7. /\ ViewType' /\ ViewQuiet /\ ChanType'
        /\ \/ UNCHANGED chan
           \/ view[k][s] = "open" /\ Arrives(k, t, m)
    BY <1>1, <1>3, <1>4, <1>6, WrittenEffect
  <1>8. Shrinks(p) /\ Others(p) /\ SameFds /\ daemon' \in [Daemons -> Processes]
    BY <1>1, BecomesSameFds DEF Shrinks, KeepsWaste, WastesNothing, Wastes, Becomes
  <1>9. ResponseOK(p)'
    BY DEF Becomes, ResponseOK
  <1>10. Nothing(p)
    BY <1>1, NothingUnlessReading
  <1>11. CASE UNCHANGED chan
    BY <1>1, <1>4, <1>6, <1>7, <1>8, <1>9, <1>10, <1>11, SilentStep
  <1>12. CASE view[k][s] = "open" /\ Arrives(k, t, m)
    <2>1. Sends(p, u, k, t, m)
      BY <1>4, <1>6, <1>12 DEF Sends
    <2>2. ProcessOK(p)'
      <3>1. \A f \in Fds : daemon[p].block[f] # NoMessage =>
                daemon[p].fds[f] # NoLink /\ daemon[p].block[f].kind = "request"
        BY <1>1 DEF ProcessOK
      <3> QED BY <1>1, <1>4, <1>6, <1>8, <3>1, ProcessStep DEF Shrinks
    <2>3. \A j \in Links : TrafficOK(j)'
      BY <1>1, <1>2, <1>3, <1>4, <1>7, <1>12, TrafficMore
    <2>4. Foreign(p)
      BY <1>1, <1>2, <1>3, <1>7, <1>12, ForeignIfElsewhere DEF Arrives
    <2>5. ExchangeOK(p)'
      <3>1. CASE k = Own(p)
        BY <1>4, <1>6, <1>7, <1>8, <2>1, <3>1, ForwardsOwn
      <3>2. CASE k # Own(p)
        <4>1. \A j \in Links : j # k => chan'[j] = chan[j]
          BY <1>7, <2>1, SendsElsewhere
        <4>2. chan'[Own(p)] = chan[Own(p)]
          BY <1>1, <3>2, <4>1, OwnLink
        <4> QED BY <1>1, <1>7, <1>8, <1>10, <4>2, ExchangeStill
      <3> QED BY <3>1, <3>2
    <2>6. ASSUME NEW q \in Relays, Up(q) = p PROVE ExchangeOK(q)'
      <3>1. CASE k = Own(p)
        <4>1. daemon'[q] = daemon[q]
          BY <1>8, <2>6, UpFacts DEF Others
        <4>2. ASSUME Running(q) PROVE chan'[Own(q)] = chan[Own(q)]
          <5>1. Own(q) \in Links /\ Own(q)[1] = q /\ Own(p)[1] = p
            BY <1>1, <4>2, OwnLink, UpFacts DEF CoreInv
          <5>2. Own(q) # k
            BY <2>6, <3>1, <5>1, UpFacts
          <5>3. \A j \in Links : j # k => chan'[j] = chan[j]
            BY <1>7, <2>1, SendsElsewhere
          <5> QED BY <5>1, <5>2, <5>3
        <4> QED BY <1>7, <1>8, <2>6, <4>1, <4>2, BelowFrame DEF Shrinks
      <3>2. CASE k # Own(p)
        <4>1. ~Sound(p)
          BY <1>1, <3>2 DEF Sound
        <4> QED BY <1>1, <1>2, <1>4, <1>7, <1>8, <2>1, <2>6, <4>1, RequestDown
      <3> QED BY <3>1, <3>2
    <2>7. ASSUME p = "receiver", NEW c \in Clients PROVE ClientOK(c)'
      BY <1>2, <1>4, <1>7, <1>8, <2>1, <2>7, RequestToClient
    <2> QED BY <1>1, <1>7, <1>8, <1>9, <2>2, <2>3, <2>4, <2>5, <2>6, <2>7, QuietStep
  <1> QED BY <1>7, <1>11, <1>12

(* A handler that ends without having sent or read anything. *)
LEMMA ReturnStep ==
    ASSUME CoreInv, NEW p \in Daemons, Running(p), NEW fd \in Fds, NEW m \in Messages,
           NEW doomed \in BOOLEAN, NEW ok \in BOOLEAN, HandlerReturns(p, fd, m, doomed, ok),
           ~doomed => m = daemon[p].block[fd] /\ m # NoMessage /\ ~daemon[p].doomed,
           ViewType', ViewQuiet, UNCHANGED <<starts, kills, chan, asked, got>>,
           p \in Relays => Nothing(p)
    PROVE  CoreInv'
  <1>1. TypeOK
    BY DEF CoreInv
  <1>2. CASE doomed = FALSE
    <2> DEFINE block == [daemon[p].block EXCEPT ![fd] = NoMessage]
    <2>1. /\ Becomes(p, "loop", daemon[p].fds, block)
          /\ Remembers(p, 0, NoMessage, daemon[p].doomed, NoMessage)
      BY <1>1, <1>2, ReturnEffect
    <2>2. KeepsWaste(p)
      <3>1. WastesOne(p, fd, m)
        BY <1>1, <1>2, ReturnEffect
      <3> QED BY <1>2, <3>1 DEF KeepsWaste, WastesOne
    <2>3. Shrinks(p)
      BY <1>1, <2>1, <2>2, ProcessType DEF Shrinks, Becomes
    <2>4. ResponseOK(p)' /\ HandlerOK(daemon'[p])
      BY <1>2, <2>1 DEF Becomes, Remembers, ResponseOK, HandlerOK
    <2> HIDE DEF block
    <2> QED BY <1>2, <2>1, <2>3, <2>4, SilentStep
  <1>3. CASE doomed = TRUE
    <2>1. /\ Becomes(p, "abort", daemon[p].fds, daemon[p].block)
          /\ Remembers(p, daemon[p].to, daemon[p].message, TRUE, daemon[p].response)
          /\ WastesNothing(p)
      BY <1>1, <1>3, AbortEffect
    <2>2. Shrinks(p)
      BY <2>1 DEF Shrinks, KeepsWaste, WastesNothing, Wastes, Becomes
    <2>3. ResponseOK(p)' /\ HandlerOK(daemon'[p]) /\ daemon'[p].doomed
      BY <2>1 DEF Becomes, Remembers, ResponseOK, HandlerOK
    <2> QED BY <2>1, <2>2, <2>3, SilentStep
  <1> QED BY <1>2, <1>3

(* The request cannot be forwarded. *)
LEMMA CannotForwardStep ==
    ASSUME CoreInv, NEW p \in Relays, NEW fd \in Fds, daemon[p].pc = "loop",
           NEW m \in Messages, NEW doomed \in BOOLEAN,
           ~doomed => m = daemon[p].block[fd] /\ m # NoMessage,
           CannotForward(p, fd, m, doomed), UNCHANGED <<starts, kills, asked, got>>
    PROVE  CoreInv'
  <1>1. TypeOK /\ ProcessOK(p) /\ ExchangeOK(p) /\ Running(p) /\ p \in Daemons
    BY UpFacts DEF CoreInv, Running
  <1>2. daemon[p].upFd \in Fds /\ Nothing(p) /\ ~daemon[p].doomed
    BY <1>1, NothingUnlessReading DEF ProcessOK, HandlerOK
  <1>3. ViewType' /\ ViewQuiet /\ UNCHANGED chan
    <2>1. CASE UNCHANGED <<view, chan>>
      BY <1>1, <2>1 DEF TypeOK, ViewType, ViewQuiet
    <2>2. CASE daemon[p].fds[daemon[p].upFd] # NoLink /\ Refused(p, daemon[p].fds[daemon[p].upFd])
      BY <1>1, <1>2, <2>2, SideOf, RefusedEffect
    <2> QED BY <2>1, <2>2 DEF CannotForward
  <1>4. HandlerReturns(p, fd, m, doomed, FALSE)
    BY DEF CannotForward
  <1> QED BY <1>1, <1>2, <1>3, <1>4, ReturnStep

--------------------------------------------------------------------------------
(* The blocking read(). *)

(* p reads m, the first of what the connection of upFd holds. *)
Gets(p, u, k, s, m) ==
    /\ u = daemon[p].upFd /\ k = daemon[p].fds[u] /\ k # NoLink /\ s = Side(p, k)
    /\ m \in Messages /\ 1 \in DOMAIN chan[k][s] /\ m = chan[k][s][1]
    /\ chan'[k][s] = << >> /\ ElsewhereSame(k, s)
    /\ Becomes(p, "answer", daemon[p].fds, daemon[p].block)
    /\ Remembers(p, daemon[p].to, daemon[p].message, daemon[p].doomed, m) /\ WastesNothing(p)

(* What p reads is the answer to the message it handles, or no answer. *)
LEMMA GetsOwnAnswer ==
    ASSUME CoreInv, NEW p \in Relays, daemon[p].pc = "read",
           NEW u, NEW k, NEW s, NEW m, Gets(p, u, k, s, m), SameFds, UNCHANGED starts
    PROVE  ResponseOK(p)'
  <1>1. TypeOK /\ ProcessOK(p) /\ ExchangeOK(p) /\ Running(p) /\ p \in Daemons /\ p # "service"
    BY UpFacts DEF CoreInv, Running
  <1>2. u \in Fds /\ daemon[p].to \in Fds
    BY <1>1 DEF ProcessOK, HandlerOK, Gets
  <1>3. /\ k \in Links
        /\ \/ s = "lower" /\ k = Own(p)
           \/ s = "upper" /\ k # Own(p)
    BY <1>1, <1>2, SideOf DEF Gets
  <1>4. /\ daemon'[p].fds = daemon[p].fds /\ daemon'[p].message = daemon[p].message
        /\ daemon'[p].to = daemon[p].to /\ daemon'[p].response = m /\ Own(p)' = Own(p)
        /\ (Sound(p)' <=> Sound(p))
    BY <1>1, SoundSame DEF Gets, Becomes, Remembers, Own
  <1>5. ASSUME m.kind = "answer"
        PROVE  Sound(p) /\ m = AnswerTo(daemon[p].message)
               /\ daemon[p].fds[daemon[p].to] # Own(p)
    <2>1. s = "lower" /\ k = Own(p)
      <3>1. TrafficOK(k)
        BY <1>3 DEF CoreInv
      <3> QED BY <1>3, <1>5, <3>1 DEF TrafficOK, Gets
    <2>2. 1 \in DOMAIN chan[Own(p)].lower /\ chan[Own(p)].lower[1] = m
      BY <2>1 DEF Gets
    <2>3. m = AnswerTo(daemon[p].message)
      BY <1>1, <1>5, <2>2 DEF ExchangeOK, AnswerSent
    <2>4. daemon[p].fds[u] = Own(p) /\ u = daemon[p].upFd
      BY <2>1 DEF Gets
    <2>5. daemon[p].fds[daemon[p].to] # Own(p)
      <3>1. SUFFICES ASSUME daemon[p].fds[daemon[p].to] = Own(p) PROVE FALSE
        OBVIOUS
      <3>2. daemon[p].to = u
        BY <1>1, <1>2, <2>4, <3>1, OwnLink DEF ProcessOK
      <3>3. Back(p)
        BY <1>1, <2>4, <3>2 DEF ProcessOK, HandlerOK, Back
      <3> QED BY <1>1, <1>5, <2>2, <2>4, <3>3 DEF ExchangeOK, RequestBack
    <2> QED BY <1>1, <2>3, <2>4, <2>5 DEF Sound
  <1>6. ASSUME m.kind = "request", p # "receiver" PROVE ~Sound(p)
    <2>1. SUFFICES ASSUME Sound(p) PROVE FALSE
      OBVIOUS
    <2>2. k = Own(p)
      BY <1>1, <2>1 DEF Sound, Gets
    <2>3. 1 \in DOMAIN chan[Own(p)].lower /\ chan[Own(p)].lower[1] = m
      BY <1>3, <2>2 DEF Gets
    <2>4. Up(p) = "service"
      BY <1>6 DEF Up
    <2> QED BY <1>1, <1>6, <2>3, <2>4 DEF ExchangeOK, RequestBack
  <1> QED BY <1>4, <1>5, <1>6 DEF ResponseOK

(* The exchange of p is over. *)
LEMMA GetsOwn ==
    ASSUME CoreInv, NEW p \in Relays, daemon[p].pc = "read",
           NEW u, NEW k, NEW s, NEW m, Gets(p, u, k, s, m), SameFds, ViewQuiet, UNCHANGED starts
    PROVE  ExchangeOK(p)'
  <1>1. TypeOK /\ ProcessOK(p) /\ ExchangeOK(p) /\ Running(p) /\ p \in Daemons
    BY UpFacts DEF CoreInv, Running
  <1>2. u \in Fds
    BY <1>1 DEF ProcessOK, Gets
  <1>3. \/ s = "lower" /\ k = Own(p)
        \/ s = "upper" /\ k # Own(p)
    BY <1>1, <1>2, SideOf DEF Gets
  <1>4. Own(p) \in Links /\ Own(p)' = Own(p) /\ (InTouch(p)' <=> InTouch(p))
    BY <1>1, TouchSame, OwnLink
  <1>5. /\ daemon'[Up(p)] = daemon[Up(p)] /\ daemon'[p].fds = daemon[p].fds
        /\ daemon'[p].upFd = daemon[p].upFd /\ (Back(p)' <=> Back(p))
    BY UpFacts DEF Gets, Becomes, Others, WastesNothing, Wastes, Back
  <1>6. /\ chan'[Own(p)]["lower"] = chan[Own(p)]["lower"] \/ chan'[Own(p)]["lower"] = << >>
        /\ chan'[Own(p)]["upper"] = chan[Own(p)]["upper"]
    BY <1>3, <1>4 DEF Gets, ElsewhereSame, Sides
  <1>7. Nothing(p)'
    <2>1. CASE s = "lower" /\ k = Own(p)
      <3>1. chan'[Own(p)].lower = << >> /\ chan[Own(p)].lower # << >>
        BY <2>1 DEF Gets
      <3>2. InTouch(p) =>
               /\ chan[Own(p)].upper = << >>
               /\ \A f \in Fds : daemon[Up(p)].fds[f] = Own(p) => daemon[Up(p)].block[f] = NoMessage
        BY <1>1, <3>1 DEF ExchangeOK, RequestSent, RequestHeld
      <3> QED BY <1>4, <1>5, <1>6, <3>1, <3>2 DEF Nothing
    <2>2. CASE k # Own(p)
      <3>1. daemon[p].fds[daemon[p].upFd] # Own(p)
        BY <2>2 DEF Gets
      <3>2. Nothing(p) /\ ~InTouch(p)
        BY <1>1, <3>1, NothingIfLost
      <3> QED BY <1>4, <1>5, <1>6, <3>2 DEF Nothing
    <2> QED BY <1>3, <2>1, <2>2
  <1>8. RequestBack(p)'
    BY <1>1, <1>4, <1>5, <1>6 DEF ExchangeOK, RequestBack
  <1> QED BY <1>7, <1>8, ExchangeIfNothing

(* The relay below is not in touch if p reads what it wrote. *)
LEMMA GetsBelow ==
    ASSUME CoreInv, NEW p \in Relays, Running(p),
           NEW u \in Fds, NEW k, NEW s, NEW m, Gets(p, u, k, s, m), SameFds, ViewQuiet,
           UNCHANGED starts, ChanType', NEW q \in Relays, Up(q) = p
    PROVE  ExchangeOK(q)'
  <1>1. daemon'[q] = daemon[q] /\ q # p /\ p \in Daemons /\ p # "service"
    BY UpFacts DEF Gets, Becomes, Others
  <1>2. CASE ~Running(q)
    BY <1>2, UpFacts DEF SameFds, ExchangeOK
  <1>3. CASE Running(q)
    <2>1. TypeOK /\ ProcessOK(q) /\ ExchangeOK(q) /\ ProcessOK(p)
      BY <1>1, UpFacts DEF CoreInv
    <2>2. /\ Own(q) \in Links /\ Own(q)' = Own(q) /\ (InTouch(q)' <=> InTouch(q))
          /\ End(Own(q), "upper") = p /\ End(Own(q), "lower") = q
      BY <1>3, <2>1, TouchSame, OwnLink
    <2>3. CASE k # Own(q)
      <3>1. /\ chan'[Own(q)]["lower"] = chan[Own(q)]["lower"]
            /\ chan'[Own(q)]["upper"] = chan[Own(q)]["upper"]
        BY <2>2, <2>3 DEF Gets, ElsewhereSame, Sides
      <3>2. chan[Own(q)] \in [Sides -> Seq(Messages)] /\ chan'[Own(q)] \in [Sides -> Seq(Messages)]
        BY <2>1, <2>2 DEF TypeOK, ChanType
      <3>3. chan'[Own(q)] = chan[Own(q)]
        BY <3>1, <3>2 DEF Sides
      <3> QED BY <1>1, <3>3, BelowFrame DEF Gets, Becomes
    <2>4. CASE k = Own(q)
      <3>1. s = "upper"
        BY <1>1, <2>2, <2>4 DEF Gets, Side
      <3>2. chan'[Own(q)]["lower"] = chan[Own(q)]["lower"]
        BY <2>2, <2>4, <3>1 DEF Gets, ElsewhereSame, Sides
      <3>3. ~InTouch(q)
        <4>1. k # Own(p)
          BY <1>1, <2>1, <2>2, <2>4, OwnLink
        <4> QED BY <1>1, <4>1 DEF InTouch, Sound, Gets
      <3>5. Back(q)' <=> Back(q)
        BY <1>1 DEF Back
      <3>4. AnswerSent(q)' /\ RequestBack(q)'
        BY <1>1, <1>3, <2>1, <2>2, <3>2, <3>3, <3>5 DEF ExchangeOK, AnswerSent, RequestBack
      <3> QED BY <2>2, <3>3, <3>4 DEF ExchangeOK, RequestSent, RequestHeld
    <2> QED BY <2>3, <2>4
  <1> QED BY <1>2, <1>3

(* read() returns with data. *)
LEMMA GetsStep ==
    ASSUME CoreInv, NEW p \in Relays, daemon[p].pc = "read",
           NEW u, NEW k, NEW s, NEW m, Gets(p, u, k, s, m), ChanType',
           UNCHANGED <<starts, kills, view, asked, got>>
    PROVE  CoreInv'
  <1>1. TypeOK /\ ProcessOK(p) /\ Running(p) /\ p \in Daemons
    BY UpFacts DEF CoreInv, Running
  <1>2. u \in Fds
    BY <1>1 DEF ProcessOK, Gets
  <1>3. k \in Links /\ s \in Sides
    BY <1>1, <1>2, SideOf DEF Gets
  <1>4. Becomes(p, "answer", daemon[p].fds, daemon[p].block) /\ WastesNothing(p)
        /\ Remembers(p, daemon[p].to, daemon[p].message, daemon[p].doomed, m)
    BY DEF Gets
  <1>5. SameFds /\ Others(p) /\ daemon' \in [Daemons -> Processes] /\ ViewType' /\ ViewQuiet
    BY <1>1, <1>4, BecomesSameFds DEF Becomes, TypeOK, ViewType, ViewQuiet
  <1>6. ProcessOK(p)'
    <2>1. \A f \in Fds : daemon[p].block[f] # NoMessage =>
              daemon[p].fds[f] # NoLink /\ daemon[p].block[f].kind = "request"
      BY <1>1 DEF ProcessOK
    <2>2. HandlerOK(daemon'[p]) /\ KeepsWaste(p)
      BY <1>1, <1>4 DEF ProcessOK, HandlerOK, Becomes, Remembers, WastesNothing, Wastes, KeepsWaste
    <2> QED BY <1>1, <1>4, <2>1, <2>2, ProcessStep
  <1>7. ASSUME NEW j \in Links PROVE TrafficOK(j)'
    BY <1>5, TrafficLess DEF Gets, ElsewhereSame
  <1>8. Foreign(p)
    BY <1>1, <1>2, <1>3, ForeignIfElsewhere DEF Gets
  <1>9. ResponseOK(p)' /\ ExchangeOK(p)'
    BY <1>5, GetsOwnAnswer, GetsOwn
  <1>10. \A q \in Relays : Up(q) = p => ExchangeOK(q)'
    BY <1>1, <1>2, <1>5, GetsBelow
  <1>11. ASSUME p = "receiver", NEW c \in Clients PROVE ClientOK(c)'
    <2>1. c \in Links /\ End(c, "lower") = c /\ c # p /\ ClientOK(c)
      BY <1>1, Ends DEF Links, CoreInv
    <2>2. k = c => s = "upper"
      BY <2>1 DEF Gets, Side
    <2>3. /\ chan'[c]["lower"] = chan[c]["lower"]
          /\ chan'[c]["upper"] = chan[c]["upper"] \/ chan'[c]["upper"] = << >>
      BY <2>1, <2>2 DEF Gets, ElsewhereSame, Sides
    <2>4. daemon'["receiver"].fds = daemon["receiver"].fds /\ daemon'["receiver"].block = daemon["receiver"].block
      BY <1>4, <1>11 DEF Becomes
    <2>5. Trusted(c)' => Trusted(c)
      BY <1>4, <1>5, <1>11, TrustKept DEF Remembers
    <2> QED BY <2>1, <2>3, <2>4, <2>5, ClientFrame
  <1> QED BY <1>1, <1>5, <1>6, <1>7, <1>8, <1>9, <1>10, <1>11, QuietStep

(* The other ends of read(): nothing is on its way any more. *)
LEMMA NothingToRead ==
    ASSUME CoreInv, NEW p \in Relays, Running(p),
           NEW k, k = daemon[p].fds[daemon[p].upFd], k # NoLink,
           chan[k][Side(p, k)] = << >>, view[k][Side(p, k)] # "open"
    PROVE  Nothing(p)
  <1>1. TypeOK /\ ProcessOK(p) /\ p \in Daemons
    BY UpFacts DEF CoreInv
  <1>2. CASE k = Own(p)
    <2>1. Side(p, k) = "lower"
      BY <1>1, <1>2, OwnLink DEF Side
    <2> QED BY <1>2, <2>1 DEF Nothing, InTouch
  <1>3. CASE k # Own(p)
    BY <1>3, NothingIfLost
  <1> QED BY <1>2, <1>3

(* The blocking read(). *)
LEMMA ReadResponseStep ==
    ASSUME CoreInv, NEW p \in Daemons, ReadResponse(p)
    PROVE  CoreInv'
  <1>1. TypeOK /\ ProcessOK(p) /\ Running(p) /\ daemon[p].pc = "read"
    BY DEF CoreInv, Running, ReadResponse
  <1>2. /\ p \in Relays /\ daemon[p].upFd \in Fds /\ daemon[p].fds[daemon[p].upFd] # NoLink
        /\ daemon[p].to \in Fds /\ daemon[p].message # NoMessage
    BY <1>1 DEF ProcessOK, HandlerOK
  <1>3. PICK u, k, s : u = daemon[p].upFd /\ k = daemon[p].fds[u] /\ k # NoLink /\ s = Side(p, k)
    BY <1>2
  <1>4. k \in Links /\ s \in Sides
    BY <1>1, <1>2, <1>3, SideOf
  <1>5. UNCHANGED <<starts, kills, asked, got>>
    BY DEF ReadResponse
  <1>6. CASE /\ chan[k][s] # << >>
             /\ daemon' = [daemon EXCEPT ![p].pc = "answer", ![p].response = Head(chan[k][s])]
             /\ chan' = [chan EXCEPT ![k][s] = << >>]
             /\ UNCHANGED view
    <2>1. chan[k][s] \in Seq(Messages)
      BY <1>1, <1>4 DEF TypeOK
    <2>2. PICK m \in Messages : m = Head(chan[k][s]) /\ 1 \in DOMAIN chan[k][s] /\ m = chan[k][s][1]
      BY <1>6, <2>1, HeadFacts
    <2>3. /\ Becomes(p, "answer", daemon[p].fds, daemon[p].block) /\ WastesNothing(p)
          /\ Remembers(p, daemon[p].to, daemon[p].message, daemon[p].doomed, m)
      BY <1>1, <1>6, <2>2, ResponseEffect
    <2>4. ChanType' /\ ElsewhereSame(k, s) /\ chan'[k][s] = << >>
      BY <1>1, <1>4, <1>6, EmptyEffect DEF TypeOK, ChanType
    <2>5. Gets(p, u, k, s, m)
      BY <1>3, <2>2, <2>3, <2>4 DEF Gets
    <2> QED BY <1>1, <1>2, <1>5, <1>6, <2>4, <2>5, GetsStep
  <1>7. CASE /\ chan[k][s] = << >>
             /\ view[k][s] \in {"fin", "broken"}
             /\ daemon' = [daemon EXCEPT ![p].pc = "answer", ![p].response = NoMessage]
             /\ UNCHANGED <<view, chan>>
    <2>1. /\ Becomes(p, "answer", daemon[p].fds, daemon[p].block) /\ WastesNothing(p)
          /\ Remembers(p, daemon[p].to, daemon[p].message, daemon[p].doomed, NoMessage)
      BY <1>1, <1>7, ResponseEffect
    <2>2. Nothing(p)
      BY <1>1, <1>2, <1>3, <1>7, NothingToRead
    <2>3. Shrinks(p) /\ ViewType' /\ ViewQuiet
      BY <1>1, <1>7, <2>1
      DEF Shrinks, KeepsWaste, WastesNothing, Wastes, Becomes, TypeOK, ViewType, ViewQuiet
    <2>4. ResponseOK(p)'
      BY <2>1 DEF ResponseOK, Remembers, NoMessage
    <2>5. HandlerOK(daemon'[p]) /\ (daemon[p].doomed => daemon'[p].doomed)
      BY <1>1, <2>1 DEF ProcessOK, HandlerOK, Becomes, Remembers, WastesNothing, Wastes
    <2> QED BY <1>1, <1>2, <1>5, <1>7, <2>1, <2>2, <2>3, <2>4, <2>5, SilentStep
  <1>8. CASE /\ chan[k][s] = << >>
             /\ Refused(p, k)
             /\ HandlerEnds(p, FALSE)
    <2>1. ViewType' /\ ViewQuiet /\ UNCHANGED chan /\ view[k][s] # "open"
      BY <1>1, <1>3, <1>4, <1>8, RefusedEffect
    <2>2. Nothing(p)
      BY <1>1, <1>2, <1>3, <1>8, <2>1, NothingToRead
    <2>3. PICK fd \in Fds, m \in Messages, doomed \in BOOLEAN :
              /\ HandlerReturns(p, fd, m, doomed, FALSE) /\ fd = daemon[p].to
              /\ m = daemon[p].message /\ doomed = daemon[p].doomed
      BY <1>1, <1>2, <1>8, ProcessType DEF HandlerEnds
    <2>4. ~doomed => m = daemon[p].block[fd] /\ m # NoMessage /\ ~daemon[p].doomed
      BY <1>1, <1>2, <2>3 DEF ProcessOK, HandlerOK
    <2> QED BY <1>1, <1>2, <1>5, <2>1, <2>2, <2>3, <2>4, ReturnStep
  <1> QED BY <1>3, <1>6, <1>7, <1>8 DEF ReadResponse

--------------------------------------------------------------------------------
(* The answer is passed on. *)

(* p sends the response to the block of fd, which is cleared. *)
Answers(p, fd, k, m) ==
    /\ Sends(p, fd, k, "lower", m) /\ m = daemon[p].response /\ fd = daemon[p].to
    /\ ~daemon[p].doomed
    /\ \A f \in Fds : daemon'[p].block[f] = IF f = fd THEN NoMessage ELSE daemon[p].block[f]

(* An answer finds the relay below waiting for it. *)
LEMMA AnswerDown ==
    ASSUME CoreInv, NEW p \in Daemons, daemon[p].pc = "answer", NEW fd \in Fds, NEW k, NEW m,
           Answers(p, fd, k, m), m.kind = "answer",
           SameFds, Others(p), ViewQuiet, UNCHANGED starts, ChanType',
           NEW q \in Relays, Up(q) = p
    PROVE  ExchangeOK(q)'
  <1>1. daemon'[q] = daemon[q] /\ q # p
    BY UpFacts DEF Others
  <1>2. CASE ~Running(q)
    BY <1>2, UpFacts DEF SameFds, ExchangeOK
  <1>3. CASE Running(q)
    <2>1. TypeOK /\ ProcessOK(q) /\ ExchangeOK(q) /\ ProcessOK(p) /\ ResponseOK(p)
      BY UpFacts DEF CoreInv
    <2>2. /\ Own(q) \in Links /\ Own(q)' = Own(q) /\ (InTouch(q)' <=> InTouch(q))
          /\ End(Own(q), "upper") = p /\ End(Own(q), "lower") = q /\ Own(q) \notin Clients
          /\ Own(q)[1] = q
      BY <1>3, <2>1, TouchSame, OwnLink
    <2>3. daemon'[p].fds = daemon[p].fds
      BY DEF SameFds
    <2>4. CASE k # Own(q)
      <3>1. \A j \in Links : j # k => chan'[j] = chan[j]
        BY SendsElsewhere DEF Answers
      <3>2. chan'[Own(q)] = chan[Own(q)]
        BY <2>2, <2>4, <3>1
      <3> QED BY <1>1, <3>2, BelowFrame DEF Answers
    <2>5. CASE k = Own(q)
      <3>1. view[Own(q)].upper = "open" /\ daemon[p].fds[fd] = Own(q)
        BY <1>1, <2>2, <2>5 DEF Answers, Sends, Side
      <3>2. ViewOK(Own(q))
        BY <2>2 DEF CoreInv
      <3>3. view[Own(q)].lower = "open" /\ daemon[q].fds[daemon[q].upFd] = Own(q)
        BY <2>2, <3>1, <3>2 DEF ViewOK
      <3>4. /\ Sound(p) /\ m = AnswerTo(daemon[p].block[fd]) /\ daemon[p].block[fd] # NoMessage
        BY <2>1 DEF ResponseOK, ProcessOK, HandlerOK, Answers
      <3>5. InTouch(q)
        BY <3>1, <3>3, <3>4 DEF InTouch
      <3>6. Awaits(q, daemon[p].block[fd]) /\ chan[Own(q)].lower = << >>
        BY <1>3, <2>1, <3>1, <3>4, <3>5 DEF ExchangeOK, RequestHeld
      <3>7. chan[Own(q)].upper = << >>
        BY <1>3, <2>1, <3>1, <3>4, <3>5 DEF ExchangeOK, RequestSent
      <3>8. chan'[Own(q)]["upper"] = chan[Own(q)]["upper"]
        BY <2>2, <2>5 DEF Answers, Sends, Arrives, ElsewhereSame, Sides
      <3>9. chan'[Own(q)].lower = <<m>>
        <4>1. chan'[Own(q)]["lower"] = Append(chan[Own(q)]["lower"], m)
          BY <2>5 DEF Answers, Sends, Arrives
        <4> QED BY <3>6, <4>1
      <3>10. \A i \in DOMAIN chan'[Own(q)].lower : i = 1 /\ chan'[Own(q)].lower[i] = m
        BY <3>9
      <3>11. RequestSent(q)'
        BY <2>2, <3>7, <3>8 DEF RequestSent
      <3>12. RequestHeld(q)'
        <4>1. ASSUME NEW f \in Fds, daemon[p].fds[f] = Own(q) PROVE daemon'[p].block[f] = NoMessage
          <5>1. f = fd
            BY <2>1, <2>2, <3>1, <4>1, Ends DEF ProcessOK
          <5> QED BY <5>1 DEF Answers
        <4> QED BY <2>2, <2>3, <4>1 DEF RequestHeld
      <3>13. AnswerSent(q)'
        BY <1>1, <2>2, <3>3, <3>4, <3>6, <3>10 DEF AnswerSent, Awaits
      <3>14. RequestBack(q)'
        <4>1. ~Back(q) /\ (Back(q)' <=> Back(q))
          BY <1>1, <1>3, <2>1, <3>3, <3>5 DEF ExchangeOK, RequestBack, Back
        <4> QED BY <1>1, <2>2, <3>10, <4>1 DEF RequestBack
      <3> QED BY <3>11, <3>12, <3>13, <3>14 DEF ExchangeOK
    <2> QED BY <2>4, <2>5
  <1> QED BY <1>2, <1>3

(* A client gets the answer to the request in its block. *)
LEMMA AnswerToClient ==
    ASSUME CoreInv, daemon["receiver"].pc = "answer", NEW fd \in Fds, NEW k, NEW m,
           Answers("receiver", fd, k, m), m.kind = "answer", SameFds, UNCHANGED <<asked, got>>,
           ChanType', NEW c \in Clients, Trusted(c)' => Trusted(c)
    PROVE  ClientOK(c)'
  <1>1. TypeOK /\ ClientOK(c) /\ c \in Links /\ "receiver" \in Daemons
    BY DEF CoreInv, Links, Daemons, Relays
  <1>2. ProcessOK("receiver") /\ ResponseOK("receiver")
    BY <1>1 DEF CoreInv
  <1>3. daemon'["receiver"].fds = daemon["receiver"].fds
    BY <1>1 DEF SameFds
  <1>4. CASE k # c
    <2>1. \A j \in Links : j # k => chan'[j] = chan[j]
      BY SendsElsewhere DEF Answers
    <2>2. chan'[c] = chan[c]
      BY <1>1, <1>4, <2>1
    <2> QED BY <1>1, <1>3, <2>2, ClientFrame DEF Answers
  <1>5. CASE k = c
    <2> SUFFICES ASSUME Trusted(c)
                 PROVE  got[c] <= asked[c] /\ AnswersOK(c)' /\ BlocksOK(c)' /\ SentOK(c)'
      BY DEF ClientOK
    <2>1. /\ m = AnswerTo(daemon["receiver"].block[fd]) /\ daemon["receiver"].block[fd] # NoMessage
          /\ daemon["receiver"].fds[fd] = c /\ daemon["receiver"].block[fd] \in Messages
      BY <1>1, <1>2, <1>5, ProcessType DEF ResponseOK, ProcessOK, HandlerOK, Answers, Sends
    <2>2. m.client = daemon["receiver"].block[fd].client /\ m.n = daemon["receiver"].block[fd].n
      BY <2>1 DEF AnswerTo, Messages
    <2>3. m.client = c /\ m.n <= asked[c] /\ AnsweredBefore(c, m.n) /\ m.n \in Nat
      BY <1>1, <2>1, <2>2 DEF ClientOK, BlocksOK, Messages
    <2>4. chan'[c]["upper"] = chan[c]["upper"]
      BY <1>1, <1>5 DEF Answers, Sends, Arrives, ElsewhereSame, Sides
    <2> DEFINE old == chan[c].lower
               new == chan'[c].lower
    <2>5. new = Append(old, m) /\ old \in Seq(Messages) /\ m \in Messages
      BY <1>1, <1>5 DEF Answers, Sends, Arrives, TypeOK, Sides
    <2> HIDE DEF old, new
    <2>6. \A i \in DOMAIN new : \/ i \in DOMAIN old /\ new[i] = old[i]
                                \/ i = Len(old) + 1 /\ new[i] = m
      BY <2>5, AppendFacts
    <2>7. \A i \in DOMAIN new : \A j \in 1 .. i - 1 : j \in DOMAIN old /\ new[j] = old[j]
      BY <2>5
    <2>8. AnswersOK(c)'
      <3>1. SUFFICES ASSUME NEW i \in DOMAIN new, new[i].kind = "answer"
                     PROVE  /\ new[i].client = c
                            /\ got[c] < new[i].n /\ new[i].n <= asked[c]
                            /\ \A j \in 1 .. i - 1 : new[j].kind = "answer" => new[j].n < new[i].n
        BY DEF AnswersOK, new
      <3>2. CASE i \in DOMAIN old /\ new[i] = old[i]
        <4>1. \A j \in 1 .. i - 1 : new[j] = old[j]
          BY <2>7
        <4> QED BY <1>1, <3>1, <3>2, <4>1 DEF ClientOK, AnswersOK, old
      <3>3. CASE new[i] = m
        <4>1. \A j \in DOMAIN old : old[j].kind = "answer" => old[j].n < m.n
          BY <2>3 DEF AnsweredBefore, old
        <4>2. got[c] < m.n
          BY <2>3 DEF AnsweredBefore
        <4> QED BY <2>3, <2>7, <3>3, <4>1, <4>2
      <3> QED BY <2>6, <3>2, <3>3
    <2>9. \A f \in Fds : daemon'["receiver"].fds[f] = c => daemon'["receiver"].block[f] = NoMessage
      <3>1. ASSUME NEW f \in Fds, daemon["receiver"].fds[f] = c PROVE f = fd
        BY <1>1, <1>2, <2>1, <3>1, Ends DEF ProcessOK
      <3> QED BY <1>3, <3>1 DEF Answers
    <2>10. BlocksOK(c)'
      BY <2>9 DEF BlocksOK
    <2>11. SentOK(c)'
      <3>1. SUFFICES ASSUME chan[c].upper # << >> PROVE AnsweredBefore(c, asked[c])'
        BY <1>1, <2>4, <2>9 DEF ClientOK, SentOK
      <3>2. m.n < asked[c] /\ AnsweredBefore(c, asked[c])
        BY <1>1, <2>1, <2>2, <3>1 DEF ClientOK, SentOK
      <3>3. \A i \in DOMAIN new : new[i].kind = "answer" => new[i].n < asked[c]
        BY <2>6, <3>2 DEF AnsweredBefore, old
      <3> QED BY <3>2, <3>3 DEF AnsweredBefore, new
    <2> QED BY <1>1, <2>8, <2>10, <2>11 DEF ClientOK
  <1> QED BY <1>4, <1>5

(* The response arrives: an answer, or a request of a dispatcher that has  *)
(* lost the login service.                                                 *)
LEMMA AnswersStep ==
    ASSUME CoreInv, NEW p \in Daemons, daemon[p].pc = "answer", NEW fd \in Fds, NEW k, NEW m,
           fd = daemon[p].to, m = daemon[p].response, m \in Messages,
           k = daemon[p].fds[fd], k # NoLink, p = "receiver" => m.kind = "answer",
           view[k][Side(p, k)] = "open", Arrives(k, Other(Side(p, k)), m), ChanType', ViewType', ViewQuiet,
           NEW pc \in {"abort", "loop"}, NEW block, Becomes(p, pc, daemon[p].fds, block),
           Shrinks(p), HandlerOK(daemon'[p]), daemon[p].doomed => daemon'[p].doomed,
           \/ ~daemon[p].doomed /\ block = [daemon[p].block EXCEPT ![fd] = NoMessage]
           \/ daemon'[p].doomed /\ (p = "receiver" \/ m.kind # "answer"),
           UNCHANGED <<starts, kills, asked, got>>
    PROVE  CoreInv'
  <1>1. TypeOK /\ ProcessOK(p) /\ ResponseOK(p) /\ Running(p)
    BY DEF CoreInv, Running
  <1>3. m.kind = "answer" \/ (m.kind = "request" /\ ~Sound(p) /\ p \in Relays)
    <2>1. m.kind = "answer" \/ m.kind = "request"
      BY DEF Messages
    <2> QED BY <1>1, <2>1 DEF ResponseOK, Sound, Daemons
  <1>4. p \in Relays => k # Own(p)
    <2>1. CASE m.kind = "answer"
      BY <1>1, <2>1 DEF ResponseOK
    <2>2. ASSUME p \in Relays, ~Sound(p), k = Own(p) PROVE FALSE
      BY <1>1, <2>2, SideOf DEF Sound
    <2> QED BY <1>3, <2>1, <2>2
  <1>5. k \in Links /\ Other(Side(p, k)) = "lower" /\ End(k, "upper") = p
    BY <1>1, <1>4, SideOf
  <1>6. Sends(p, fd, k, "lower", m)
    BY <1>5 DEF Sends
  <1>7. SameFds /\ Others(p) /\ daemon' \in [Daemons -> Processes]
    <2>1. pc \in {"loop", "read", "answer", "abort"}
      OBVIOUS
    <2> QED BY <1>1, <2>1, BecomesSameFds DEF Becomes
  <1>9. ~daemon[p].doomed /\ block = [daemon[p].block EXCEPT ![fd] = NoMessage] => Answers(p, fd, k, m)
    BY <1>1, <1>6, ProcessType DEF Answers, Becomes
  <1>10. ProcessOK(p)'
    <2>1. \A f \in Fds : block[f] # NoMessage =>
              daemon[p].fds[f] # NoLink /\ block[f].kind = "request"
      BY <1>1 DEF ProcessOK, Shrinks, Becomes
    <2> QED BY <1>1, <2>1, ProcessStep DEF Shrinks
  <1>11. ResponseOK(p)'
    BY DEF Becomes, ResponseOK
  <1>12. \A j \in Links : TrafficOK(j)'
    <2>1. Arrives(k, "lower", m) /\ "lower" \in Sides
      BY <1>5 DEF Sides
    <2> QED BY <2>1, TrafficMore
  <1>13. Foreign(p)
    <2>1. ElsewhereSame(k, "lower") /\ "lower" \in Sides
      BY <1>5 DEF Sides, Arrives
    <2> QED BY <2>1, ForeignIfElsewhere
  <1>17. \A j \in Links : j # k => chan'[j] = chan[j]
    BY <1>6, SendsElsewhere
  <1>14. ASSUME p \in Relays PROVE ExchangeOK(p)'
    <2>2. chan'[Own(p)] = chan[Own(p)]
      BY <1>1, <1>4, <1>14, <1>17, OwnLink
    <2>3. Nothing(p)
      BY <1>1, <1>14, NothingUnlessReading DEF CoreInv
    <2> QED BY <1>1, <1>7, <1>14, <2>2, <2>3, ExchangeStill
  <1>15. ASSUME NEW q \in Relays, Up(q) = p PROVE ExchangeOK(q)'
    <2>1. CASE m.kind = "answer"
      <3>1. p # "receiver"
        BY <1>15, UpFacts
      <3> QED BY <1>7, <1>9, <1>15, <2>1, <3>1, AnswerDown
    <2>2. CASE m.kind = "request" /\ ~Sound(p) /\ p \in Relays
      BY <1>1, <1>6, <1>7, <1>15, <2>2, RequestDown
    <2> QED BY <1>3, <2>1, <2>2
  <1>16. ASSUME p = "receiver", NEW c \in Clients PROVE ClientOK(c)'
    <2>1. Trusted(c)' => Trusted(c)
      BY <1>16, TrustKept
    <2>2. CASE ~daemon[p].doomed /\ block = [daemon[p].block EXCEPT ![fd] = NoMessage]
      BY <1>7, <1>9, <1>16, <2>1, <2>2, AnswerToClient
    <2>3. CASE daemon'[p].doomed
      <3>1. c \in Links /\ ClientOK(c)
        BY DEF CoreInv, Links
      <3>2. view[k]["lower"] = "open"
        BY <1>5 DEF CoreInv, ViewOK
      <3>3. CASE c = k
        <4>1. view'[c]["lower"] = "open"
          BY <3>1, <3>2, <3>3 DEF ViewQuiet, Sides
        <4> QED BY <1>16, <2>3, <4>1 DEF ClientOK, Trusted
      <3>4. CASE c # k
        <4>1. chan'[c] = chan[c]
          BY <1>17, <3>1, <3>4
        <4>2. daemon'["receiver"].fds = daemon["receiver"].fds
          BY <1>16 DEF Becomes
        <4> QED BY <1>16, <2>1, <3>1, <4>1, <4>2, ClientFrame DEF Shrinks
      <3> QED BY <3>3, <3>4
    <2> QED BY <2>2, <2>3
  <1> QED BY <1>7, <1>10, <1>11, <1>12, <1>13, <1>14, <1>15, <1>16, QuietStep

--------------------------------------------------------------------------------
(* The end of a process or of a client. *)

(* A client is an end of its own connection only. *)
LEMMA ClientEnd ==
    ASSUME NEW k \in Links, NEW s \in Sides, NEW c \in Clients, End(k, s) = c
    PROVE  k = c /\ s = "lower"
  <1>1. c \notin Daemons
    BY ClientsAssumption
  <1>2. CASE k \in Clients
    BY <1>1, <1>2, Ends DEF Sides, Daemons, Relays
  <1>3. CASE k \notin Clients
    BY <1>1, <1>3, Ends, UpFacts DEF Sides
  <1> QED BY <1>2, <1>3

(* x closes all its connections; if it is a daemon it is down then. *)
Closed(x) ==
    /\ ClosesAll(x)
    /\ daemon' \in [Daemons -> Processes] /\ Others(x)
    /\ x \in Daemons => daemon'[x] = Off
    /\ UNCHANGED <<starts, asked, got>> /\ kills' \in 0 .. MaxKills

(* Who sees a connection open, *)
LEMMA EndView ==
    ASSUME CoreInv, NEW x \in Daemons \cup Clients, Closed(x), NEW k \in Links
    PROVE  ViewOK(k)'
  <1>1. ViewType /\ ChanType
    BY DEF CoreInv, TypeOK, ViewType, ChanType
  <1>2. /\ view'[k]["lower"] = "open" <=> view[k]["lower"] = "open" /\ End(k, "upper") # x
        /\ view'[k]["upper"] = "open" <=> view[k]["upper"] = "open" /\ End(k, "lower") # x
    BY <1>1, CloseEffect DEF Closed, Sides, Other
  <1>3. ViewOK(k) /\ End(k, "upper") \in Daemons
    BY Ends DEF CoreInv
  <1>4. ASSUME k \notin Clients, view'[k].upper = "open"
        PROVE  /\ Running(k[1])' /\ k = Own(k[1])'
               /\ daemon'[k[1]].fds[daemon'[k[1]].upFd] = k
    <2>1. k[1] \in Daemons /\ k[1] # x
      BY <1>2, <1>4, Ends, UpFacts
    <2>2. daemon'[k[1]] = daemon[k[1]] /\ UNCHANGED starts
      BY <2>1 DEF Closed, Others
    <2> QED BY <1>2, <1>3, <1>4, <2>2 DEF ViewOK, Running, Own
  <1>5. view'[k].lower = "open" => Running(End(k, "upper"))'
    <2>1. ASSUME End(k, "upper") # x PROVE daemon'[End(k, "upper")] = daemon[End(k, "upper")]
      BY <1>3, <2>1 DEF Closed, Others
    <2> QED BY <1>2, <1>3, <2>1 DEF ViewOK, Running
  <1>6. ASSUME NEW f \in Fds, daemon'[End(k, "upper")].fds[f] = k PROVE view'[k].lower = "open"
    <2>1. End(k, "upper") # x
      BY <1>3, <1>6, Ends, OffType DEF Closed
    <2>2. daemon'[End(k, "upper")] = daemon[End(k, "upper")]
      BY <1>3, <2>1 DEF Closed, Others
    <2> QED BY <1>2, <1>3, <1>6, <2>1, <2>2 DEF ViewOK
  <1> QED BY <1>4, <1>5, <1>6 DEF ViewOK

(* the exchange of a relay that lives on, *)
LEMMA EndExchange ==
    ASSUME CoreInv, NEW x \in Daemons \cup Clients, Closed(x), NEW q \in Relays
    PROVE  ExchangeOK(q)'
  <1>1. TypeOK /\ ProcessOK(q) /\ ExchangeOK(q) /\ q \in Daemons /\ Up(q) \in Daemons
    BY UpFacts DEF CoreInv
  <1>2. CASE q = x
    BY <1>1, <1>2, OffType DEF Closed, ExchangeOK, Running
  <1>3. CASE q # x
    <2>1. daemon'[q] = daemon[q] /\ Own(q)' = Own(q) /\ starts'[q] = starts[q]
      BY <1>1, <1>3 DEF Closed, Others, Own
    <2>2. CASE ~Running(q)
      BY <2>1, <2>2 DEF ExchangeOK, Running
    <2>3. CASE Running(q)
      <3>1. Own(q) \in Links /\ End(Own(q), "lower") = q /\ End(Own(q), "upper") = Up(q)
        BY <1>1, <2>3, OwnLink
      <3>2. ViewType /\ ChanType
        BY <1>1 DEF TypeOK, ViewType, ChanType
      <3>3. /\ ChanType'
            /\ \A k \in Links, s \in Sides :
                  /\ view'[k][s] = "open" <=> view[k][s] = "open" /\ End(k, Other(s)) # x
                  /\ End(k, s) = x => chan'[k][s] = << >>
                  /\ End(k, s) # x => chan'[k][s] = chan[k][s]
        BY <3>2, CloseEffect DEF Closed
      <3>4. /\ view'[Own(q)]["lower"] = "open" <=> view[Own(q)]["lower"] = "open" /\ Up(q) # x
            /\ view'[Own(q)]["upper"] = "open" <=> view[Own(q)]["upper"] = "open" /\ q # x
            /\ chan'[Own(q)]["lower"] = chan[Own(q)]["lower"]
            /\ Up(q) # x => chan'[Own(q)]["upper"] = chan[Own(q)]["upper"]
        BY <1>3, <3>1, <3>3 DEF Sides, Other
      <3>5. CASE Up(q) # x
        <4>1. daemon'[Up(q)] = daemon[Up(q)]
          BY <1>1, <3>5 DEF Closed, Others
        <4>2. InTouch(q)' => InTouch(q)
          <5>1. Own(Up(q))' = Own(Up(q))
            BY DEF Closed, Own
          <5>2. Sound(Up(q))' => Sound(Up(q))
            BY <4>1, <5>1 DEF Sound, Running
          <5> QED BY <2>1, <3>4, <5>2 DEF InTouch
        <4>3. chan'[Own(q)] = chan[Own(q)]
          <5>1. chan[Own(q)] \in [Sides -> Seq(Messages)] /\ chan'[Own(q)] \in [Sides -> Seq(Messages)]
            BY <3>1, <3>2, <3>3 DEF ChanType
          <5> QED BY <3>4, <3>5, <5>1 DEF Sides
        <4> QED BY <1>1, <2>1, <2>3, <4>1, <4>2, <4>3, ExchangeFrame
      <3>6. CASE Up(q) = x
        <4>1. ~InTouch(q)'
          BY <2>1, <3>4, <3>6 DEF InTouch
        <4>2. RequestSent(q)' /\ RequestHeld(q)'
          BY <4>1 DEF RequestSent, RequestHeld
        <4>4. Back(q)' <=> Back(q)
          BY <2>1 DEF Back
        <4>3. AnswerSent(q)' /\ RequestBack(q)'
          BY <1>1, <2>1, <2>3, <3>4, <4>1, <4>4 DEF ExchangeOK, AnswerSent, RequestBack
        <4> QED BY <4>2, <4>3 DEF ExchangeOK
      <3> QED BY <3>5, <3>6
    <2> QED BY <2>2, <2>3
  <1> QED BY <1>2, <1>3

(* and everything else. *)
LEMMA EndStep ==
    ASSUME CoreInv, NEW x \in Daemons \cup Clients, Closed(x)
    PROVE  CoreInv'
  <1>1. ViewType /\ ChanType
    BY DEF CoreInv, TypeOK, ViewType, ChanType
  <1>2. /\ ViewType' /\ ChanType'
        /\ \A k \in Links, s \in Sides :
              /\ view'[k][s] = "open" <=> view[k][s] = "open" /\ End(k, Other(s)) # x
              /\ End(k, s) = x => chan'[k][s] = << >>
              /\ End(k, s) # x => chan'[k][s] = chan[k][s]
    BY <1>1, CloseEffect DEF Closed
  <1>3. TypeOK'
    BY <1>2 DEF CoreInv, TypeOK, ViewType, ChanType, Closed
  <1>4. ASSUME NEW p \in Daemons PROVE ProcessOK(p)' /\ ResponseOK(p)'
    <2>1. CASE p = x
      <3>1. daemon'[p] = Off /\ ~Running(p)'
        BY <2>1, OffType DEF Closed, Running
      <3> QED BY <3>1, OffType DEF ProcessOK, HandlerOK, ResponseOK
    <2>2. CASE p # x
      BY <1>4, <2>2, OthersOK DEF Closed, Others, CoreInv
    <2> QED BY <2>1, <2>2
  <1>5. ASSUME NEW k \in Links PROVE TrafficOK(k)'
    <2>1. view'[k].lower = "open" => view[k].lower = "open"
      BY <1>2 DEF Sides
    <2> QED BY <1>2, <2>1, TrafficFewer DEF Closed
  <1>6. ASSUME NEW c \in Clients PROVE ClientOK(c)'
    <2>1. c \in Links /\ ClientOK(c) /\ "receiver" \in Daemons
      BY DEF Links, CoreInv, Daemons, Relays
    <2>2. /\ chan'[c]["lower"] = chan[c]["lower"] \/ chan'[c]["lower"] = << >>
          /\ chan'[c]["upper"] = chan[c]["upper"] \/ chan'[c]["upper"] = << >>
      BY <1>2, <2>1 DEF Sides
    <2>3. ASSUME NEW f \in Fds, daemon'["receiver"].fds[f] = c, daemon'["receiver"].block[f] # NoMessage
          PROVE  daemon'["receiver"] = daemon["receiver"]
      BY <2>1, <2>3, OffType DEF Closed, Others
    <2>4. Trusted(c)' => Trusted(c)
      <3>1. End(c, "upper") = "receiver"
        BY <2>1, Ends
      <3>2. view'[c]["lower"] = "open" => view[c]["lower"] = "open" /\ x # "receiver"
        BY <1>2, <2>1, <3>1 DEF Sides, Other
      <3>3. view'[c]["lower"] = "none" => view[c]["lower"] = "none"
        BY <2>1 DEF Closed, ClosesAll, Sides
      <3>4. x # "receiver" => daemon'["receiver"] = daemon["receiver"]
        BY <2>1 DEF Closed, Others
      <3> QED BY <3>2, <3>3, <3>4 DEF Trusted
    <2> QED BY <2>1, <2>2, <2>3, <2>4, ClientFrame DEF Closed
  <1> QED BY <1>3, <1>4, <1>5, <1>6, EndView, EndExchange DEF CoreInv

(* A daemon dies. *)
LEMMA DiesStep ==
    ASSUME CoreInv, NEW p \in Daemons, Dies(p), UNCHANGED <<starts, asked, got>>,
           kills' \in 0 .. MaxKills
    PROVE  CoreInv'
  <1>1. daemon' \in [Daemons -> Processes] /\ Others(p) /\ daemon'[p] = Off
    BY OneProcess, OffType DEF Dies, CoreInv
  <1>2. Closed(p)
    BY <1>1 DEF Closed, Dies
  <1> QED BY <1>2, EndStep

(* A client leaves. *)
LEMMA LeaveStep ==
    ASSUME CoreInv, NEW c \in Clients, Leave(c)
    PROVE  CoreInv'
  <1>1. Closed(c)
    BY ClientsAssumption DEF Closed, Leave, CoreInv, TypeOK, Others
  <1> QED BY <1>1, EndStep

--------------------------------------------------------------------------------
(* The rest of dealClientMessage(). *)

(* The response arrives, and the handler returns. *)
LEMMA PassedStep ==
    ASSUME CoreInv, NEW p \in Daemons, FreedOK(p), daemon[p].pc = "answer",
           NEW fd \in Fds, fd = daemon[p].to, NEW k, k = daemon[p].fds[fd], k # NoLink,
           NEW r \in Messages, r = daemon[p].response, p = "receiver" => r.kind = "answer",
           NEW m \in Messages, NEW doomed \in BOOLEAN, doomed = daemon[p].doomed,
           ~doomed => m = daemon[p].block[fd] /\ m # NoMessage,
           HandlerReturns(p, fd, m, doomed, TRUE),
           view[k][Side(p, k)] = "open", Arrives(k, Other(Side(p, k)), r), ChanType', ViewType', ViewQuiet,
           UNCHANGED <<starts, kills, asked, got>>
    PROVE  CoreInv'
  <1>1. TypeOK
    BY DEF CoreInv
  <1>2. CASE doomed = FALSE
    <2> DEFINE block == [daemon[p].block EXCEPT ![fd] = NoMessage]
    <2>1. /\ Becomes(p, "loop", daemon[p].fds, block)
          /\ Remembers(p, 0, NoMessage, daemon[p].doomed, NoMessage)
      BY <1>1, <1>2, ReturnEffect
    <2>2. KeepsWaste(p)
      <3>1. HandlerReturns(p, fd, m, FALSE, TRUE)
        BY <1>2
      <3>2. WastesOne(p, fd, m)
        BY <1>1, <3>1, ReturnEffect
      <3> QED BY <1>2, <3>2 DEF KeepsWaste, WastesOne
    <2>3. Shrinks(p)
      BY <1>1, <2>1, <2>2, ProcessType DEF Shrinks, Becomes
    <2>4. HandlerOK(daemon'[p])
      BY <1>2, <2>1 DEF Becomes, Remembers, HandlerOK
    <2>5. ~daemon[p].doomed /\ block = [daemon[p].block EXCEPT ![fd] = NoMessage]
      BY <1>2
    <2> HIDE DEF block
    <2> QED BY <2>1, <2>3, <2>4, <2>5, AnswersStep
  <1>3. CASE doomed = TRUE
    <2>1. /\ Becomes(p, "abort", daemon[p].fds, daemon[p].block)
          /\ Remembers(p, daemon[p].to, daemon[p].message, TRUE, daemon[p].response)
          /\ WastesNothing(p)
      BY <1>1, <1>3, AbortEffect
    <2>2. Shrinks(p)
      BY <2>1 DEF Shrinks, KeepsWaste, WastesNothing, Wastes, Becomes
    <2>3. HandlerOK(daemon'[p]) /\ daemon'[p].doomed
      BY <2>1 DEF Becomes, Remembers, HandlerOK
    <2>4. p = "receiver" \/ r.kind # "answer"
      BY <1>3 DEF FreedOK, Running
    <2> QED BY <2>1, <2>2, <2>3, <2>4, AnswersStep
  <1> QED BY <1>2, <1>3

(* The answer to the client, or what passes for one. *)
LEMMA WriteResponseStep ==
    ASSUME CoreInv, NEW p \in Daemons, FreedOK(p), WriteResponse(p)
    PROVE  CoreInv'
  <1>1. TypeOK /\ ProcessOK(p) /\ Running(p) /\ daemon[p].pc = "answer"
    BY DEF CoreInv, Running, WriteResponse
  <1>2. UNCHANGED <<starts, kills, asked, got>> /\ kills \in 0 .. MaxKills
    BY <1>1 DEF WriteResponse, TypeOK
  <1>0. /\ daemon[p].to \in Fds /\ daemon[p].message \in Messages /\ daemon[p].doomed \in BOOLEAN
        /\ daemon[p].response \in Messages \cup {NoMessage}
    BY <1>1, ProcessType DEF ProcessOK, HandlerOK
  <1>11. PICK fd \in Fds, m \in Messages, doomed \in BOOLEAN :
             fd = daemon[p].to /\ m = daemon[p].message /\ doomed = daemon[p].doomed
    BY <1>0
  <1>12. PICK k \in Links \cup {NoLink}, r \in Messages \cup {NoMessage} :
             k = daemon[p].fds[fd] /\ r = daemon[p].response
    BY <1>0, <1>1, ProcessType
  <1>3. /\ fd = daemon[p].to /\ k = daemon[p].fds[fd] /\ r = daemon[p].response
        /\ m = daemon[p].message /\ doomed = daemon[p].doomed
    BY <1>11, <1>12
  <1>4. /\ ~doomed => m = daemon[p].block[fd] /\ m # NoMessage
        /\ \A ok : HandlerEnds(p, ok) => HandlerReturns(p, fd, m, doomed, ok)
    BY <1>1, <1>3 DEF ProcessOK, HandlerOK, HandlerEnds
  <1>5. k # NoLink => k \in Links /\ Side(p, k) \in Sides /\ Other(Side(p, k)) \in Sides
    BY <1>1, <1>3, SideOf DEF Sides
  <1>6. p \in Relays => Nothing(p)
    BY <1>1, NothingUnlessReading DEF CoreInv
  <1>7. CASE /\ p = "receiver" => r.kind = "answer"
             /\ r # NoMessage /\ k # NoLink
             /\ Written(p, k, r)
             /\ HandlerEnds(p, TRUE)
    <2>1. r \in Messages /\ HandlerReturns(p, fd, m, doomed, TRUE)
      BY <1>4, <1>7
    <2>2. /\ ViewType' /\ ViewQuiet /\ ChanType'
          /\ \/ UNCHANGED chan
             \/ view[k][Side(p, k)] = "open" /\ Arrives(k, Other(Side(p, k)), r)
      BY <1>1, <1>5, <1>7, <2>1, WrittenEffect
    <2>3. CASE UNCHANGED chan
      BY <1>1, <1>2, <1>3, <1>4, <1>6, <2>1, <2>2, <2>3, ReturnStep
    <2>4. CASE view[k][Side(p, k)] = "open" /\ Arrives(k, Other(Side(p, k)), r)
      BY <1>1, <1>2, <1>3, <1>4, <1>7, <2>1, <2>2, <2>4, PassedStep
    <2> QED BY <2>2, <2>3, <2>4
  <1>8. ASSUME NEW ok \in BOOLEAN, HandlerEnds(p, ok), UNCHANGED <<view, chan>> PROVE CoreInv'
    <2>1. ViewType' /\ ViewQuiet
      BY <1>1, <1>8 DEF TypeOK, ViewType, ViewQuiet
    <2> QED BY <1>1, <1>2, <1>3, <1>4, <1>6, <1>8, <2>1, ReturnStep
  <1>9. CASE k # NoLink /\ Refused(p, k) /\ HandlerEnds(p, FALSE)
    <2>1. ViewType' /\ ViewQuiet /\ UNCHANGED chan
      BY <1>1, <1>5, <1>9, RefusedEffect
    <2> QED BY <1>1, <1>2, <1>3, <1>4, <1>6, <1>9, <2>1, ReturnStep
  <1>10. CASE Dies(p)
    BY <1>2, <1>10, DiesStep
  <1> QED BY <1>3, <1>7, <1>8, <1>9, <1>10 DEF WriteResponse, PassOn

--------------------------------------------------------------------------------
(* accept() and close(). *)

(* The event loop of p opens or closes descriptor fd. *)
Reopens(p, fd, j) ==
    /\ daemon[p].pc = "loop" /\ daemon[p].block[fd] = NoMessage
    /\ j \in Links \cup {NoLink} /\ (p \in Relays => j # Own(p))
    /\ Becomes(p, "loop", [daemon[p].fds EXCEPT ![fd] = j], daemon[p].block)
    /\ ForgetsNothing(p) /\ WastesNothing(p)
    /\ UNCHANGED <<starts, kills, chan, asked, got>>
    /\ ViewType' /\ \A k \in Links, s \in Sides : view'[k][s] \in {"none", "open"} => view'[k][s] = view[k][s]

(* What is left to show is about the descriptors and who sees what. *)
LEMMA ReopensStep ==
    ASSUME CoreInv, NEW p \in Daemons, NEW fd \in Fds, NEW j, Reopens(p, fd, j),
           ProcessOK(p)', \A k \in Links : ViewOK(k)'
    PROVE  CoreInv'
  <1>1. TypeOK /\ ProcessOK(p) /\ Running(p)
    BY DEF CoreInv, Running, Reopens
  <1>2. /\ daemon' \in [Daemons -> Processes] /\ Others(p) /\ Running(p)'
        /\ daemon'[p].block = daemon[p].block /\ daemon'[p].upFd = daemon[p].upFd
        /\ daemon'[p].pc = "loop"
    BY DEF Reopens, Becomes, Running
  <1>3. \A f \in Fds : daemon'[p].fds[f] = IF f = fd THEN j ELSE daemon[p].fds[f]
    BY <1>1, ProcessType DEF Reopens, Becomes
  <1>4. TypeOK'
    BY <1>2 DEF CoreInv, TypeOK, Reopens, ViewType
  <1>5. ASSUME NEW q \in Daemons PROVE ProcessOK(q)' /\ ResponseOK(q)'
    <2>1. CASE q = p
      BY <1>2, <2>1 DEF ResponseOK
    <2>2. CASE q # p
      BY <1>2, <1>5, <2>2, OthersOK DEF Reopens, Others, CoreInv
    <2> QED BY <2>1, <2>2
  <1>6. \A k \in Links : TrafficOK(k)'
    BY TrafficFewer DEF Reopens, Sides
  <1>7. ASSUME NEW q \in Daemons PROVE Sound(q)' => Sound(q)
    <2>1. Own(q)' = Own(q)
      BY DEF Own, Reopens
    <2>2. CASE q # p
      BY <1>2, <1>7, <2>1, <2>2 DEF Sound, Running, Others
    <2>3. ASSUME q = p, p # "service", Sound(p)' PROVE Sound(p)
      <3>1. p \in Relays
        BY <2>3 DEF Daemons
      <3>2. daemon[p].upFd \in Fds /\ daemon'[p].fds[daemon[p].upFd] = Own(p)
        BY <1>1, <1>2, <2>1, <2>3, <3>1 DEF ProcessOK, Sound
      <3> QED BY <1>1, <1>3, <3>1, <3>2 DEF Sound, Reopens
    <2> QED BY <2>2, <2>3 DEF Sound
  <1>8. ASSUME NEW q \in Relays, Running(q) PROVE InTouch(q)' => InTouch(q)
    <2>1. Own(q) \in Links /\ Own(q)' = Own(q)
      BY <1>1, <1>8, OwnLink, UpFacts DEF CoreInv, Own, Reopens
    <2>2. /\ view'[Own(q)]["lower"] = "open" => view[Own(q)]["lower"] = "open"
          /\ view'[Own(q)]["upper"] = "open" => view[Own(q)]["upper"] = "open"
      BY <2>1 DEF Reopens, Sides
    <2> QED BY <1>7, <2>1, <2>2, UpFacts DEF InTouch
  <1>9. ASSUME NEW q \in Relays PROVE ExchangeOK(q)'
    <2>1. TypeOK /\ ProcessOK(q) /\ ExchangeOK(q) /\ q \in Daemons /\ Up(q) \in Daemons
      BY UpFacts DEF CoreInv
    <2>2. CASE q = p
      <3>1. Nothing(p)
        BY <1>1, <2>1, <2>2, NothingUnlessReading DEF Reopens
      <3>2. Own(p)' = Own(p) /\ daemon'[Up(p)] = daemon[Up(p)] /\ chan' = chan
        BY <1>2, <2>2, UpFacts DEF Own, Reopens, Others
      <3>3. InTouch(p)' => InTouch(p)
        BY <1>1, <1>8, <2>2
      <3>4. Nothing(p)'
        BY <3>1, <3>2, <3>3 DEF Nothing
      <3>5. daemon'[p].fds[daemon[p].upFd] = Own(p) => daemon[p].fds[daemon[p].upFd] = Own(p)
        BY <1>1, <1>3, <2>2 DEF ProcessOK, Reopens
      <3>6. RequestBack(p)'
        <4>1. Back(p)' <=> Back(p)
          BY <1>2 DEF Back, Reopens, WastesNothing, Wastes
        <4> QED BY <1>1, <1>2, <2>1, <2>2, <3>2, <3>3, <3>5, <4>1 DEF ExchangeOK, RequestBack
      <3> QED BY <2>2, <3>4, <3>6, ExchangeIfNothing
    <2>3. CASE q # p /\ Running(q)
      <3>1. daemon'[q] = daemon[q] /\ chan' = chan /\ starts' = starts
        BY <1>2, <2>1, <2>3 DEF Others, Reopens
      <3>2. ASSUME NEW f \in Fds, daemon'[Up(q)].fds[f] = Own(q), daemon'[Up(q)].block[f] # NoMessage
            PROVE  daemon[Up(q)].fds[f] = Own(q) /\ daemon'[Up(q)].block[f] = daemon[Up(q)].block[f]
        <4>1. CASE Up(q) # p
          BY <1>2, <2>1, <3>2, <4>1 DEF Others
        <4>2. CASE Up(q) = p
          <5>1. f # fd
            BY <1>2, <3>2, <4>2 DEF Reopens
          <5> QED BY <1>2, <1>3, <3>2, <4>2, <5>1
        <4> QED BY <4>1, <4>2
      <3> QED BY <1>8, <2>1, <2>3, <3>1, <3>2, ExchangeFrame
    <2>4. CASE q # p /\ ~Running(q)
      BY <1>2, <2>1, <2>4 DEF ExchangeOK, Running, Others
    <2> QED BY <2>2, <2>3, <2>4
  <1>10. ASSUME NEW c \in Clients PROVE ClientOK(c)'
    <2>1. "receiver" \in Daemons /\ ClientOK(c)
      BY DEF Daemons, Relays, CoreInv
    <2>2. ASSUME NEW f \in Fds, daemon'["receiver"].fds[f] = c, daemon'["receiver"].block[f] # NoMessage
          PROVE  daemon["receiver"].fds[f] = c /\ daemon'["receiver"].block[f] = daemon["receiver"].block[f]
      <3>1. CASE p # "receiver"
        BY <1>2, <2>1, <2>2, <3>1 DEF Others
      <3>2. CASE p = "receiver"
        <4>1. f # fd
          BY <1>2, <2>2, <3>2 DEF Reopens
        <4> QED BY <1>2, <1>3, <2>2, <3>2, <4>1
      <3> QED BY <3>1, <3>2
    <2>3. Trusted(c)' => Trusted(c)
      <3>1. view'[c]["lower"] \in {"none", "open"} => view'[c]["lower"] = view[c]["lower"]
        BY DEF Reopens, Sides, Links
      <3>2. daemon'["receiver"].doomed = daemon["receiver"].doomed
        BY <1>2, <2>1 DEF Reopens, ForgetsNothing, Remembers, Others
      <3> QED BY <3>1, <3>2 DEF Trusted
    <2> QED BY <2>1, <2>2, <2>3, ClientFrame DEF Reopens
  <1> QED BY <1>4, <1>5, <1>6, <1>9, <1>10 DEF CoreInv

(* accept(). *)
LEMMA AcceptStep ==
    ASSUME CoreInv, NEW p \in Daemons, DealConnectRequest(p)
    PROVE  CoreInv'
  <1>1. TypeOK /\ ProcessOK(p) /\ Running(p) /\ daemon[p].pc = "loop"
    BY DEF CoreInv, Running, DealConnectRequest
  <1>2. UNCHANGED <<starts, kills, view, chan, asked, got>>
    BY DEF DealConnectRequest
  <1>3. PICK j \in Backlog(p), fd \in Fds :
             daemon[p].fds[fd] = NoLink /\ daemon' = [daemon EXCEPT ![p].fds[fd] = j]
    BY DEF DealConnectRequest, Lowest
  <1>4. /\ j \in Links /\ End(j, "upper") = p /\ view[j].lower = "open"
        /\ \A f \in Fds : daemon[p].fds[f] # j
    BY <1>1, ProcessType DEF Backlog, Range
  <1>5. /\ Becomes(p, daemon[p].pc, [daemon[p].fds EXCEPT ![fd] = j], daemon[p].block)
        /\ ForgetsNothing(p) /\ WastesNothing(p)
    BY <1>1, <1>3, <1>4, AcceptEffect
  <1>6. p \in Relays => j # Own(p)
    BY <1>1, <1>4, OwnLink, UpFacts
  <1>7. Reopens(p, fd, j)
    <2>1. daemon[p].block[fd] = NoMessage
      BY <1>1, <1>3 DEF ProcessOK
    <2>2. ViewType'
      BY <1>1, <1>2 DEF TypeOK, ViewType
    <2> QED BY <1>1, <1>2, <1>4, <1>5, <1>6, <2>1, <2>2 DEF Reopens
  <1>8. /\ Others(p) /\ Running(p)' /\ daemon'[p].upFd = daemon[p].upFd
        /\ daemon'[p].block = daemon[p].block /\ daemon'[p].pc = "loop" /\ Own(p)' = Own(p)
        /\ \A f \in Fds : daemon'[p].fds[f] = IF f = fd THEN j ELSE daemon[p].fds[f]
    BY <1>1, <1>2, <1>5, ProcessType DEF Becomes, Running, Own
  <1>9. ProcessOK(p)'
    <2>1. HandlerOK(daemon'[p]) /\ daemon'[p].waste = daemon[p].waste
      BY <1>1, <1>5, <1>8 DEF ProcessOK, HandlerOK, ForgetsNothing, Remembers, WastesNothing, Wastes
    <2> QED BY <1>1, <1>2, <1>3, <1>4, <1>8, <2>1 DEF ProcessOK
  <1>10. ASSUME NEW k \in Links PROVE ViewOK(k)'
    <2>1. ViewOK(k) /\ End(k, "upper") \in Daemons
      BY Ends DEF CoreInv
    <2>2. ASSUME k \notin Clients, view[k].upper = "open"
          PROVE  /\ Running(k[1])' /\ k = Own(k[1])'
                 /\ daemon'[k[1]].fds[daemon'[k[1]].upFd] = k
      <3>1. /\ Running(k[1]) /\ k = Own(k[1]) /\ daemon[k[1]].fds[daemon[k[1]].upFd] = k
            /\ k[1] \in Relays /\ k[1] \in Daemons /\ Own(k[1])' = Own(k[1])
        BY <1>2, <2>1, <2>2, Ends, UpFacts DEF ViewOK, Own
      <3>2. CASE k[1] # p
        BY <1>8, <3>1, <3>2 DEF Others, Running
      <3>3. CASE k[1] = p
        <4>1. daemon[p].upFd \in Fds /\ daemon[p].upFd # fd
          BY <1>1, <1>3, <3>1, <3>3, Ends DEF ProcessOK
        <4> QED BY <1>8, <3>1, <3>3, <4>1
      <3> QED BY <3>2, <3>3
    <2>3. view[k].lower = "open" => Running(End(k, "upper"))'
      BY <1>8, <2>1 DEF ViewOK, Running, Others
    <2>4. ASSUME NEW f \in Fds, daemon'[End(k, "upper")].fds[f] = k PROVE view[k].lower = "open"
      BY <1>4, <1>8, <2>1, <2>4 DEF ViewOK, Others
    <2> QED BY <1>2, <2>2, <2>3, <2>4 DEF ViewOK
  <1> QED BY <1>7, <1>9, <1>10, ReopensStep

(* close() of a connection whose end has been read. *)
LEMMA CloseStep ==
    ASSUME CoreInv, NEW p \in Daemons, NEW fd \in Fds, daemon[p].pc = "loop",
           daemon[p].block[fd] = NoMessage, NEW k, k = daemon[p].fds[fd], k # NoLink,
           view[k][Side(p, k)] # "open",
           daemon' = [daemon EXCEPT ![p].fds[fd] = NoLink],
           view' = [view EXCEPT ![k][Other(Side(p, k))] = "fin"],
           UNCHANGED <<starts, kills, chan, asked, got>>
    PROVE  CoreInv'
  <1>1. TypeOK /\ ProcessOK(p) /\ Running(p)
    BY DEF CoreInv, Running
  <1>2. /\ Becomes(p, daemon[p].pc, [daemon[p].fds EXCEPT ![fd] = NoLink], daemon[p].block)
        /\ ForgetsNothing(p) /\ WastesNothing(p)
    BY <1>1, AcceptEffect
  <1>3. /\ k \in Links
        /\ \/ /\ Other(Side(p, k)) = "upper"
              /\ p \in Relays /\ k = Own(p) /\ fd = daemon[p].upFd /\ End(k, "upper") # p
           \/ Other(Side(p, k)) = "lower" /\ End(k, "upper") = p
    BY <1>1, SideOf
  <1>4. /\ ViewType'
        /\ \A j \in Links, s \in Sides :
              view'[j][s] = IF j = k /\ s = Other(Side(p, k)) THEN "fin" ELSE view[j][s]
    BY <1>1, <1>3 DEF TypeOK, ViewType, Sides
  <1>5. Reopens(p, fd, NoLink)
    <2>1. p \in Relays => NoLink # Own(p)
      BY <1>1, OwnLink
    <2> QED BY <1>2, <1>4, <2>1 DEF Reopens
  <1>6. /\ Others(p) /\ Running(p)' /\ daemon'[p].upFd = daemon[p].upFd
        /\ daemon'[p].block = daemon[p].block /\ daemon'[p].pc = "loop" /\ Own(p)' = Own(p)
        /\ \A f \in Fds : daemon'[p].fds[f] = IF f = fd THEN NoLink ELSE daemon[p].fds[f]
    BY <1>1, <1>2, ProcessType DEF Becomes, Running, Own
  <1>7. ProcessOK(p)'
    <2>1. HandlerOK(daemon'[p]) /\ daemon'[p].waste = daemon[p].waste
      BY <1>1, <1>2, <1>6 DEF ProcessOK, HandlerOK, ForgetsNothing, Remembers, WastesNothing, Wastes
    <2> QED BY <1>1, <1>6, <2>1 DEF ProcessOK
  <1>8. ASSUME NEW j \in Links PROVE ViewOK(j)'
    <2>1. ViewOK(j) /\ End(j, "upper") \in Daemons
      BY Ends DEF CoreInv
    <2>2. ASSUME j \notin Clients, view'[j].upper = "open"
          PROVE  /\ Running(j[1])' /\ j = Own(j[1])'
                 /\ daemon'[j[1]].fds[daemon'[j[1]].upFd] = j
      <3>1. view[j].upper = "open" /\ ~(j = k /\ Other(Side(p, k)) = "upper")
        BY <1>4, <2>2 DEF Sides
      <3>2. /\ Running(j[1]) /\ j = Own(j[1]) /\ daemon[j[1]].fds[daemon[j[1]].upFd] = j
            /\ j[1] \in Relays /\ j[1] \in Daemons /\ Own(j[1])' = Own(j[1])
        BY <2>1, <2>2, <3>1, Ends, UpFacts DEF ViewOK, Own
      <3>3. CASE j[1] # p
        BY <1>6, <3>2, <3>3 DEF Others, Running
      <3>4. CASE j[1] = p
        <4>1. daemon[p].upFd \in Fds
          BY <1>1, <3>2, <3>4 DEF ProcessOK
        <4>2. daemon[p].upFd # fd
          <5>1. SUFFICES ASSUME daemon[p].upFd = fd PROVE FALSE
            OBVIOUS
          <5>2. j = k /\ End(k, "upper") = Up(p) /\ Up(p) # p
            BY <2>2, <3>2, <3>4, <5>1, Ends, UpFacts
          <5> QED BY <1>3, <3>1, <5>2
        <4> QED BY <1>6, <3>2, <3>4, <4>1, <4>2
      <3> QED BY <3>3, <3>4
    <2>3. view'[j].lower = "open" => Running(End(j, "upper"))'
      <3>1. view'[j].lower = "open" => view[j].lower = "open"
        BY <1>4 DEF Sides
      <3> QED BY <1>6, <2>1, <3>1 DEF ViewOK, Running, Others
    <2>4. ASSUME NEW f \in Fds, daemon'[End(j, "upper")].fds[f] = j PROVE view'[j].lower = "open"
      <3>1. daemon[End(j, "upper")].fds[f] = j /\ ~(End(j, "upper") = p /\ f = fd)
        BY <1>6, <2>1, <2>4, Ends DEF Others
      <3>2. view[j].lower = "open"
        BY <2>1, <3>1 DEF ViewOK
      <3>3. ~(j = k /\ Other(Side(p, k)) = "lower")
        BY <1>1, <1>3, <3>1 DEF ProcessOK
      <3> QED BY <1>4, <3>2, <3>3 DEF Sides
    <2> QED BY <2>2, <2>3, <2>4 DEF ViewOK
  <1> QED BY <1>5, <1>7, <1>8, ReopensStep

--------------------------------------------------------------------------------
(* The start of a daemon. *)

(* A relay that has just been started. *)
Fresh(p, k, fd) ==
    /\ daemon'[p].pc = "loop" /\ daemon'[p].upFd = fd
    /\ \A f \in Fds : daemon'[p].fds[f] = IF f = fd THEN k ELSE NoLink
    /\ \A f \in Fds : daemon'[p].block[f] = NoMessage
    /\ ~daemon'[p].doomed /\ daemon'[p].freed = {} /\ daemon'[p].waste = {}

(* main() up to its loop, for a relay. *)
LEMMA FreshEffect ==
    ASSUME TypeOK, NEW p \in Daemons, NEW fd \in Fds, NEW k \in Links,
           daemon' = [daemon EXCEPT ![p] = [Off EXCEPT !.pc = "loop", !.upFd = fd, !.fds[fd] = k]]
    PROVE  daemon' \in [Daemons -> Processes] /\ Others(p) /\ Fresh(p, k, fd)
  <1> DEFINE fds == [Off.fds EXCEPT ![fd] = k]
             new == [Off EXCEPT !.pc = "loop", !.upFd = fd, !.fds = fds]
  <1>1. daemon' = [daemon EXCEPT ![p] = new]
    BY DEF Off
  <1>2. Off.fds \in [Fds -> Links \cup {NoLink}]
    BY OffType DEF Processes
  <1>3. fds \in [Fds -> Links \cup {NoLink}] /\ \A f \in Fds : fds[f] = IF f = fd THEN k ELSE NoLink
    BY <1>2, OffType
  <1> HIDE DEF fds
  <1>4. /\ new \in Processes /\ new.pc = "loop" /\ new.upFd = fd /\ new.fds = fds
        /\ new.block = Off.block /\ new.doomed = FALSE /\ new.freed = {} /\ new.waste = {}
    BY <1>3, OffType DEF Processes
  <1> HIDE DEF new
  <1>5. daemon' \in [Daemons -> Processes] /\ Others(p) /\ daemon'[p] = new
    BY <1>1, <1>4, OneProcess
  <1>6. /\ daemon'[p].pc = "loop" /\ daemon'[p].upFd = fd /\ daemon'[p].fds = fds
        /\ daemon'[p].block = Off.block
        /\ daemon'[p].doomed = FALSE /\ daemon'[p].freed = {} /\ daemon'[p].waste = {}
    BY <1>4, <1>5
  <1>7. Fresh(p, k, fd)
    BY ONLY <1>3, <1>6, OffType DEF Fresh
  <1> QED BY <1>5, <1>7

(* The connection a relay makes is new: nobody has used it. *)
LEMMA StartRelayStep ==
    ASSUME CoreInv, NEW p \in Relays, daemon[p].pc = "down", starts[p] < MaxStarts,
           daemon[Up(p)].pc # "down", NEW n, n = starts[p] + 1, NEW k, k = <<p, n>>, NEW fd \in Fds,
           starts' = [starts EXCEPT ![p] = n],
           daemon' \in [Daemons -> Processes], Others(p), Fresh(p, k, fd),
           view' = [view EXCEPT ![k] = Connected],
           UNCHANGED <<kills, chan, asked, got>>
    PROVE  CoreInv'
  <1>1. TypeOK /\ p \in Daemons /\ Up(p) \in Daemons /\ Up(p) # p /\ p # "service"
    BY UpFacts DEF CoreInv
  <1>2. /\ starts[p] \in 0 .. MaxStarts /\ n \in 1 .. MaxStarts /\ starts'[p] = n
        /\ \A q \in Daemons : q # p => starts'[q] = starts[q]
        /\ starts' \in [Daemons -> 0 .. MaxStarts]
    BY <1>1, BoundsAssumption DEF TypeOK
  <1>3. /\ k \in Links /\ k \notin Clients /\ k # NoLink /\ k[1] = p /\ k[2] = n
        /\ End(k, "lower") = p /\ End(k, "upper") = Up(p)
    BY <1>2, RunLink
  <1>4. /\ view[k].lower # "open" /\ chan[k].upper = << >> /\ chan[k].lower = << >>
        /\ \A f \in Fds : daemon[Up(p)].fds[f] # k
    <2>1. TrafficOK(k) /\ ViewOK(k)
      BY <1>3 DEF CoreInv
    <2>2. k[2] > starts[k[1]]
      BY <1>2, <1>3
    <2> QED BY <1>3, <2>1, <2>2 DEF TrafficOK, ViewOK
  <1>5. /\ ViewType' /\ view'[k].lower = "open" /\ view'[k].upper = "open"
        /\ \A j \in Links : j # k => view'[j] = view[j]
    BY <1>1, <1>3 DEF TypeOK, ViewType, Connected, Sides
  <1>6. TypeOK'
    BY <1>1, <1>2, <1>5 DEF TypeOK, ViewType
  <1>7. Running(p)' /\ Own(p)' = k /\ ~Running(p)
    BY <1>2 DEF Fresh, Running, Own
  <1>8. ASSUME NEW q \in Daemons PROVE ProcessOK(q)' /\ ResponseOK(q)'
    <2>1. CASE q = p
      BY <1>2, <1>7, <2>1 DEF ProcessOK, HandlerOK, ResponseOK, Fresh
    <2>2. CASE q # p
      BY <1>2, <1>8, <2>2, OthersOK DEF Others, CoreInv
    <2> QED BY <2>1, <2>2
  <1>9. ASSUME NEW j \in Links PROVE ViewOK(j)'
    <2>1. ViewOK(j) /\ End(j, "upper") \in Daemons
      BY Ends DEF CoreInv
    <2>2. CASE j = k
      <3>1. Running(Up(p))'
        BY <1>1 DEF Others, Running
      <3>2. daemon'[p].fds[daemon'[p].upFd] = k
        BY DEF Fresh
      <3> QED BY <1>3, <1>5, <1>7, <2>2, <3>1, <3>2 DEF ViewOK
    <2>3. CASE j # k
      <3>1. view'[j] = view[j]
        BY <1>5, <2>3
      <3>2. ASSUME j \notin Clients, view[j].upper = "open"
            PROVE  /\ Running(j[1])' /\ j = Own(j[1])'
                   /\ daemon'[j[1]].fds[daemon'[j[1]].upFd] = j
        <4>1. /\ Running(j[1]) /\ j = Own(j[1]) /\ daemon[j[1]].fds[daemon[j[1]].upFd] = j
              /\ j[1] \in Daemons
          BY <2>1, <3>2, Ends, UpFacts DEF ViewOK
        <4>2. j[1] # p
          BY <1>7, <4>1
        <4>3. Own(j[1])' = Own(j[1])
          BY <1>2, <4>1, <4>2 DEF Own
        <4> QED BY <4>1, <4>2, <4>3 DEF Others, Running
      <3>3. view[j].lower = "open" => Running(End(j, "upper"))'
        BY <1>7, <2>1 DEF ViewOK, Running, Others
      <3>4. ASSUME NEW f \in Fds, daemon'[End(j, "upper")].fds[f] = j PROVE view[j].lower = "open"
        <4>1. End(j, "upper") # p
          BY <2>3, <3>4, Ends DEF Fresh
        <4> QED BY <2>1, <3>4, <4>1 DEF ViewOK, Others
      <3> QED BY <3>1, <3>2, <3>3, <3>4 DEF ViewOK
    <2> QED BY <2>2, <2>3
  <1>10. ASSUME NEW j \in Links PROVE TrafficOK(j)'
    <2>1. TrafficOK(j)
      BY DEF CoreInv
    <2>2. CASE j = k
      BY <1>2, <1>3, <2>1, <2>2 DEF TrafficOK
    <2>3. CASE j # k
      <3>1. view'[j] = view[j]
        BY <1>5, <2>3
      <3>2. ASSUME j \notin Clients, j[2] > starts'[j[1]] PROVE j[2] > starts[j[1]]
        <4>1. j[1] \in Daemons /\ j[2] \in Int
          BY <3>2, Ends, UpFacts
        <4> QED BY <1>2, <3>2, <4>1
      <3> QED BY <2>1, <3>1, <3>2 DEF TrafficOK
    <2> QED BY <2>2, <2>3
  <1>11. ASSUME NEW q \in Relays PROVE ExchangeOK(q)'
    <2>1. TypeOK /\ ProcessOK(q) /\ ExchangeOK(q) /\ q \in Daemons /\ Up(q) \in Daemons
      BY UpFacts DEF CoreInv
    <2>2. CASE q = p
      <3>1. daemon'[Up(p)] = daemon[Up(p)]
        BY <1>1 DEF Others
      <3>2. Nothing(p)'
        BY <1>4, <1>7, <3>1 DEF Nothing
      <3>3. RequestBack(p)'
        <4>1. daemon'[p].upFd \in Fds
          BY DEF Fresh
        <4>2. ~Back(p)'
          BY <4>1 DEF Back, Fresh
        <4> QED BY <1>4, <1>7, <4>2 DEF RequestBack
      <3> QED BY <2>2, <3>2, <3>3, ExchangeIfNothing
    <2>3. CASE q # p /\ ~Running(q)
      BY <2>1, <2>3 DEF ExchangeOK, Running, Others
    <2>4. CASE q # p /\ Running(q)
      <3>1. daemon'[q] = daemon[q] /\ starts'[q] = starts[q] /\ chan' = chan /\ Own(q)' = Own(q)
        BY <1>2, <2>1, <2>4 DEF Others, Own
      <3>2. /\ Own(q) \in Links /\ Own(q) # k /\ Own(q) # NoLink /\ End(Own(q), "upper") = Up(q)
            /\ view'[Own(q)] = view[Own(q)]
        BY <1>3, <1>5, <2>1, <2>4, OwnLink
      <3>3. ViewOK(Own(q))
        BY <3>2 DEF CoreInv
      <3>4. InTouch(q)' => InTouch(q)
        <4>1. CASE Up(q) = p
          BY <1>7, <3>1, <3>2, <3>3, <4>1 DEF InTouch, ViewOK
        <4>2. CASE Up(q) # p
          <5>1. daemon'[Up(q)] = daemon[Up(q)] /\ Own(Up(q))' = Own(Up(q))
            BY <1>2, <2>1, <4>2 DEF Others, Own
          <5> QED BY <3>1, <3>2, <5>1 DEF InTouch, Sound, Running
        <4> QED BY <4>1, <4>2
      <3>5. ASSUME NEW f \in Fds, daemon'[Up(q)].block[f] # NoMessage
            PROVE  daemon'[Up(q)] = daemon[Up(q)]
        BY <2>1, <3>5 DEF Fresh, Others
      <3> QED BY <2>1, <2>4, <3>1, <3>4, <3>5, ExchangeFrame
    <2> QED BY <2>2, <2>3, <2>4
  <1>12. ASSUME NEW c \in Clients PROVE ClientOK(c)'
    <2>1. "receiver" \in Daemons /\ ClientOK(c)
      BY DEF Daemons, Relays, CoreInv
    <2>2. ASSUME NEW f \in Fds, daemon'["receiver"].block[f] # NoMessage
          PROVE  daemon'["receiver"] = daemon["receiver"]
      BY <2>1, <2>2 DEF Fresh, Others
    <2>3. Trusted(c)' => Trusted(c)
      <3>1. view'[c] = view[c]
        BY <1>3, <1>5 DEF Links
      <3>2. daemon["receiver"].doomed => daemon'["receiver"] = daemon["receiver"]
        BY <2>1 DEF Others, CoreInv, ProcessOK, HandlerOK
      <3> QED BY <3>1, <3>2 DEF Trusted
    <2> QED BY <2>1, <2>2, <2>3, ClientFrame
  <1> QED BY <1>6, <1>8, <1>9, <1>10, <1>11, <1>12 DEF CoreInv

(* The login service connects to nobody. *)
LEMMA StartServiceStep ==
    ASSUME CoreInv, daemon["service"].pc = "down", starts["service"] < MaxStarts,
           starts' = [starts EXCEPT !["service"] = @ + 1],
           daemon' = [daemon EXCEPT !["service"].pc = "loop"],
           UNCHANGED <<kills, view, chan, asked, got>>
    PROVE  CoreInv'
  <1>1. TypeOK /\ "service" \in Daemons /\ "service" \notin Relays /\ ProcessOK("service")
    BY DEF CoreInv, Daemons, Relays
  <1>2. /\ daemon' \in [Daemons -> Processes] /\ Others("service")
        /\ daemon'["service"].pc = "loop" /\ daemon'["service"].fds = daemon["service"].fds
        /\ daemon'["service"].block = daemon["service"].block
        /\ daemon'["service"].doomed = daemon["service"].doomed
        /\ daemon'["service"].waste = daemon["service"].waste
    <2> DEFINE new == [daemon["service"] EXCEPT !.pc = "loop"]
    <2>1. daemon' = [daemon EXCEPT !["service"] = new]
      OBVIOUS
    <2>2. /\ new \in Processes /\ new.pc = "loop" /\ new.fds = daemon["service"].fds
          /\ new.block = daemon["service"].block /\ new.doomed = daemon["service"].doomed
          /\ new.waste = daemon["service"].waste
      BY <1>1, ProcessType DEF Processes
    <2> HIDE DEF new
    <2> QED BY <1>1, <2>1, <2>2, OneProcess
  <1>3. /\ starts' \in [Daemons -> 0 .. MaxStarts]
        /\ \A q \in Daemons : q # "service" => starts'[q] = starts[q] /\ Own(q)' = Own(q)
    BY <1>1, BoundsAssumption DEF TypeOK, Own
  <1>4. TypeOK'
    BY <1>1, <1>2, <1>3 DEF TypeOK
  <1>5. ASSUME NEW q \in Daemons PROVE ProcessOK(q)' /\ ResponseOK(q)'
    <2>1. CASE q = "service"
      <3>1. HandlerOK(daemon'[q])
        BY <1>1, <1>2, <2>1 DEF ProcessOK, HandlerOK
      <3> QED BY <1>1, <1>2, <2>1, <3>1 DEF ProcessOK, ResponseOK
    <2>2. CASE q # "service"
      BY <1>2, <1>3, <1>5, <2>2, OthersOK DEF Others, CoreInv
    <2> QED BY <2>1, <2>2
  <1>6. ASSUME NEW j \in Links PROVE ViewOK(j)' /\ TrafficOK(j)'
    <2>1. ViewOK(j) /\ TrafficOK(j) /\ End(j, "upper") \in Daemons
      BY Ends DEF CoreInv
    <2>2. j \notin Clients => j[1] \in Daemons /\ j[1] # "service"
      BY Ends, UpFacts
    <2>3. \A q \in Daemons : daemon'[q].fds = daemon[q].fds /\ (Running(q) => Running(q)')
      BY <1>2 DEF Others, Running
    <2>4. ViewOK(j)'
      BY <1>2, <1>3, <2>1, <2>2, <2>3 DEF ViewOK, Others
    <2> QED BY <1>3, <2>1, <2>2, <2>4 DEF TrafficOK
  <1>7. ASSUME NEW q \in Relays PROVE ExchangeOK(q)'
    <2>1. ExchangeOK(q) /\ q \in Daemons /\ Up(q) \in Daemons /\ q # "service"
      BY UpFacts DEF CoreInv
    <2>2. daemon'[q] = daemon[q] /\ starts'[q] = starts[q] /\ Own(q)' = Own(q)
      BY <1>2, <1>3, <2>1 DEF Others
    <2>3. InTouch(q)' => InTouch(q)
      <3>1. Sound(Up(q))' => Sound(Up(q))
        BY <1>2, <1>3, <2>1 DEF Sound, Running, Others
      <3> QED BY <2>2, <3>1 DEF InTouch
    <2>4. daemon'[Up(q)].fds = daemon[Up(q)].fds /\ daemon'[Up(q)].block = daemon[Up(q)].block
      BY <1>2, <2>1 DEF Others
    <2>5. CASE Running(q)
      BY <2>1, <2>2, <2>3, <2>4, <2>5, ExchangeFrame
    <2>6. CASE ~Running(q)
      BY <2>2, <2>6 DEF ExchangeOK, Running
    <2> QED BY <2>5, <2>6
  <1>8. ASSUME NEW c \in Clients PROVE ClientOK(c)'
    <2>1. daemon'["receiver"] = daemon["receiver"] /\ ClientOK(c)
      BY <1>2 DEF Others, Daemons, Relays, CoreInv
    <2> QED BY <2>1, ClientFrame DEF Trusted
  <1> QED BY <1>4, <1>5, <1>6, <1>7, <1>8 DEF CoreInv

(* Every start. *)
LEMMA StartStep ==
    ASSUME CoreInv, NEW p \in Daemons, Start(p)
    PROVE  CoreInv'
  <1>1. /\ daemon[p].pc = "down" /\ starts[p] < MaxStarts
        /\ starts' = [starts EXCEPT ![p] = starts[p] + 1] /\ UNCHANGED <<kills, chan, asked, got>>
    BY DEF Start
  <1>2. CASE p = "service"
    <2>1. daemon' = [daemon EXCEPT !["service"].pc = "loop"] /\ UNCHANGED view
      BY <1>2 DEF Start, Relays
    <2> QED BY <1>1, <1>2, <2>1, StartServiceStep
  <1>3. CASE p # "service"
    <2>1. TypeOK /\ p \in Relays
      BY <1>3 DEF CoreInv, Daemons
    <2>2. PICK n, k : n = starts[p] + 1 /\ k = <<p, n>>
      OBVIOUS
    <2>3. daemon[Up(p)].pc # "down" /\ view' = [view EXCEPT ![k] = Connected]
      BY <1>3, <2>2 DEF Start
    <2>4. PICK fd \in Fds :
              daemon' = [daemon EXCEPT ![p] = [Off EXCEPT !.pc = "loop", !.upFd = fd, !.fds[fd] = k]]
      BY <1>3, <2>2 DEF Start, Lowest
    <2>5. k \in Links
      <3>1. n \in 1 .. MaxStarts
        BY <1>1, <2>1, <2>2, BoundsAssumption DEF TypeOK
      <3> QED BY <2>1, <2>2, <3>1, RunLink
    <2>6. daemon' \in [Daemons -> Processes] /\ Others(p) /\ Fresh(p, k, fd)
      BY <2>1, <2>4, <2>5, FreshEffect
    <2> QED BY <1>1, <2>1, <2>2, <2>3, <2>6, StartRelayStep
  <1> QED BY <1>2, <1>3

--------------------------------------------------------------------------------
(* The clients. *)

(* A step of client c: nothing changes between the daemons. *)
ClientOnly(c) ==
    /\ UNCHANGED <<daemon, starts, kills>>
    /\ \A k \in Links : k # c => view'[k] = view[k] /\ chan'[k] = chan[k]
    /\ \A d \in Clients : d # c => asked'[d] = asked[d] /\ got'[d] = got[d]

(* What is left to show is about c. *)
LEMMA ClientStep ==
    ASSUME CoreInv, NEW c \in Clients, ClientOnly(c), TypeOK',
           ViewOK(c)', TrafficOK(c)', ClientOK(c)'
    PROVE  CoreInv'
  <1>1. UNCHANGED <<daemon, starts, kills>> /\ c \in Links
    BY DEF ClientOnly, Links
  <1>2. \A p \in Daemons : ProcessOK(p)' /\ ResponseOK(p)'
    BY <1>1, OthersOK DEF CoreInv
  <1>3. ASSUME NEW k \in Links PROVE ViewOK(k)' /\ TrafficOK(k)'
    <2>1. CASE k = c
      BY <2>1
    <2>2. CASE k # c
      <3>1. view'[k] = view[k] /\ chan'[k] = chan[k] /\ ViewOK(k) /\ TrafficOK(k)
        BY <2>2 DEF ClientOnly, CoreInv
      <3> QED BY <1>1, <3>1 DEF ViewOK, TrafficOK, Running, Own
    <2> QED BY <2>1, <2>2
  <1>4. ASSUME NEW q \in Relays PROVE ExchangeOK(q)'
    <2>1. TypeOK /\ ProcessOK(q) /\ ExchangeOK(q)
      BY UpFacts DEF CoreInv
    <2>2. CASE ~Running(q)
      BY <1>1, <2>2 DEF ExchangeOK, Running
    <2>3. CASE Running(q)
      <3>1. Own(q) \in Links /\ Own(q) # c
        BY <2>1, <2>3, OwnLink
      <3>2. view'[Own(q)] = view[Own(q)] /\ chan'[Own(q)] = chan[Own(q)]
        BY <3>1 DEF ClientOnly
      <3>3. InTouch(q)' => InTouch(q)
        BY <1>1, <3>2 DEF InTouch, Sound, Running, Own
      <3> QED BY <1>1, <2>1, <2>3, <3>2, <3>3, ExchangeFrame
    <2> QED BY <2>2, <2>3
  <1>5. ASSUME NEW d \in Clients PROVE ClientOK(d)'
    <2>1. CASE d = c
      BY <2>1
    <2>2. CASE d # c
      <3>1. d \in Links /\ ClientOK(d)
        BY DEF Links, CoreInv
      <3>2. view'[d] = view[d] /\ chan'[d] = chan[d] /\ asked'[d] = asked[d] /\ got'[d] = got[d]
        BY <2>2, <3>1 DEF ClientOnly
      <3> QED BY <1>1, <3>1, <3>2, ClientFrame DEF Trusted
    <2> QED BY <2>1, <2>2
  <1> QED BY <1>2, <1>3, <1>4, <1>5 DEF CoreInv

(* A client connects to a running receiver. *)
LEMMA ConnectStep ==
    ASSUME CoreInv, NEW c \in Clients, Connect(c)
    PROVE  CoreInv'
  <1>1. TypeOK /\ c \in Links /\ ViewOK(c) /\ TrafficOK(c) /\ ClientOK(c)
    BY DEF CoreInv, Links
  <1>2. UNCHANGED <<daemon, starts, kills, chan, asked, got>> /\ daemon["receiver"].pc # "down"
    BY DEF Connect
  <1>3. ViewType' /\ \A k \in Links : k # c => view'[k] = view[k]
    BY <1>1 DEF TypeOK, ViewType, Connect, Connected, Sides
  <1>4. view'[c].lower = "open"
    BY <1>1 DEF TypeOK, Connect, Connected, Sides
  <1>5. TypeOK'
    BY <1>1, <1>2, <1>3 DEF TypeOK, ViewType
  <1>6. ViewOK(c)'
    BY <1>1, <1>2, <1>4, Ends DEF ViewOK, Running
  <1>7. TrafficOK(c)'
    BY <1>1, <1>2 DEF TrafficOK
  <1>8. ClientOK(c)'
    <2>1. Trusted(c)
      BY DEF Connect, Trusted
    <2> QED BY <1>1, <1>2, <2>1, ClientFrame
  <1>9. ClientOnly(c)
    BY <1>2, <1>3 DEF ClientOnly
  <1> QED BY <1>5, <1>6, <1>7, <1>8, <1>9, ClientStep

(* A client writes a request: its number is above all earlier ones. *)
LEMMA SendStep ==
    ASSUME CoreInv, NEW c \in Clients, Send(c)
    PROVE  CoreInv'
  <1>1. TypeOK /\ c \in Links /\ ViewOK(c) /\ TrafficOK(c) /\ ClientOK(c)
    BY DEF CoreInv, Links
  <1>2. UNCHANGED <<daemon, starts, kills, view, got>>
    BY DEF Send
  <1>3. PICK n : n = asked[c] + 1
    OBVIOUS
  <1>4. /\ asked[c] \in Nat /\ got[c] \in Nat /\ n \in Nat \ {0} /\ asked'[c] = n
        /\ asked' \in [Clients -> Nat] /\ \A d \in Clients : d # c => asked'[d] = asked[d]
    <2>1. asked' = [asked EXCEPT ![c] = asked[c] + 1]
      BY DEF Send
    <2>2. asked \in [Clients -> Nat] /\ got \in [Clients -> Nat]
      BY <1>1 DEF TypeOK
    <2> QED BY <1>3, <2>1, <2>2
  <1> DEFINE m == [kind |-> "request", client |-> c, n |-> n]
  <1>5. m \in Messages /\ m.kind = "request"
    BY <1>4 DEF Messages
  <1>6. chan' = [chan EXCEPT ![c].upper = <<m>>]
    BY <1>4 DEF Send
  <1> HIDE DEF m
  <1>7. <<m>> \in Seq(Messages)
    BY <1>5
  <1>8. /\ ChanType' /\ chan'[c].upper = <<m>> /\ chan'[c].lower = chan[c].lower
        /\ \A k \in Links : k # c => chan'[k] = chan[k]
    BY <1>1, <1>6, <1>7 DEF TypeOK, ChanType, Sides
  <1>9. TypeOK'
    BY <1>1, <1>2, <1>4, <1>8 DEF TypeOK, ChanType
  <1>10. ClientOnly(c)
    BY <1>2, <1>4, <1>8 DEF ClientOnly
  <1>11. ViewOK(c)'
    BY <1>1, <1>2 DEF ViewOK, Running, Own
  <1>12. TrafficOK(c)'
    <2>1. \A i \in DOMAIN chan'[c].upper : chan'[c].upper[i] = m
      BY <1>8
    <2> QED BY <1>5, <2>1 DEF TrafficOK
  <1>13. chan[c].lower \in Seq(Messages)
    BY <1>1 DEF TypeOK, Sides
  <1>14. \A i \in DOMAIN chan[c].lower : chan[c].lower[i] \in Messages
    BY <1>13
  <1>15. \A i \in DOMAIN chan[c].lower : chan[c].lower[i].n \in Nat
    BY <1>14 DEF Messages
  <1> SUFFICES ASSUME Trusted(c)
               PROVE  got'[c] <= asked'[c] /\ AnswersOK(c)' /\ BlocksOK(c)' /\ SentOK(c)'
    <2>1. ASSUME ClientOK(c)' PROVE CoreInv'
      BY <1>9, <1>10, <1>11, <1>12, <2>1, ClientStep
    <2> QED BY <1>2, <2>1 DEF ClientOK, Trusted
  <1>16. AnswersOK(c)'
    BY <1>1, <1>2, <1>3, <1>4, <1>8, <1>15 DEF ClientOK, AnswersOK
  <1>17. AnsweredBefore(c, n)'
    BY <1>1, <1>2, <1>3, <1>4, <1>8, <1>15 DEF ClientOK, AnswersOK, AnsweredBefore
  <1>18. \A l : AnsweredBefore(c, l) => AnsweredBefore(c, l)'
    BY <1>2, <1>8 DEF AnsweredBefore
  <1>19. ASSUME NEW f \in Fds, daemon["receiver"].block[f] # NoMessage
         PROVE  daemon["receiver"].block[f].n \in Nat
    <2>1. "receiver" \in Daemons
      BY DEF Daemons, Relays
    <2>2. daemon["receiver"].block[f] \in Messages
      BY <1>1, <1>19, <2>1, ProcessType
    <2> QED BY <2>2 DEF Messages
  <1>20. BlocksOK(c)'
    BY <1>1, <1>2, <1>3, <1>4, <1>18, <1>19 DEF ClientOK, BlocksOK
  <1>21. SentOK(c)'
    <2>1. chan'[c].upper = <<[kind |-> "request", client |-> c, n |-> asked'[c]]>>
      BY <1>4, <1>8 DEF m
    <2>2. \A f \in Fds : daemon["receiver"].fds[f] = c /\ daemon["receiver"].block[f] # NoMessage =>
              daemon["receiver"].block[f].n < n
      BY <1>1, <1>3, <1>4, <1>19 DEF ClientOK, BlocksOK
    <2> QED BY <1>2, <1>4, <1>17, <2>1, <2>2 DEF SentOK
  <1>22. got'[c] <= asked'[c]
    BY <1>1, <1>2, <1>3, <1>4 DEF ClientOK
  <1> QED BY <1>16, <1>20, <1>21, <1>22

(* A client reads what has arrived. *)
LEMMA PrintsStep ==
    ASSUME CoreInv, NEW c \in Clients, Prints(c)
    PROVE  CoreInv'
  <1>1. TypeOK /\ c \in Links /\ ViewOK(c) /\ TrafficOK(c) /\ ClientOK(c)
    BY DEF CoreInv, Links
  <1>2. UNCHANGED <<daemon, starts, kills, view, asked>>
    BY DEF Prints
  <1>3. ChanType /\ "lower" \in Sides /\ chan' = [chan EXCEPT ![c]["lower"] = << >>]
    BY <1>1 DEF TypeOK, ChanType, Sides, Prints
  <1>4. ChanType' /\ ElsewhereSame(c, "lower") /\ chan'[c]["lower"] = << >>
    BY <1>1, <1>3, EmptyEffect
  <1>5. chan'[c]["upper"] = chan[c]["upper"]
    BY <1>1, <1>4 DEF ElsewhereSame, Sides
  <1>6. ASSUME NEW k \in Links, k # c PROVE chan'[k] = chan[k]
    BY <1>3, <1>6 DEF ChanType
  <1>7. /\ chan[c].lower \in Seq(Messages) /\ chan[c].lower # << >>
        /\ got' = [got EXCEPT ![c] = IF chan[c].lower[Len(chan[c].lower)].kind = "answer"
                                     THEN chan[c].lower[Len(chan[c].lower)].n ELSE got[c]]
        /\ got \in [Clients -> Nat] /\ asked \in [Clients -> Nat]
    BY <1>1 DEF TypeOK, Sides, Prints
  <1>8. PICK l \in DOMAIN chan[c].lower : l = Len(chan[c].lower) /\ chan[c].lower[l] \in Messages
    BY <1>7, LastFacts
  <1>9. /\ got'[c] = got[c]
           \/ (chan[c].lower[l].kind = "answer" /\ got'[c] = chan[c].lower[l].n)
        /\ got'[c] \in Nat /\ got' \in [Clients -> Nat]
        /\ \A d \in Clients : d # c => got'[d] = got[d]
    <2>1. chan[c].lower[l].n \in Nat
      BY <1>8 DEF Messages
    <2> QED BY <1>7, <1>8, <2>1
  <1>10. TypeOK'
    BY <1>1, <1>2, <1>4, <1>9 DEF TypeOK, ChanType
  <1>11. ClientOnly(c)
    BY <1>2, <1>6, <1>9 DEF ClientOnly
  <1>12. ViewOK(c)'
    BY <1>1, <1>2 DEF ViewOK, Running, Own
  <1>13. TrafficOK(c)'
    BY <1>1, <1>5 DEF TrafficOK
  <1> SUFFICES ASSUME Trusted(c)
               PROVE  got'[c] <= asked'[c] /\ AnswersOK(c)' /\ BlocksOK(c)' /\ SentOK(c)'
    <2>1. ASSUME ClientOK(c)' PROVE CoreInv'
      BY <1>10, <1>11, <1>12, <1>13, <2>1, ClientStep
    <2> QED BY <1>2, <2>1 DEF ClientOK, Trusted
  <1>14. got'[c] <= asked[c]
    BY <1>1, <1>8, <1>9 DEF ClientOK, AnswersOK
  <1>15. \A n : AnsweredBefore(c, n) => AnsweredBefore(c, n)'
    BY <1>4, <1>8, <1>9 DEF AnsweredBefore
  <1>16. AnswersOK(c)'
    BY <1>4 DEF AnswersOK
  <1>17. BlocksOK(c)' /\ SentOK(c)'
    BY <1>1, <1>2, <1>5, <1>15 DEF ClientOK, BlocksOK, SentOK
  <1> QED BY <1>2, <1>14, <1>16, <1>17

--------------------------------------------------------------------------------
(* The invariant. *)

(* dealReadEvent(). *)
LEMMA DealReadStep ==
    ASSUME CoreInv, NEW p \in Daemons, NEW fd \in Fds, DealReadEvent(p, fd)
    PROVE  CoreInv'
  <1>1. /\ daemon[p].pc = "loop" /\ daemon[p].fds[fd] # NoLink /\ daemon[p].block[fd] = NoMessage
        /\ UNCHANGED <<starts, kills, asked, got>>
    BY DEF DealReadEvent
  <1>2. CASE ReadData(p, fd)
    BY <1>1, <1>2, ReadDataStep
  <1>3. CASE ReadEnd(p, fd)
    <2>1. PICK k : k = daemon[p].fds[fd]
      OBVIOUS
    <2>2. CASE /\ view[k][Side(p, k)] \in {"fin", "broken"}
               /\ daemon' = [daemon EXCEPT ![p].fds[fd] = NoLink]
               /\ view' = [view EXCEPT ![k][Other(Side(p, k))] = "fin"]
               /\ UNCHANGED chan
      BY <1>1, <2>1, <2>2, CloseStep
    <2>3. CASE Refused(p, daemon[p].fds[fd]) /\ UNCHANGED daemon
      BY <1>1, <2>3, ReadRefusedStep
    <2> QED BY <1>3, <2>1, <2>2, <2>3 DEF ReadEnd
  <1> QED BY <1>2, <1>3 DEF DealReadEvent

(* A relay's dealClientMessage() up to its read(), of its block or a freed *)
(* one.                                                                    *)
LEMMA RelayHandlesStep ==
    ASSUME CoreInv, NEW p \in Relays, NEW fd \in Fds, daemon[p].pc = "loop",
           NEW m \in Messages, m # NoMessage, m.kind = "request", NEW doomed \in BOOLEAN,
           ~doomed => m = daemon[p].block[fd],
           doomed => \E w \in daemon[p].waste : w.fd = fd,
           Forwards(p, fd, m, doomed) \/ CannotForward(p, fd, m, doomed),
           UNCHANGED <<starts, kills, asked, got>>
    PROVE  CoreInv'
  <1>1. TypeOK /\ kills \in 0 .. MaxKills /\ p \in Daemons
    BY UpFacts DEF CoreInv, TypeOK
  <1>2. CASE Forwards(p, fd, m, doomed)
    <2>1. PICK u, k : u = daemon[p].upFd /\ k = daemon[p].fds[u]
      OBVIOUS
    <2>2. k # NoLink
      BY <1>2, <2>1 DEF Forwards
    <2>3. CASE /\ Written(p, k, m)
               /\ daemon' = [daemon EXCEPT ![p].pc = "read", ![p].to = fd,
                                           ![p].message = m, ![p].doomed = doomed]
      <3>1. /\ Becomes(p, "read", daemon[p].fds, daemon[p].block)
            /\ Remembers(p, fd, m, doomed, daemon[p].response) /\ WastesNothing(p)
        BY <1>1, <2>3, ForwardEffect
      <3> QED BY <2>1, <2>2, <2>3, <3>1, ForwardsStep
    <2>4. CASE Dies(p)
      BY <1>1, <2>4, DiesStep
    <2> QED BY <1>2, <2>1, <2>3, <2>4 DEF Forwards
  <1>3. CASE CannotForward(p, fd, m, doomed)
    BY <1>3, CannotForwardStep
  <1> QED BY <1>2, <1>3

(* dealWriteEvent(). *)
LEMMA DealWriteStep ==
    ASSUME CoreInv, NEW p \in Daemons, NEW fd \in Fds, DealWriteEvent(p, fd)
    PROVE  CoreInv'
  <1>1. PICK m : m = daemon[p].block[fd]
    OBVIOUS
  <1>2. /\ daemon[p].pc = "loop" /\ m # NoMessage /\ Handles(p, fd, m, FALSE)
        /\ UNCHANGED <<starts, kills, asked, got>>
    BY <1>1 DEF DealWriteEvent
  <1>3. TypeOK /\ ProcessOK(p)
    BY DEF CoreInv
  <1>4. m \in Messages /\ m.kind = "request"
    BY <1>1, <1>2, <1>3, ProcessType DEF ProcessOK
  <1>5. CASE p = "service" /\ Serves(p, fd, m, FALSE)
    BY <1>1, <1>2, <1>5, ServesStep
  <1>6. CASE p \in Relays /\ (Forwards(p, fd, m, FALSE) \/ CannotForward(p, fd, m, FALSE))
    BY <1>1, <1>2, <1>4, <1>6, RelayHandlesStep
  <1> QED BY <1>2, <1>5, <1>6 DEF Handles

(* dealWriteEvent() with a freed block, which the login service never has. *)
LEMMA UseAfterFreeStep ==
    ASSUME CoreInv, NEW p \in Daemons, FreedOK(p), UseAfterFree(p)
    PROVE  CoreInv'
  <1>1. /\ daemon[p].pc = "loop" /\ daemon[p].freed # {}
        /\ UNCHANGED <<starts, kills, asked, got>>
    BY DEF UseAfterFree
  <1>2. TypeOK /\ ProcessOK(p) /\ kills \in 0 .. MaxKills
    BY DEF CoreInv, TypeOK
  <1>3. CASE Dies(p)
    BY <1>1, <1>2, <1>3, DiesStep
  <1>4. CASE \E w \in daemon[p].waste : Handles(p, w.fd, w.message, TRUE)
    <2>1. PICK w \in daemon[p].waste : Handles(p, w.fd, w.message, TRUE)
      BY <1>4
    <2>2. w.fd \in Fds /\ w.message \in Messages /\ w.message.kind = "request"
      BY <1>2, ProcessType DEF ProcessOK
    <2>3. PICK fd \in Fds, m \in Messages : fd = w.fd /\ m = w.message
      BY <2>2
    <2>4. Handles(p, fd, m, TRUE) /\ m.kind = "request"
      BY <2>1, <2>2, <2>3
    <2>7. m # NoMessage
      BY <2>4 DEF NoMessage
    <2>5. p # "service"
      BY <1>1, UpFacts DEF FreedOK, Lost, Running
    <2>6. p \in Relays /\ (Forwards(p, fd, m, TRUE) \/ CannotForward(p, fd, m, TRUE))
      BY <2>4, <2>5 DEF Handles
    <2> QED BY <1>1, <2>3, <2>4, <2>6, <2>7, RelayHandlesStep
  <1> QED BY <1>3, <1>4 DEF UseAfterFree

(* Every step keeps the core of the invariant. *)
LEMMA CoreNext ==
    ASSUME CoreInv, \A p \in Daemons : FreedOK(p), Next
    PROVE  CoreInv'
  <1>1. ASSUME NEW p \in Daemons, Start(p) PROVE CoreInv'
    BY <1>1, StartStep
  <1>2. ASSUME NEW p \in Daemons, Kill(p) PROVE CoreInv'
    <2>1. kills' \in 0 .. MaxKills
      BY <1>2, BoundsAssumption DEF Kill, CoreInv, TypeOK
    <2> QED BY <1>2, <2>1, DiesStep DEF Kill
  <1>3. ASSUME NEW p \in Daemons, DealConnectRequest(p) PROVE CoreInv'
    BY <1>3, AcceptStep
  <1>4. ASSUME NEW p \in Daemons, NEW fd \in Fds, DealReadEvent(p, fd) \/ DealWriteEvent(p, fd)
        PROVE  CoreInv'
    BY <1>4, DealReadStep, DealWriteStep
  <1>5. ASSUME NEW p \in Daemons, UseAfterFree(p) \/ ReadResponse(p) \/ WriteResponse(p) PROVE CoreInv'
    BY <1>5, UseAfterFreeStep, ReadResponseStep, WriteResponseStep
  <1>6. ASSUME NEW p \in Daemons, Aborts(p) PROVE CoreInv'
    BY <1>6, DiesStep DEF Aborts, CoreInv, TypeOK
  <1>7. ASSUME NEW c \in Clients, Connect(c) \/ Send(c) \/ Prints(c) \/ Leave(c) PROVE CoreInv'
    BY <1>7, ConnectStep, SendStep, PrintsStep, LeaveStep
  <1> QED BY <1>1, <1>2, <1>3, <1>4, <1>5, <1>6, <1>7 DEF Next, Step

--------------------------------------------------------------------------------
(* Freed blocks and resets. *)

(* Only the connections of p carry something new. *)
OnlyOwn(p) ==
    \A k \in Links, s \in Sides :
        \/ chan'[k][s] \in {chan[k][s], << >>}
        \/ /\ view[k][Other(s)] = "open"
           /\ \E f \in Fds : daemon[p].fds[f] = k /\ s = Other(Side(p, k))

(* What a step of p that neither starts nor ends it may do. *)
Plain(p) ==
    /\ UNCHANGED starts
    /\ Others(p) /\ Running(p) /\ Running(p)' /\ daemon'[p].upFd = daemon[p].upFd
    /\ \A f \in Fds : \/ daemon'[p].fds[f] \in {daemon[p].fds[f], NoLink}
                      \/ End(daemon'[p].fds[f], "upper") = p /\ daemon'[p].block[f] = NoMessage
    /\ \A f \in Fds : \/ daemon'[p].block[f] \in {daemon[p].block[f], NoMessage}
                      \/ /\ daemon'[p].fds[f] = daemon[p].fds[f] /\ daemon[p].fds[f] # NoLink
                         /\ chan[daemon[p].fds[f]][Side(p, daemon[p].fds[f])] # << >>
    /\ \A k \in Links, s \in Sides : /\ view'[k][s] = "open" => view[k][s] = "open"
                                     /\ view'[k][s] = "reset" => view[k][s] = "reset"
    /\ \A k \in Links : view[k].lower = "open" /\ view'[k].lower # "open" => chan'[k].upper = << >>
    /\ OnlyOwn(p)

(* In such a step no relay finds the next daemon again. *)
LEMMA PlainSound ==
    ASSUME CoreInv, NEW p \in Daemons, Plain(p), NEW q \in Daemons, Sound(q)'
    PROVE  Sound(q)
  <1>1. TypeOK /\ ProcessOK(p) /\ Own(q)' = Own(q)
    BY DEF CoreInv, Plain, Own
  <1>2. CASE q = "service"
    BY <1>2 DEF Sound
  <1>3. CASE q # "service" /\ q # p
    BY <1>1, <1>3 DEF Plain, Others, Sound, Running
  <1>4. CASE q # "service" /\ q = p
    <2>1. p \in Relays /\ daemon[p].upFd \in Fds
      BY <1>1, <1>4 DEF Plain, ProcessOK, Daemons
    <2>2. Own(p) # NoLink /\ End(Own(p), "upper") # p
      BY <1>1, <2>1, OwnLink, UpFacts DEF Plain
    <2>3. daemon'[p].fds[daemon[p].upFd] = Own(p)
      BY <1>1, <1>4 DEF Plain, Sound
    <2>4. daemon[p].fds[daemon[p].upFd] = Own(p)
      BY <2>1, <2>2, <2>3 DEF Plain
    <2> QED BY <1>4, <2>4 DEF Plain, Sound
  <1> QED BY <1>2, <1>3, <1>4

(* A connection a daemon above holds is one its lower end has open, and if *)
(* the upper end has it open too, the relay has not lost it.               *)
LEMMA HeldOpen ==
    ASSUME CoreInv, NEW p \in Daemons, NEW f \in Fds, NEW q \in Relays, Running(q),
           daemon[p].fds[f] = Own(q), p # q, view[Own(q)].upper = "open"
    PROVE  ~Lost(q)
  <1>1. TypeOK /\ ProcessOK(p) /\ ProcessOK(q) /\ q \in Daemons
    BY UpFacts DEF CoreInv
  <1>2. Own(q) \in Links /\ Own(q) \notin Clients /\ Own(q) # NoLink /\ Own(q)[1] = q
    BY <1>1, OwnLink
  <1>3. End(Own(q), "upper") = p
    <2>1. CASE p \in Relays /\ Running(p) /\ Own(q) = Own(p)
      BY <1>1, <1>2, <2>1, OwnLink
    <2> QED BY <1>1, <1>2, <2>1 DEF ProcessOK
  <1>4. ViewOK(Own(q))
    BY <1>2 DEF CoreInv
  <1>5. view[Own(q)].lower = "open"
    BY <1>3, <1>4 DEF ViewOK
  <1>6. daemon[q].fds[daemon[q].upFd] = Own(q)
    BY <1>2, <1>4 DEF ViewOK
  <1> QED BY <1>5, <1>6 DEF Lost, Sound

(* A lost connection stays lost, and brings nothing new. *)
LEMMA PlainLost ==
    ASSUME CoreInv, NEW p \in Daemons, Plain(p), NEW q \in Relays, Running(q), Lost(q)
    PROVE  /\ Lost(q)' /\ Own(q)' = Own(q)
           /\ chan'[Own(q)].lower \in {chan[Own(q)].lower, << >>}
  <1>1. TypeOK /\ ProcessOK(p) /\ ProcessOK(q) /\ q \in Daemons
    BY UpFacts DEF CoreInv
  <1>2. Own(q)' = Own(q) /\ Own(q) \in Links /\ Own(q) # NoLink
    BY <1>1, OwnLink DEF Plain, Own
  <1>3. Lost(q)'
    <2>1. Sound(q)' => Sound(q)
      BY <1>1, PlainSound
    <2>2. view'[Own(q)].lower = "open" => view[Own(q)].lower = "open"
      BY <1>2 DEF Plain, Sides
    <2> QED BY <1>2, <2>1, <2>2 DEF Lost
  <1>4. ASSUME view[Own(q)][Other("lower")] = "open",
               NEW f \in Fds, daemon[p].fds[f] = Own(q), "lower" = Other(Side(p, Own(q)))
        PROVE  FALSE
    <2>1. CASE p = q
      BY <1>1, <1>2, <1>4, <2>1, SideOf
    <2>2. CASE p # q
      <3>1. view[Own(q)].upper = "open"
        BY <1>4 DEF Other
      <3> QED BY <1>4, <2>2, <3>1, HeldOpen
    <2> QED BY <2>1, <2>2
  <1>5. chan'[Own(q)].lower \in {chan[Own(q)].lower, << >>}
    <2>1. "lower" \in Sides
      BY DEF Sides
    <2> QED BY <1>2, <1>4, <2>1 DEF Plain, OnlyOwn
  <1> QED BY <1>2, <1>3, <1>5

(* A process sends nothing to itself. *)
LEMMA PlainLower ==
    ASSUME CoreInv, NEW p \in Relays, Plain(p)
    PROVE  Own(p)' = Own(p) /\ chan'[Own(p)].lower \in {chan[Own(p)].lower, << >>}
  <1>1. TypeOK /\ ProcessOK(p) /\ Running(p) /\ p \in Daemons
    BY UpFacts DEF CoreInv, Plain
  <1>2. Own(p)' = Own(p) /\ Own(p) \in Links /\ Own(p) # NoLink
    BY <1>1, OwnLink DEF Plain, Own
  <1>3. ASSUME NEW f \in Fds, daemon[p].fds[f] = Own(p)
        PROVE  "lower" # Other(Side(p, Own(p)))
    BY <1>1, <1>2, <1>3, SideOf
  <1>4. "lower" \in Sides
    BY DEF Sides
  <1> QED BY <1>2, <1>3, <1>4 DEF Plain, OnlyOwn

(* The processes that do not step. *)
LEMMA PlainFreed ==
    ASSUME CoreInv, NEW p \in Daemons, Plain(p), NEW q \in Daemons, q # p, FreedOK(q)
    PROVE  FreedOK(q)'
  <1>1. daemon'[q] = daemon[q] /\ (Running(q)' <=> Running(q))
    BY DEF Plain, Others, Running
  <1>2. CASE Running(q) /\ Lost(q)
    <2>1. q \in Relays
      BY <1>2 DEF Lost
    <2>2. Lost(q)' /\ Own(q)' = Own(q) /\ chan'[Own(q)].lower \in {chan[Own(q)].lower, << >>}
      BY <1>2, <2>1, PlainLost
    <2>3. NoAnswer(q) => NoAnswer(q)'
      BY <2>2 DEF NoAnswer
    <2> QED BY <1>1, <2>2, <2>3 DEF FreedOK
  <1>3. CASE ~(Running(q) /\ Lost(q))
    BY <1>1, <1>3 DEF FreedOK, Running
  <1> QED BY <1>2, <1>3

(* The process that steps: what is left to show if its handler fails, or   *)
(* the connection to the next daemon ends.                                 *)
LEMMA PlainOwn ==
    ASSUME CoreInv, NEW p \in Daemons, Plain(p), FreedOK(p),
           daemon'[p].pc = "answer" /\ daemon'[p].response = NoMessage => Lost(p)',
           p # "receiver" /\ (daemon'[p].freed # {} \/ daemon'[p].doomed) =>
               /\ daemon'[p].response.kind # "answer"
               /\ daemon[p].freed # {} \/ daemon[p].doomed \/ (Lost(p)' /\ NoAnswer(p))
    PROVE  FreedOK(p)'
  <1> SUFFICES ASSUME p # "receiver", daemon'[p].freed # {} \/ daemon'[p].doomed
               PROVE  Lost(p)' /\ NoAnswer(p)'
    BY DEF FreedOK, Plain
  <1>1. (Lost(p) \/ Lost(p)') /\ NoAnswer(p)
    BY DEF FreedOK, Plain
  <1>2. p \in Relays /\ Running(p)
    BY <1>1 DEF Lost, Plain
  <1>3. Lost(p)'
    BY <1>1, <1>2, PlainLost
  <1>4. NoAnswer(p)'
    BY <1>1, <1>2, PlainLower DEF NoAnswer
  <1> QED BY <1>3, <1>4

(* The connections. *)
LEMMA PlainReset ==
    ASSUME CoreInv, NEW p \in Daemons, Plain(p), NEW k \in Links, ResetOK(k)
    PROVE  ResetOK(k)'
  <1>1. TypeOK /\ ProcessOK(p) /\ Running(p) /\ End(k, "upper") \in Daemons
    BY Ends DEF CoreInv, Plain
  <1>2. /\ "upper" \in Sides /\ "lower" \in Sides /\ Other("upper") = "lower"
        /\ view'[k].upper = "reset" => view[k].upper = "reset"
        /\ view'[k].lower = "open" => view[k].lower = "open"
    BY DEF Plain, Sides, Other
  <1>3. \/ chan'[k].upper \in {chan[k].upper, << >>}
        \/ view[k].lower = "open" /\ \E f \in Fds : daemon[p].fds[f] = k /\ Other(Side(p, k)) = "upper"
    BY <1>2 DEF Plain, OnlyOwn
  <1>4. view'[k].lower # "open" => chan'[k].upper = << >>
    <2>1. CASE view[k].lower = "open"
      BY <2>1 DEF Plain
    <2>2. CASE view[k].lower # "open"
      BY <1>3, <2>2 DEF ResetOK
    <2> QED BY <2>1, <2>2
  <1>5. ASSUME k \notin Clients, view[k].upper = "reset"
        PROVE  /\ ~(Running(k[1])' /\ k = Own(k[1])')
               /\ Sound(End(k, "upper"))' =>
                     /\ chan'[k].upper = << >>
                     /\ \A f \in Fds : daemon'[End(k, "upper")].fds[f] = k =>
                                          daemon'[End(k, "upper")].block[f] = NoMessage
    <2>1. k[1] \in Relays /\ k[1] \in Daemons
      BY <1>5, Ends, UpFacts
    <2>2. ~(Running(k[1]) /\ k = Own(k[1]))
      BY <1>5 DEF ResetOK
    <2>3. ~(Running(k[1])' /\ k = Own(k[1])')
      <3>1. Own(k[1])' = Own(k[1]) /\ (Running(k[1])' => Running(k[1]))
        BY <1>1, <2>1 DEF Plain, Own, Others, Running
      <3> QED BY <2>2, <3>1
    <2>4. ASSUME Sound(End(k, "upper"))'
          PROVE  /\ chan'[k].upper = << >>
                 /\ \A f \in Fds : daemon'[End(k, "upper")].fds[f] = k =>
                                      daemon'[End(k, "upper")].block[f] = NoMessage
      <3>1. Sound(End(k, "upper"))
        BY <1>1, <2>4, PlainSound
      <3>2. chan[k].upper = << >>
        BY <1>5, <3>1 DEF ResetOK
      <3>3. ASSUME NEW f \in Fds, daemon[p].fds[f] = k
            PROVE  Side(p, k) = "upper" /\ Other(Side(p, k)) # "upper"
        <4>1. k # NoLink
          BY Ends
        <4>2. ~(p \in Relays /\ k = Own(p))
          <5>1. SUFFICES ASSUME p \in Relays, k = Own(p) PROVE FALSE
            OBVIOUS
          <5>2. k[1] = p
            BY <1>1, <5>1, OwnLink
          <5> QED BY <1>1, <2>2, <5>1, <5>2
        <4> QED BY <1>1, <3>3, <4>1, <4>2, SideOf
      <3>4. chan'[k].upper = << >>
        BY <1>3, <3>2, <3>3
      <3>5. ASSUME NEW f \in Fds, daemon'[End(k, "upper")].fds[f] = k
            PROVE  daemon'[End(k, "upper")].block[f] = NoMessage
        <4>1. CASE End(k, "upper") # p
          <5>1. daemon'[End(k, "upper")] = daemon[End(k, "upper")]
            BY <1>1, <4>1 DEF Plain, Others
          <5> QED BY <1>5, <3>1, <3>5, <5>1 DEF ResetOK
        <4>2. CASE End(k, "upper") = p
          <5>1. k # NoLink
            BY Ends
          <5>2. CASE daemon[p].fds[f] = k
            <6>1. daemon[p].block[f] = NoMessage
              BY <1>5, <3>1, <4>2, <5>2 DEF ResetOK
            <6>2. chan[k][Side(p, k)] = << >>
              BY <3>2, <3>3, <5>2
            <6>3. daemon'[p].block[f] = NoMessage
              BY <5>2, <6>1, <6>2 DEF Plain
            <6> QED BY <4>2, <6>3
          <5>3. CASE daemon[p].fds[f] # k
            BY <3>5, <4>2, <5>1, <5>3 DEF Plain
          <5> QED BY <5>2, <5>3
        <4> QED BY <4>1, <4>2
      <3> QED BY <3>4, <3>5
    <2> QED BY <2>3, <2>4
  <1> QED BY <1>2, <1>4, <1>5 DEF ResetOK

(* All together. *)
LEMMA PlainStep ==
    ASSUME CoreInv, LossInv, NEW p \in Daemons, Plain(p), FreedOK(p)'
    PROVE  LossInv'
  BY PlainFreed, PlainReset DEF LossInv

(* Most steps keep the descriptors, and add nothing to a block. *)
LEMMA QuietPlain ==
    ASSUME TypeOK, NEW p \in Daemons, Running(p), NEW pc, pc # "down", NEW fd \in Fds,
           NEW block, block \in {daemon[p].block, [daemon[p].block EXCEPT ![fd] = NoMessage]},
           Becomes(p, pc, daemon[p].fds, block), ViewQuiet, OnlyOwn(p), UNCHANGED starts
    PROVE  Plain(p)
  <1>1. /\ Others(p) /\ Running(p)' /\ daemon'[p].upFd = daemon[p].upFd
        /\ daemon'[p].fds = daemon[p].fds /\ daemon'[p].block = block
    BY DEF Becomes, Running
  <1>2. \A f \in Fds : block[f] \in {daemon[p].block[f], NoMessage}
    BY ProcessType
  <1>3. \A k \in Links, s \in Sides : /\ view'[k][s] = "open" => view[k][s] = "open"
                                      /\ view'[k][s] = "reset" => view[k][s] = "reset"
    BY DEF ViewQuiet
  <1>4. \A k \in Links : view[k].lower = "open" => view'[k].lower = "open"
    BY DEF ViewQuiet, Sides
  <1> QED BY <1>1, <1>2, <1>3, <1>4 DEF Plain

(* Nothing is written, *)
LEMMA OnlyOwnSame ==
    ASSUME NEW p, UNCHANGED chan
    PROVE  OnlyOwn(p)
  BY DEF OnlyOwn

(* something is read, *)
LEMMA OnlyOwnRead ==
    ASSUME NEW p, NEW k \in Links, NEW s \in Sides, ElsewhereSame(k, s), chan'[k][s] = << >>
    PROVE  OnlyOwn(p)
  BY DEF OnlyOwn, ElsewhereSame

(* or p writes to a connection it has. *)
LEMMA OnlyOwnWritten ==
    ASSUME TypeOK, NEW p \in Daemons, ProcessOK(p), NEW f \in Fds, NEW k, k = daemon[p].fds[f],
           k # NoLink, NEW m \in Messages, Written(p, k, m)
    PROVE  OnlyOwn(p) /\ ViewQuiet
  <1>1. PICK s, t : s = Side(p, k) /\ t = Other(s)
    OBVIOUS
  <1>2. k \in Links /\ s \in Sides /\ t \in Sides /\ Other(t) = s
    BY <1>1, SideOf DEF Sides, Other
  <1>3. /\ ViewQuiet
        /\ \/ UNCHANGED chan
           \/ view[k][s] = "open" /\ Arrives(k, t, m)
    BY <1>1, <1>2, WrittenEffect
  <1>4. CASE UNCHANGED chan
    BY <1>3, <1>4, OnlyOwnSame
  <1>5. CASE view[k][s] = "open" /\ Arrives(k, t, m)
    <2>1. view[k][Other(t)] = "open" /\ \E g \in Fds : daemon[p].fds[g] = k /\ t = Other(Side(p, k))
      BY <1>1, <1>2, <1>5
    <2>2. ElsewhereSame(k, t)
      BY <1>5 DEF Arrives
    <2> QED BY <2>1, <2>2, <1>3 DEF OnlyOwn, ElsewhereSame
  <1> QED BY <1>3, <1>4, <1>5

(* A process that fails nothing, and has nothing new to say. *)
LEMMA SameFreed ==
    ASSUME CoreInv, LossInv, NEW p \in Daemons, Plain(p),
           daemon'[p].pc # "answer", daemon'[p].freed = daemon[p].freed,
           daemon'[p].doomed => daemon[p].doomed \/ daemon[p].freed # {},
           daemon'[p].response.kind = "answer" => daemon[p].response.kind = "answer"
    PROVE  LossInv'
  <1>1. FreedOK(p) /\ Running(p)
    BY DEF LossInv, Plain
  <1>2. FreedOK(p)'
    <2>1. ASSUME p # "receiver", daemon'[p].freed # {} \/ daemon'[p].doomed
          PROVE  daemon'[p].response.kind # "answer"
      BY <1>1, <2>1 DEF FreedOK
    <2> QED BY <1>1, <2>1, PlainOwn
  <1> QED BY <1>2, PlainStep

(* accept(). *)
LEMMA AcceptLoss ==
    ASSUME CoreInv, LossInv, NEW p \in Daemons, DealConnectRequest(p)
    PROVE  LossInv'
  <1>1. TypeOK /\ ProcessOK(p) /\ Running(p) /\ daemon[p].pc = "loop"
    BY DEF CoreInv, Running, DealConnectRequest
  <1>2. UNCHANGED <<starts, kills, view, chan, asked, got>>
    BY DEF DealConnectRequest
  <1>3. PICK j \in Backlog(p), fd \in Fds :
             daemon[p].fds[fd] = NoLink /\ daemon' = [daemon EXCEPT ![p].fds[fd] = j]
    BY DEF DealConnectRequest, Lowest
  <1>4. j \in Links /\ End(j, "upper") = p
    BY DEF Backlog
  <1>5. /\ Becomes(p, daemon[p].pc, [daemon[p].fds EXCEPT ![fd] = j], daemon[p].block)
        /\ ForgetsNothing(p) /\ WastesNothing(p)
    BY <1>1, <1>3, <1>4, AcceptEffect
  <1>6. daemon[p].block[fd] = NoMessage
    BY <1>1, <1>3 DEF ProcessOK
  <1>7. /\ Others(p) /\ Running(p)' /\ daemon'[p].upFd = daemon[p].upFd
        /\ daemon'[p].block = daemon[p].block /\ daemon'[p].pc = "loop"
        /\ \A f \in Fds : daemon'[p].fds[f] = IF f = fd THEN j ELSE daemon[p].fds[f]
    BY <1>1, <1>5, ProcessType DEF Becomes, Running
  <1>8. Plain(p)
    <2>1. OnlyOwn(p)
      BY <1>2, OnlyOwnSame
    <2> QED BY <1>1, <1>2, <1>4, <1>6, <1>7, <2>1 DEF Plain
  <1> QED BY <1>5, <1>7, <1>8, SameFreed DEF ForgetsNothing, Remembers, WastesNothing, Wastes

(* dealReadEvent(). *)
LEMMA ReadLoss ==
    ASSUME CoreInv, LossInv, NEW p \in Daemons, NEW fd \in Fds, DealReadEvent(p, fd)
    PROVE  LossInv'
  <1>1. TypeOK /\ ProcessOK(p) /\ Running(p)
    BY DEF CoreInv, Running, DealReadEvent
  <1>2. /\ daemon[p].pc = "loop" /\ daemon[p].fds[fd] # NoLink /\ daemon[p].block[fd] = NoMessage
        /\ UNCHANGED <<starts, kills, asked, got>>
    BY DEF DealReadEvent
  <1>3. PICK k, s, t : k = daemon[p].fds[fd] /\ s = Side(p, k) /\ t = Other(s)
    OBVIOUS
  <1>4. /\ k \in Links /\ s \in Sides /\ t \in Sides
        /\ t = "lower" => s = "upper"
    BY <1>1, <1>2, <1>3, SideOf DEF Sides
  <1>5. ViewType /\ ChanType
    BY <1>1 DEF TypeOK, ViewType, ChanType
  <1>6. CASE ReadData(p, fd)
    <2>1. PICK m : m = Head(chan[k][s])
      OBVIOUS
    <2>2. /\ chan[k][s] # << >> /\ daemon' = [daemon EXCEPT ![p].block[fd] = m]
          /\ chan' = [chan EXCEPT ![k][s] = << >>] /\ UNCHANGED view
      BY <1>3, <1>6, <2>1 DEF ReadData
    <2>3. m \in Messages
      <3>1. chan[k][s] \in Seq(Messages)
        BY <1>4, <1>5 DEF ChanType
      <3> QED BY <2>1, <2>2, <3>1, HeadFacts
    <2>4. /\ Becomes(p, daemon[p].pc, daemon[p].fds, [daemon[p].block EXCEPT ![fd] = m])
          /\ ForgetsNothing(p) /\ WastesNothing(p)
      BY <1>1, <2>2, <2>3, ReadEffect
    <2>5. OnlyOwn(p)
      BY <1>4, <1>5, <2>2, EmptyEffect, OnlyOwnRead
    <2>6. \A f \in Fds : f # fd => daemon'[p].block[f] = daemon[p].block[f]
      BY <1>1, <2>4, ProcessType DEF Becomes
    <2>7. Plain(p)
      <3>1. /\ Others(p) /\ Running(p)' /\ daemon'[p].upFd = daemon[p].upFd
            /\ daemon'[p].fds = daemon[p].fds
        BY <1>2, <2>4 DEF Becomes, Running
      <3> QED BY <1>1, <1>2, <1>3, <2>2, <2>5, <2>6, <3>1 DEF Plain
    <2> QED BY <1>2, <2>4, <2>7, SameFreed DEF Becomes, ForgetsNothing, Remembers, WastesNothing, Wastes
  <1>7. CASE /\ chan[k][s] = << >>
             /\ daemon' = [daemon EXCEPT ![p].fds[fd] = NoLink]
             /\ view' = [view EXCEPT ![k][t] = "fin"]
             /\ UNCHANGED chan
    <2>1. /\ Becomes(p, daemon[p].pc, [daemon[p].fds EXCEPT ![fd] = NoLink], daemon[p].block)
          /\ ForgetsNothing(p) /\ WastesNothing(p)
      BY <1>1, <1>7, AcceptEffect
    <2>2. /\ Others(p) /\ Running(p)' /\ daemon'[p].upFd = daemon[p].upFd
          /\ daemon'[p].block = daemon[p].block /\ daemon'[p].pc = "loop"
          /\ \A f \in Fds : daemon'[p].fds[f] \in {daemon[p].fds[f], NoLink}
      BY <1>1, <1>2, <2>1, ProcessType DEF Becomes, Running
    <2>3. OnlyOwn(p)
      BY <1>7, OnlyOwnSame
    <2>4. \A j \in Links, r \in Sides :
              view'[j][r] = IF j = k /\ r = t THEN "fin" ELSE view[j][r]
      BY <1>4, <1>5, <1>7 DEF ViewType
    <2>5. ASSUME NEW j \in Links, view[j].lower = "open", view'[j].lower # "open"
          PROVE  chan'[j].upper = << >>
      BY <1>4, <1>7, <2>4, <2>5 DEF Sides
    <2>6. Plain(p)
      BY <1>1, <1>2, <2>2, <2>3, <2>4, <2>5 DEF Plain
    <2> QED BY <2>1, <2>2, <2>6, SameFreed DEF ForgetsNothing, Remembers, WastesNothing, Wastes
  <1>8. CASE Refused(p, k) /\ UNCHANGED daemon
    <2>1. ViewQuiet /\ OnlyOwn(p)
      BY <1>1, <1>3, <1>4, <1>8, RefusedEffect, OnlyOwnSame
    <2>2. Becomes(p, "loop", daemon[p].fds, daemon[p].block)
      BY <1>1, <1>2, <1>8 DEF Becomes, Others, TypeOK
    <2>3. Plain(p)
      BY <1>1, <1>2, <2>1, <2>2, QuietPlain
    <2> QED BY <1>2, <1>8, <2>3, SameFreed
  <1> QED BY <1>3, <1>6, <1>7, <1>8 DEF DealReadEvent, ReadEnd

(* The end of a handler.  One that fails has lost the next daemon. *)
LEMMA ReturnLoss ==
    ASSUME CoreInv, LossInv, NEW p \in Daemons, Running(p), NEW fd \in Fds, NEW m \in Messages,
           NEW doomed \in BOOLEAN, NEW ok \in BOOLEAN, HandlerReturns(p, fd, m, doomed, ok),
           doomed => daemon[p].doomed \/ daemon[p].freed # {},
           ~ok /\ ~doomed /\ p # "receiver" => Lost(p)' /\ NoAnswer(p),
           ViewQuiet, OnlyOwn(p), UNCHANGED starts
    PROVE  LossInv'
  <1>1. TypeOK /\ FreedOK(p)
    BY DEF CoreInv, LossInv
  <1>2. CASE doomed = FALSE
    <2> DEFINE block == [daemon[p].block EXCEPT ![fd] = NoMessage]
    <2>1. /\ Becomes(p, "loop", daemon[p].fds, block)
          /\ Remembers(p, 0, NoMessage, daemon[p].doomed, NoMessage)
          /\ ok => daemon'[p].freed = daemon[p].freed
      BY <1>1, <1>2, ReturnEffect
    <2>2. block \in {daemon[p].block, [daemon[p].block EXCEPT ![fd] = NoMessage]}
      OBVIOUS
    <2> HIDE DEF block
    <2>3. Plain(p)
      BY <1>1, <2>1, <2>2, QuietPlain
    <2>4. /\ daemon'[p].pc = "loop" /\ daemon'[p].doomed = daemon[p].doomed
          /\ daemon'[p].response.kind = "none"
      BY <2>1 DEF Becomes, Remembers, NoMessage
    <2>5. FreedOK(p)'
      BY <1>1, <1>2, <2>1, <2>3, <2>4, PlainOwn
    <2> QED BY <2>3, <2>5, PlainStep
  <1>3. CASE doomed = TRUE
    <2>1. /\ Becomes(p, "abort", daemon[p].fds, daemon[p].block)
          /\ Remembers(p, daemon[p].to, daemon[p].message, TRUE, daemon[p].response)
          /\ WastesNothing(p)
      BY <1>1, <1>3, AbortEffect
    <2>2. Plain(p)
      BY <1>1, <2>1, QuietPlain
    <2> QED BY <1>3, <2>1, <2>2, SameFreed DEF Becomes, Remembers, WastesNothing, Wastes
  <1> QED BY <1>2, <1>3

(* The login service has no freed block. *)
LEMMA ServesLoss ==
    ASSUME CoreInv, LossInv, NEW fd \in Fds, daemon["service"].pc = "loop", NEW m \in Messages,
           Serves("service", fd, m, FALSE), UNCHANGED <<starts, kills, asked, got>>
    PROVE  LossInv'
  <1> DEFINE p == "service"
             a == AnswerTo(m)
  <1>1. TypeOK /\ p \in Daemons /\ Running(p) /\ FreedOK(p) /\ ~Lost(p)
    BY UpFacts DEF CoreInv, Running, Daemons, LossInv, Lost
  <1>2. a \in Messages /\ a.kind = "answer"
    BY DEF AnswerTo, Messages
  <1>3. /\ Becomes(p, "answer", daemon[p].fds, daemon[p].block)
        /\ Remembers(p, fd, m, FALSE, a) /\ WastesNothing(p)
    BY <1>1, <1>2, ServeEffect DEF Serves, AnswerTo
  <1>4. a # NoMessage
    BY <1>2 DEF NoMessage
  <1> HIDE DEF a
  <1>5. ViewQuiet /\ OnlyOwn(p)
    BY OnlyOwnSame DEF Serves, ViewQuiet
  <1>6. Plain(p)
    BY <1>1, <1>3, <1>5, QuietPlain
  <1>7. daemon[p].freed = {} /\ daemon'[p].freed = {} /\ daemon'[p].doomed = FALSE
        /\ daemon'[p].response # NoMessage
    BY <1>1, <1>3, <1>4 DEF FreedOK, Remembers, WastesNothing, Wastes
  <1>8. FreedOK(p)'
    BY <1>1, <1>6, <1>7, PlainOwn
  <1> QED BY <1>1, <1>6, <1>8, PlainStep

(* A connection that has reported its end is lost. *)
LEMMA RefusedLost ==
    ASSUME CoreInv, NEW p \in Relays, Running(p), NEW u \in Fds, u = daemon[p].upFd,
           NEW k, k = daemon[p].fds[u], k # NoLink, view'[k][Side(p, k)] # "open",
           Sound(p)' => Sound(p), UNCHANGED starts
    PROVE  Lost(p)'
  <1>1. TypeOK /\ ProcessOK(p) /\ p \in Daemons /\ p # "service" /\ Own(p)' = Own(p)
    BY UpFacts DEF CoreInv, Own
  <1>2. SUFFICES ASSUME Sound(p)' PROVE view'[Own(p)].lower # "open"
    BY <1>1 DEF Lost
  <1>3. k = Own(p)
    BY <1>1, <1>2 DEF Sound
  <1>4. Side(p, k) = "lower"
    BY <1>1, <1>3, SideOf
  <1> QED BY <1>3, <1>4

(* A relay's dealClientMessage() up to its read(). *)
LEMMA CannotForwardLoss ==
    ASSUME CoreInv, LossInv, NEW p \in Relays, NEW fd \in Fds, daemon[p].pc = "loop",
           NEW m \in Messages, m.kind = "request", NEW doomed \in BOOLEAN,
           doomed => daemon[p].freed # {},
           CannotForward(p, fd, m, doomed), UNCHANGED <<starts, kills, asked, got>>
    PROVE  LossInv'
  <1>1. /\ TypeOK /\ ProcessOK(p) /\ ExchangeOK(p) /\ Running(p) /\ p \in Daemons /\ p # "service"
        /\ Own(p)' = Own(p) /\ HandlerReturns(p, fd, m, doomed, FALSE)
    BY UpFacts DEF CoreInv, Running, Own, CannotForward
  <1>2. PICK u, k : u = daemon[p].upFd /\ k = daemon[p].fds[u]
    OBVIOUS
  <1>3. u \in Fds
    BY <1>1, <1>2 DEF ProcessOK
  <1>4. NoAnswer(p)
    BY <1>1 DEF ExchangeOK, AnswerSent, NoAnswer
  <1>5. daemon'[p].fds = daemon[p].fds /\ daemon'[p].upFd = u /\ (Sound(p)' => Sound(p))
    <2>1. daemon'[p].fds = daemon[p].fds /\ daemon'[p].upFd = u
      <3>1. CASE doomed = FALSE
        BY <1>1, <1>2, <3>1, ReturnEffect DEF Becomes
      <3>2. CASE doomed = TRUE
        BY <1>1, <1>2, <3>2, AbortEffect DEF Becomes
      <3> QED BY <3>1, <3>2
    <2> QED BY <1>1, <1>2, <2>1 DEF Sound
  <1>6. CASE k = NoLink /\ UNCHANGED <<view, chan>>
    <2>1. ~Sound(p)
      BY <1>1, <1>2, <1>6, OwnLink DEF Sound
    <2>2. Lost(p)' /\ ViewQuiet /\ OnlyOwn(p)
      BY <1>5, <1>6, <2>1, OnlyOwnSame DEF Lost, ViewQuiet
    <2> QED BY <1>1, <1>4, <2>2, ReturnLoss
  <1>7. CASE k # NoLink /\ Refused(p, k)
    <2>1. k \in Links /\ Side(p, k) \in Sides
      BY <1>1, <1>2, <1>3, <1>7, SideOf
    <2>2. ViewQuiet /\ OnlyOwn(p) /\ view[k][Side(p, k)] # "open"
      BY <1>1, <1>7, <2>1, RefusedEffect, OnlyOwnSame
    <2>3. view'[k][Side(p, k)] # "open"
      BY <2>1, <2>2 DEF ViewQuiet
    <2>4. Lost(p)'
      BY <1>1, <1>2, <1>3, <1>5, <1>7, <2>3, RefusedLost
    <2> QED BY <1>1, <1>4, <2>2, <2>4, ReturnLoss
  <1> QED BY <1>2, <1>6, <1>7 DEF CannotForward

(* A process or a client ends. *)
LEMMA EndFreed ==
    ASSUME CoreInv, LossInv, NEW x \in Daemons \cup Clients, Closed(x), NEW q \in Daemons
    PROVE  FreedOK(q)'
  <1>1. TypeOK /\ ProcessOK(q) /\ FreedOK(q)
    BY DEF CoreInv, LossInv
  <1>2. CASE q = x
    <2>1. daemon'[q] = Off /\ ~Running(q)'
      BY <1>2, OffType DEF Closed, Running
    <2> QED BY <2>1, OffType DEF FreedOK
  <1>3. CASE q # x
    <2>1. daemon'[q] = daemon[q] /\ Own(q)' = Own(q) /\ (Running(q)' <=> Running(q))
      BY <1>3 DEF Closed, Others, Own, Running
    <2>2. CASE Running(q) /\ Lost(q)
      <3>1. q \in Relays
        BY <2>2 DEF Lost
      <3>2. Own(q) \in Links /\ End(Own(q), "lower") = q
        BY <1>1, <2>2, <3>1, OwnLink
      <3>3. ViewType /\ ChanType
        BY <1>1 DEF TypeOK, ViewType, ChanType
      <3>4. /\ view'[Own(q)]["lower"] = "open" => view[Own(q)]["lower"] = "open"
            /\ chan'[Own(q)]["lower"] = chan[Own(q)]["lower"]
        BY <1>3, <3>2, <3>3, CloseEffect DEF Closed, Sides
      <3>5. Lost(q)' /\ (NoAnswer(q) => NoAnswer(q)')
        BY <2>1, <2>2, <3>4 DEF Lost, Sound, NoAnswer
      <3> QED BY <1>1, <2>1, <3>5 DEF FreedOK
    <2>3. CASE ~(Running(q) /\ Lost(q))
      BY <1>1, <2>1, <2>3 DEF FreedOK, Running
    <2> QED BY <2>2, <2>3
  <1> QED BY <1>2, <1>3

(* An answer that is unread then is the last of its exchange. *)
LEMMA EndReset ==
    ASSUME CoreInv, LossInv, NEW x \in Daemons \cup Clients, Closed(x), NEW k \in Links
    PROVE  ResetOK(k)'
  <1>1. TypeOK /\ ResetOK(k) /\ ViewOK(k) /\ End(k, "upper") \in Daemons
    BY Ends DEF CoreInv, LossInv
  <1>2. ViewType /\ ChanType
    BY <1>1 DEF TypeOK, ViewType, ChanType
  <1>3. /\ view'[k]["lower"] = "open" <=> view[k]["lower"] = "open" /\ End(k, "upper") # x
        /\ End(k, "upper") = x => chan'[k]["upper"] = << >>
        /\ End(k, "upper") # x => chan'[k]["upper"] = chan[k]["upper"]
    BY <1>2, CloseEffect DEF Closed, Sides, Other
  <1>4. view'[k].lower # "open" => chan'[k].upper = << >>
    BY <1>1, <1>3 DEF ResetOK
  <1>5. ASSUME k \notin Clients, view'[k].upper = "reset"
        PROVE  /\ ~(Running(k[1])' /\ k = Own(k[1])')
               /\ Sound(End(k, "upper"))' =>
                     /\ chan'[k].upper = << >>
                     /\ \A f \in Fds : daemon'[End(k, "upper")].fds[f] = k =>
                                          daemon'[End(k, "upper")].block[f] = NoMessage
    <2>1. /\ k[1] \in Relays /\ k[1] \in Daemons /\ k = <<k[1], k[2]>>
          /\ End(k, "lower") = k[1] /\ End(k, "upper") = Up(k[1]) /\ Up(k[1]) # k[1]
      BY <1>5, Ends, UpFacts
    <2>2. \/ view[k].upper = "reset"
          \/ k[1] = x /\ view[k].upper = "open" /\ chan[k].lower # << >>
      BY <1>5, <2>1 DEF Closed, ClosesAll, Sides, Other
    <2>3. /\ \A q \in Daemons : Own(q)' = Own(q)
          /\ \A q \in Daemons : q # x => daemon'[q] = daemon[q] /\ (Running(q)' <=> Running(q))
                                         /\ (Sound(q)' <=> Sound(q))
      BY DEF Closed, Others, Own, Running, Sound
    <2>4. x \in Daemons => ~Running(x)' /\ \A f \in Fds : daemon'[x].fds[f] = NoLink
      BY OffType DEF Closed, Running
    <2>5. CASE view[k].upper = "reset"
      <3>1. ~(Running(k[1])' /\ k = Own(k[1])')
        BY <1>1, <1>5, <2>1, <2>3, <2>4, <2>5 DEF ResetOK
      <3>2. CASE End(k, "upper") = x
        BY <1>1, <1>3, <2>4, <3>1, <3>2, Ends
      <3>3. CASE End(k, "upper") # x
        BY <1>1, <1>3, <1>5, <2>3, <2>5, <3>1, <3>3 DEF ResetOK
      <3> QED BY <3>2, <3>3
    <2>6. CASE k[1] = x /\ view[k].upper = "open" /\ chan[k].lower # << >>
      <3>1. x \in Relays /\ k = Own(x) /\ Running(x) /\ ExchangeOK(x)
        BY <1>1, <1>5, <2>1, <2>6 DEF ViewOK, CoreInv
      <3>2. ~Running(k[1])'
        BY <2>1, <2>4, <2>6
      <3>3. Up(x) # x /\ Up(x) \in Daemons /\ End(k, "upper") = Up(x)
        BY <2>1, <2>6, <3>1, UpFacts
      <3>4. ASSUME Sound(Up(x))
            PROVE  /\ chan[k].upper = << >>
                   /\ \A f \in Fds : daemon[Up(x)].fds[f] = k => daemon[Up(x)].block[f] = NoMessage
        <4>1. CASE view[k].lower = "open"
          <5>1. InTouch(x)
            BY <2>6, <3>1, <3>4, <4>1 DEF InTouch
          <5>2. RequestSent(x) /\ RequestHeld(x)
            BY <3>1 DEF ExchangeOK
          <5> QED BY <2>6, <3>1, <5>1, <5>2 DEF RequestSent, RequestHeld
        <4>2. CASE view[k].lower # "open"
          BY <1>1, <3>3, <4>2 DEF ResetOK, ViewOK
        <4> QED BY <4>1, <4>2
      <3> QED BY <1>3, <2>3, <3>2, <3>3, <3>4
    <2> QED BY <2>2, <2>5, <2>6
  <1> QED BY <1>4, <1>5 DEF ResetOK

(* So it is when a daemon dies, *)
LEMMA DiesLoss ==
    ASSUME CoreInv, LossInv, NEW p \in Daemons, Dies(p), UNCHANGED <<starts, asked, got>>,
           kills' \in 0 .. MaxKills
    PROVE  LossInv'
  <1>1. daemon' \in [Daemons -> Processes] /\ Others(p) /\ daemon'[p] = Off
    BY OneProcess, OffType DEF Dies, CoreInv
  <1>2. Closed(p)
    BY <1>1 DEF Closed, Dies
  <1> QED BY <1>2, EndFreed, EndReset DEF LossInv

(* or a client leaves. *)
LEMMA LeaveLoss ==
    ASSUME CoreInv, LossInv, NEW c \in Clients, Leave(c)
    PROVE  LossInv'
  <1>1. Closed(c)
    BY ClientsAssumption DEF Closed, Leave, CoreInv, TypeOK, Others
  <1> QED BY <1>1, EndFreed, EndReset DEF LossInv

(* A relay's dealClientMessage() up to its read(). *)
LEMMA ForwardsLoss ==
    ASSUME CoreInv, LossInv, NEW p \in Relays, NEW fd \in Fds, daemon[p].pc = "loop",
           NEW m \in Messages, NEW doomed \in BOOLEAN, doomed => daemon[p].freed # {},
           Forwards(p, fd, m, doomed), UNCHANGED <<starts, kills, asked, got>>
    PROVE  LossInv'
  <1>1. TypeOK /\ ProcessOK(p) /\ Running(p) /\ p \in Daemons /\ kills \in 0 .. MaxKills
    BY UpFacts DEF CoreInv, Running, TypeOK
  <1>2. PICK u, k : u = daemon[p].upFd /\ k = daemon[p].fds[u]
    OBVIOUS
  <1>3. u \in Fds /\ k # NoLink
    BY <1>1, <1>2 DEF ProcessOK, Forwards
  <1>4. CASE /\ Written(p, k, m)
             /\ daemon' = [daemon EXCEPT ![p].pc = "read", ![p].to = fd,
                                         ![p].message = m, ![p].doomed = doomed]
    <2>1. /\ Becomes(p, "read", daemon[p].fds, daemon[p].block)
          /\ Remembers(p, fd, m, doomed, daemon[p].response) /\ WastesNothing(p)
      BY <1>1, <1>4, ForwardEffect
    <2>2. ViewQuiet /\ OnlyOwn(p)
      BY <1>1, <1>2, <1>3, <1>4, OnlyOwnWritten
    <2>3. Plain(p)
      BY <1>1, <2>1, <2>2, QuietPlain
    <2> QED BY <1>1, <2>1, <2>3, SameFreed DEF Becomes, Remembers, WastesNothing, Wastes
  <1>5. CASE Dies(p)
    BY <1>1, <1>5, DiesLoss
  <1> QED BY <1>2, <1>4, <1>5 DEF Forwards

(* dealWriteEvent(). *)
LEMMA DealWriteLoss ==
    ASSUME CoreInv, LossInv, NEW p \in Daemons, NEW fd \in Fds, DealWriteEvent(p, fd)
    PROVE  LossInv'
  <1>1. PICK m : m = daemon[p].block[fd]
    OBVIOUS
  <1>2. /\ daemon[p].pc = "loop" /\ m # NoMessage /\ Handles(p, fd, m, FALSE)
        /\ UNCHANGED <<starts, kills, asked, got>>
    BY <1>1 DEF DealWriteEvent
  <1>3. TypeOK /\ ProcessOK(p)
    BY DEF CoreInv
  <1>4. m \in Messages /\ m.kind = "request"
    BY <1>1, <1>2, <1>3, ProcessType DEF ProcessOK
  <1>5. CASE p = "service" /\ Serves(p, fd, m, FALSE)
    BY <1>2, <1>4, <1>5, ServesLoss
  <1>6. CASE p \in Relays /\ Forwards(p, fd, m, FALSE)
    BY <1>2, <1>4, <1>6, ForwardsLoss
  <1>7. CASE p \in Relays /\ CannotForward(p, fd, m, FALSE)
    BY <1>2, <1>4, <1>7, CannotForwardLoss
  <1> QED BY <1>2, <1>5, <1>6, <1>7 DEF Handles

(* dealWriteEvent() with a freed block. *)
LEMMA UseAfterFreeLoss ==
    ASSUME CoreInv, LossInv, NEW p \in Daemons, UseAfterFree(p)
    PROVE  LossInv'
  <1>1. /\ daemon[p].pc = "loop" /\ daemon[p].freed # {}
        /\ UNCHANGED <<starts, kills, asked, got>>
    BY DEF UseAfterFree
  <1>2. TypeOK /\ ProcessOK(p) /\ kills \in 0 .. MaxKills /\ FreedOK(p)
    BY DEF CoreInv, TypeOK, LossInv
  <1>3. CASE Dies(p)
    BY <1>1, <1>2, <1>3, DiesLoss
  <1>4. CASE \E w \in daemon[p].waste : Handles(p, w.fd, w.message, TRUE)
    <2>1. PICK w \in daemon[p].waste : Handles(p, w.fd, w.message, TRUE)
      BY <1>4
    <2>2. w.fd \in Fds /\ w.message \in Messages /\ w.message.kind = "request"
      BY <1>2, ProcessType DEF ProcessOK
    <2>3. PICK fd \in Fds, m \in Messages : fd = w.fd /\ m = w.message
      BY <2>2
    <2>4. Handles(p, fd, m, TRUE) /\ m.kind = "request"
      BY <2>1, <2>2, <2>3
    <2>5. p # "service"
      BY <1>1, <1>2, UpFacts DEF FreedOK, Lost, Running
    <2>6. CASE p \in Relays /\ Forwards(p, fd, m, TRUE)
      BY <1>1, <2>6, ForwardsLoss
    <2>7. CASE p \in Relays /\ CannotForward(p, fd, m, TRUE)
      BY <1>1, <2>4, <2>7, CannotForwardLoss
    <2> QED BY <2>4, <2>5, <2>6, <2>7 DEF Handles
  <1> QED BY <1>3, <1>4 DEF UseAfterFree

(* The blocking read(). *)
LEMMA ReadResponseLoss ==
    ASSUME CoreInv, LossInv, NEW p \in Daemons, ReadResponse(p)
    PROVE  LossInv'
  <1>1. TypeOK /\ ProcessOK(p) /\ Running(p) /\ daemon[p].pc = "read" /\ FreedOK(p)
    BY DEF CoreInv, Running, ReadResponse, LossInv
  <1>2. /\ p \in Relays /\ daemon[p].upFd \in Fds /\ daemon[p].fds[daemon[p].upFd] # NoLink
        /\ daemon[p].to \in Fds /\ daemon[p].message \in Messages /\ daemon[p].doomed \in BOOLEAN
    BY <1>1, ProcessType DEF ProcessOK, HandlerOK
  <1>3. PICK u, k, s : u = daemon[p].upFd /\ k = daemon[p].fds[u] /\ k # NoLink /\ s = Side(p, k)
    BY <1>2
  <1>4. /\ k \in Links /\ s \in Sides
        /\ \/ s = "lower" /\ k = Own(p)
           \/ s = "upper" /\ k # Own(p)
    BY <1>1, <1>2, <1>3, SideOf
  <1>5. UNCHANGED <<starts, kills, asked, got>>
    BY DEF ReadResponse
  <1>6. ViewType /\ ChanType /\ ExchangeOK(p) /\ TrafficOK(k) /\ Own(p)' = Own(p)
    BY <1>1, <1>2, <1>4, <1>5 DEF CoreInv, TypeOK, ViewType, ChanType, Own
  <1>7. CASE /\ chan[k][s] # << >>
             /\ daemon' = [daemon EXCEPT ![p].pc = "answer", ![p].response = Head(chan[k][s])]
             /\ chan' = [chan EXCEPT ![k][s] = << >>]
             /\ UNCHANGED view
    <2>1. PICK a : a = Head(chan[k][s])
      OBVIOUS
    <2>2. 1 \in DOMAIN chan[k][s] /\ a = chan[k][s][1] /\ a \in Messages
      <3>1. chan[k][s] \in Seq(Messages)
        BY <1>4, <1>6 DEF ChanType
      <3> QED BY <1>7, <2>1, <3>1, HeadFacts
    <2>3. a # NoMessage
      BY <2>2 DEF Messages, NoMessage
    <2>4. /\ Becomes(p, "answer", daemon[p].fds, daemon[p].block)
          /\ Remembers(p, daemon[p].to, daemon[p].message, daemon[p].doomed, a) /\ WastesNothing(p)
      BY <1>1, <1>7, <2>1, <2>2, ResponseEffect
    <2>5. ViewQuiet /\ OnlyOwn(p)
      BY <1>4, <1>6, <1>7, EmptyEffect, OnlyOwnRead DEF ViewQuiet
    <2>6. Plain(p)
      BY <1>1, <1>2, <1>5, <2>4, <2>5, QuietPlain
    <2>7. NoAnswer(p) => a.kind # "answer"
      <3>1. CASE s = "lower" /\ k = Own(p)
        BY <2>2, <3>1 DEF NoAnswer
      <3>2. CASE s = "upper"
        <4>1. a.kind = "request"
          BY <1>6, <2>2, <3>2 DEF TrafficOK
        <4> QED BY <4>1
      <3> QED BY <1>4, <3>1, <3>2
    <2>8. FreedOK(p)'
      <3>1. /\ daemon'[p].response = a /\ daemon'[p].freed = daemon[p].freed
            /\ daemon'[p].doomed = daemon[p].doomed
        BY <2>4 DEF Remembers, WastesNothing, Wastes
      <3> QED BY <1>1, <2>3, <2>6, <2>7, <3>1, PlainOwn DEF FreedOK
    <2> QED BY <2>6, <2>8, PlainStep
  <1>8. CASE /\ chan[k][s] = << >>
             /\ view[k][s] \in {"fin", "broken"}
             /\ daemon' = [daemon EXCEPT ![p].pc = "answer", ![p].response = NoMessage]
             /\ UNCHANGED <<view, chan>>
    <2>1. /\ Becomes(p, "answer", daemon[p].fds, daemon[p].block)
          /\ Remembers(p, daemon[p].to, daemon[p].message, daemon[p].doomed, NoMessage)
          /\ WastesNothing(p)
      BY <1>1, <1>8, ResponseEffect
    <2>2. ViewQuiet /\ OnlyOwn(p)
      BY <1>8, OnlyOwnSame DEF ViewQuiet
    <2>3. Plain(p)
      BY <1>1, <1>2, <1>5, <2>1, <2>2, QuietPlain
    <2>4. Lost(p)'
      <3>1. view'[k][s] # "open"
        BY <1>8
      <3>2. Sound(p)' => Sound(p)
        BY <2>3, PlainSound
      <3> QED BY <1>1, <1>2, <1>3, <1>5, <3>1, <3>2, RefusedLost
    <2>5. FreedOK(p)'
      <3>1. /\ daemon'[p].response.kind = "none" /\ daemon'[p].freed = daemon[p].freed
            /\ daemon'[p].doomed = daemon[p].doomed
        BY <2>1 DEF Remembers, WastesNothing, Wastes, NoMessage
      <3> QED BY <1>1, <2>3, <2>4, <3>1, PlainOwn
    <2> QED BY <2>3, <2>5, PlainStep
  <1>9. CASE /\ chan[k][s] = << >>
             /\ Refused(p, k)
             /\ HandlerEnds(p, FALSE)
    <2>1. PICK fd \in Fds, m \in Messages, doomed \in BOOLEAN :
              fd = daemon[p].to /\ m = daemon[p].message /\ doomed = daemon[p].doomed
      BY <1>2
    <2>2. HandlerReturns(p, fd, m, doomed, FALSE)
      BY <1>9, <2>1 DEF HandlerEnds
    <2>3. ViewQuiet /\ OnlyOwn(p) /\ view'[k][s] # "open"
      <3>1. ViewQuiet /\ OnlyOwn(p) /\ view[k][s] # "open"
        BY <1>1, <1>3, <1>4, <1>9, RefusedEffect, OnlyOwnSame
      <3> QED BY <1>4, <3>1 DEF ViewQuiet
    <2>4. Sound(p)' => Sound(p)
      <3>1. daemon'[p].fds = daemon[p].fds /\ daemon'[p].upFd = daemon[p].upFd
        <4>1. CASE doomed = FALSE
          BY <1>1, <2>2, <4>1, ReturnEffect DEF Becomes
        <4>2. CASE doomed = TRUE
          BY <1>1, <2>2, <4>2, AbortEffect DEF Becomes
        <4> QED BY <4>1, <4>2
      <3> QED BY <1>1, <1>6, <3>1 DEF Sound
    <2>5. Lost(p)'
      BY <1>1, <1>2, <1>3, <1>5, <2>3, <2>4, RefusedLost
    <2>6. NoAnswer(p)
      <3>1. \A i \in DOMAIN chan[Own(p)].lower : chan[Own(p)].lower[i].kind = "answer" =>
                daemon[p].fds[daemon[p].upFd] = Own(p)
        BY <1>1, <1>6 DEF ExchangeOK, AnswerSent
      <3>2. k = Own(p) => \A i \in DOMAIN chan[Own(p)].lower : FALSE
        BY <1>4, <1>9
      <3> QED BY <1>3, <3>1, <3>2 DEF NoAnswer
    <2> QED BY <1>1, <1>5, <2>1, <2>2, <2>3, <2>5, <2>6, ReturnLoss
  <1> QED BY <1>3, <1>7, <1>8, <1>9 DEF ReadResponse

(* A handler that cannot write its answer and is not the receiver's has    *)
(* lost the next daemon: an answer comes only over a connection that is    *)
(* not reset.                                                              *)
LEMMA WriteFailsLost ==
    ASSUME CoreInv, LossInv, NEW p \in Daemons, daemon[p].pc = "answer", p # "receiver",
           ~daemon[p].doomed, NEW fd \in Fds, fd = daemon[p].to,
           NEW k, k = daemon[p].fds[fd], k = NoLink \/ view[k][Side(p, k)] = "reset"
    PROVE  Lost(p) /\ NoAnswer(p)
  <1>1. /\ TypeOK /\ ProcessOK(p) /\ ResponseOK(p) /\ FreedOK(p) /\ Running(p)
        /\ daemon[p].block[fd] # NoMessage
    BY DEF CoreInv, LossInv, Running, ProcessOK, HandlerOK
  <1>2. PICK r \in Messages \cup {NoMessage} : r = daemon[p].response
    BY <1>1, ProcessType
  <1>3. CASE r.kind = "answer"
    <2>1. Sound(p) /\ (p \in Relays => k # Own(p))
      BY <1>1, <1>2, <1>3 DEF ResponseOK
    <2>2. k # NoLink
      BY <1>1 DEF ProcessOK
    <2>3. k \in Links /\ Side(p, k) = "upper" /\ End(k, "upper") = p
      BY <1>1, <2>1, <2>2, SideOf
    <2>4. k \notin Clients /\ view[k].upper = "reset" /\ ResetOK(k)
      BY <2>2, <2>3, Ends DEF LossInv
    <2> QED BY <1>1, <2>1, <2>3, <2>4 DEF ResetOK
  <1>4. CASE r.kind = "request"
    <2>1. ~Sound(p)
      BY <1>1, <1>2, <1>4 DEF ResponseOK
    <2>2. p \in Relays
      BY <2>1 DEF Sound, Daemons
    <2> QED BY <1>1, <2>1, <2>2 DEF Lost, CoreInv, ExchangeOK, AnswerSent, NoAnswer
  <1>5. CASE r = NoMessage
    <2>1. Lost(p)
      BY <1>1, <1>2, <1>5 DEF FreedOK
    <2>2. p \in Relays
      BY <2>1 DEF Lost
    <2> QED BY <1>1, <2>1, <2>2 DEF CoreInv, ExchangeOK, AnswerSent, NoAnswer
  <1> QED BY <1>3, <1>4, <1>5 DEF Messages

(* The answer to the client, or what passes for one. *)
LEMMA WriteResponseLoss ==
    ASSUME CoreInv, LossInv, NEW p \in Daemons, WriteResponse(p)
    PROVE  LossInv'
  <1>1. TypeOK /\ ProcessOK(p) /\ Running(p) /\ daemon[p].pc = "answer"
    BY DEF CoreInv, Running, WriteResponse
  <1>2. UNCHANGED <<starts, kills, asked, got>> /\ kills \in 0 .. MaxKills
    BY <1>1 DEF WriteResponse, TypeOK
  <1>3. PICK fd \in Fds, m \in Messages, doomed \in BOOLEAN :
            fd = daemon[p].to /\ m = daemon[p].message /\ doomed = daemon[p].doomed
    BY <1>1, ProcessType DEF ProcessOK, HandlerOK
  <1>4. PICK k \in Links \cup {NoLink}, r \in Messages \cup {NoMessage} :
            k = daemon[p].fds[fd] /\ r = daemon[p].response
    BY <1>1, ProcessType
  <1>5. \A ok : HandlerEnds(p, ok) => HandlerReturns(p, fd, m, doomed, ok)
    BY <1>3 DEF HandlerEnds
  <1>6. k # NoLink => k \in Links /\ Side(p, k) \in Sides
    BY <1>1, <1>4, SideOf
  <1>7. ASSUME HandlerEnds(p, TRUE), ViewQuiet, OnlyOwn(p) PROVE LossInv'
    BY <1>1, <1>2, <1>3, <1>5, <1>7, ReturnLoss
  <1>8. ASSUME HandlerEnds(p, FALSE), ViewQuiet, OnlyOwn(p),
               p = "receiver" \/ k = NoLink \/ view[k][Side(p, k)] = "reset"
        PROVE  LossInv'
    <2>1. HandlerReturns(p, fd, m, doomed, FALSE)
      BY <1>5, <1>8
    <2>2. ASSUME ~doomed, p # "receiver" PROVE Lost(p)' /\ NoAnswer(p)
      <3>1. Lost(p) /\ NoAnswer(p)
        BY <1>1, <1>3, <1>4, <1>8, <2>2, WriteFailsLost
      <3>2. daemon'[p].fds = daemon[p].fds /\ daemon'[p].upFd = daemon[p].upFd
        <4>1. doomed = FALSE
          BY <2>2
        <4> QED BY <1>1, <2>1, <4>1, ReturnEffect DEF Becomes
      <3>3. p \in Relays /\ Own(p)' = Own(p) /\ Own(p) \in Links
        BY <1>1, <1>2, <3>1, OwnLink DEF Lost, Own
      <3>4. (Sound(p)' => Sound(p)) /\ (view'[Own(p)].lower = "open" => view[Own(p)].lower = "open")
        BY <1>1, <1>8, <3>2, <3>3 DEF Sound, ViewQuiet, Sides
      <3> QED BY <3>1, <3>3, <3>4 DEF Lost
    <2> QED BY <1>1, <1>2, <1>3, <1>8, <2>1, <2>2, ReturnLoss
  <1>9. CASE /\ UNCHANGED <<view, chan>>
             /\ \/ HandlerEnds(p, TRUE)
                \/ HandlerEnds(p, FALSE) /\ (p = "receiver" \/ k = NoLink)
    <2>1. ViewQuiet /\ OnlyOwn(p)
      BY <1>9, OnlyOwnSame DEF ViewQuiet
    <2> QED BY <1>7, <1>8, <1>9, <2>1
  <1>10. CASE r # NoMessage /\ k # NoLink /\ Written(p, k, r) /\ HandlerEnds(p, TRUE)
    <2>1. ViewQuiet /\ OnlyOwn(p)
      BY <1>1, <1>4, <1>10, OnlyOwnWritten
    <2> QED BY <1>7, <1>10, <2>1
  <1>11. CASE k # NoLink /\ Refused(p, k) /\ HandlerEnds(p, FALSE)
    <2>1. ViewQuiet /\ OnlyOwn(p) /\ view[k][Side(p, k)] = "reset"
      BY <1>1, <1>6, <1>11, RefusedEffect, OnlyOwnSame DEF Refused
    <2> QED BY <1>8, <1>11, <2>1
  <1>12. CASE Dies(p)
    BY <1>2, <1>12, DiesLoss
  <1> QED BY <1>3, <1>4, <1>9, <1>10, <1>11, <1>12 DEF WriteResponse, PassOn

(* A relay that has just been started has lost nothing yet. *)
LEMMA StartRelayLoss ==
    ASSUME CoreInv, LossInv, NEW p \in Relays, daemon[p].pc = "down", starts[p] < MaxStarts,
           NEW n, n = starts[p] + 1, NEW k, k = <<p, n>>, NEW fd \in Fds,
           starts' = [starts EXCEPT ![p] = n],
           Others(p), Fresh(p, k, fd), view' = [view EXCEPT ![k] = Connected], UNCHANGED chan
    PROVE  LossInv'
  <1>1. TypeOK /\ p \in Daemons
    BY UpFacts DEF CoreInv
  <1>2. /\ n \in 1 .. MaxStarts /\ starts'[p] = n
        /\ \A q \in Daemons : q # p => starts'[q] = starts[q]
    BY <1>1, BoundsAssumption DEF TypeOK
  <1>3. k \in Links /\ k[1] = p
    BY <1>2, RunLink
  <1>4. /\ view'[k].lower = "open" /\ view'[k].upper = "open"
        /\ \A j \in Links : j # k => view'[j] = view[j]
    BY <1>1, <1>3 DEF TypeOK, Connected, Sides
  <1>5. /\ Own(p)' = k
        /\ \A q \in Daemons : q # p => /\ daemon'[q] = daemon[q] /\ Own(q)' = Own(q)
                                       /\ (Running(q)' <=> Running(q)) /\ (Sound(q)' <=> Sound(q))
    BY <1>2 DEF Others, Own, Running, Sound
  <1>6. ASSUME NEW q \in Daemons PROVE FreedOK(q)'
    <2>1. FreedOK(q) /\ ProcessOK(q)
      BY DEF CoreInv, LossInv
    <2>2. CASE q = p
      BY <2>2 DEF FreedOK, Fresh
    <2>3. CASE q # p /\ Running(q) /\ Lost(q)
      <3>1. q \in Relays
        BY <2>3 DEF Lost
      <3>2. Own(q) \in Links /\ Own(q) # k
        BY <1>1, <1>3, <2>1, <2>3, <3>1, OwnLink
      <3>3. Lost(q)' /\ (NoAnswer(q) => NoAnswer(q)')
        BY <1>4, <1>5, <2>3, <3>2 DEF Lost, NoAnswer
      <3> QED BY <1>5, <2>1, <2>3, <3>3 DEF FreedOK
    <2>4. CASE q # p /\ ~(Running(q) /\ Lost(q))
      BY <1>5, <2>1, <2>4 DEF FreedOK, Running
    <2> QED BY <2>2, <2>3, <2>4
  <1>7. ASSUME NEW j \in Links PROVE ResetOK(j)'
    <2>1. ResetOK(j) /\ ViewOK(j) /\ End(j, "upper") \in Daemons
      BY Ends DEF CoreInv, LossInv
    <2>2. CASE j = k
      BY <1>4, <2>2 DEF ResetOK
    <2>3. CASE j # k
      <3>1. view'[j] = view[j] /\ chan'[j] = chan[j]
        BY <1>4, <2>3
      <3>2. ASSUME j \notin Clients, view[j].upper = "reset"
            PROVE  /\ ~(Running(j[1])' /\ j = Own(j[1])')
                   /\ Sound(End(j, "upper"))' =>
                         /\ chan[j].upper = << >>
                         /\ \A f \in Fds : daemon'[End(j, "upper")].fds[f] = j =>
                                              daemon'[End(j, "upper")].block[f] = NoMessage
        <4>1. j[1] \in Relays /\ j[1] \in Daemons
          BY <3>2, Ends, UpFacts
        <4>2. ~(Running(j[1])' /\ j = Own(j[1])')
          BY <1>5, <2>1, <2>3, <3>2, <4>1 DEF ResetOK
        <4>3. CASE End(j, "upper") = p
          <5>1. view[j].lower # "open"
            BY <2>1, <4>3 DEF ViewOK, Running
          <5>2. chan[j].upper = << >>
            BY <2>1, <5>1 DEF ResetOK
          <5> QED BY <4>2, <4>3, <5>2 DEF Fresh
        <4>4. CASE End(j, "upper") # p
          BY <1>5, <2>1, <3>2, <4>2, <4>4 DEF ResetOK
        <4> QED BY <4>3, <4>4
      <3> QED BY <2>1, <3>1, <3>2 DEF ResetOK
    <2> QED BY <2>2, <2>3
  <1> QED BY <1>6, <1>7 DEF LossInv

(* The login service connects to nobody. *)
LEMMA StartServiceLoss ==
    ASSUME CoreInv, LossInv, daemon["service"].pc = "down",
           daemon' = [daemon EXCEPT !["service"].pc = "loop"],
           starts' = [starts EXCEPT !["service"] = starts["service"] + 1],
           UNCHANGED <<view, chan>>
    PROVE  LossInv'
  <1> DEFINE p == "service"
  <1>1. TypeOK /\ p \in Daemons
    BY DEF CoreInv, Daemons
  <1>2. /\ \A q \in Daemons : /\ daemon'[q].fds = daemon[q].fds /\ daemon'[q].upFd = daemon[q].upFd
                              /\ daemon'[q].block = daemon[q].block
                              /\ daemon'[q].freed = daemon[q].freed
                              /\ daemon'[q].doomed = daemon[q].doomed
        /\ \A q \in Daemons : q # p => daemon'[q] = daemon[q] /\ starts'[q] = starts[q]
        /\ daemon'[p].pc = "loop" /\ ~Running(p)
    BY <1>1, ProcessType DEF TypeOK, Processes, Running
  <1>3. \A q \in Daemons : q # p => /\ Own(q)' = Own(q) /\ (Running(q)' <=> Running(q))
    BY <1>2 DEF Own, Running
  <1>4. \A q \in Daemons : /\ Sound(q)' <=> Sound(q)
                           /\ q # p => (Lost(q)' <=> Lost(q)) /\ (NoAnswer(q)' <=> NoAnswer(q))
    BY <1>2, <1>3 DEF Sound, Lost, NoAnswer
  <1>5. ASSUME NEW q \in Daemons PROVE FreedOK(q)'
    <2>1. FreedOK(q) /\ ProcessOK(q)
      BY DEF CoreInv, LossInv
    <2>2. CASE q = p
      <3>1. daemon[p].freed = {} /\ ~daemon[p].doomed
        BY <1>2, <2>1, <2>2 DEF FreedOK, ProcessOK, HandlerOK, Running
      <3> QED BY <1>1, <1>2, <2>2, <3>1 DEF FreedOK
    <2>3. CASE q # p
      BY <1>2, <1>3, <1>4, <2>1, <2>3 DEF FreedOK
    <2> QED BY <2>2, <2>3
  <1>6. ASSUME NEW k \in Links PROVE ResetOK(k)'
    <2>1. ResetOK(k) /\ End(k, "upper") \in Daemons
      BY Ends DEF LossInv
    <2>2. k \notin Clients => k[1] \in Daemons /\ k[1] # p
      BY Ends, UpFacts
    <2> QED BY <1>2, <1>3, <1>4, <2>1, <2>2 DEF ResetOK
  <1> QED BY <1>5, <1>6 DEF LossInv

(* Every start. *)
LEMMA StartLoss ==
    ASSUME CoreInv, LossInv, NEW p \in Daemons, Start(p)
    PROVE  LossInv'
  <1>1. /\ daemon[p].pc = "down" /\ starts[p] < MaxStarts
        /\ starts' = [starts EXCEPT ![p] = starts[p] + 1] /\ UNCHANGED <<kills, chan, asked, got>>
    BY DEF Start
  <1>2. CASE p = "service"
    <2>1. daemon' = [daemon EXCEPT !["service"].pc = "loop"] /\ UNCHANGED view
      BY <1>2 DEF Start, Relays
    <2> QED BY <1>1, <1>2, <2>1, StartServiceLoss
  <1>3. CASE p # "service"
    <2>1. TypeOK /\ p \in Relays
      BY <1>3 DEF CoreInv, Daemons
    <2>2. PICK n, k : n = starts[p] + 1 /\ k = <<p, n>>
      OBVIOUS
    <2>3. view' = [view EXCEPT ![k] = Connected]
      BY <1>3, <2>2 DEF Start
    <2>4. PICK fd \in Fds :
              daemon' = [daemon EXCEPT ![p] = [Off EXCEPT !.pc = "loop", !.upFd = fd, !.fds[fd] = k]]
      BY <1>3, <2>2 DEF Start, Lowest
    <2>5. k \in Links
      <3>1. n \in 1 .. MaxStarts
        BY <1>1, <2>1, <2>2, BoundsAssumption DEF TypeOK
      <3> QED BY <2>1, <2>2, <3>1, RunLink
    <2>6. Others(p) /\ Fresh(p, k, fd)
      BY <2>1, <2>4, <2>5, FreshEffect
    <2> QED BY <1>1, <2>1, <2>2, <2>3, <2>6, StartRelayLoss
  <1> QED BY <1>2, <1>3

(* The clients have no part in it. *)
LEMMA ClientLoss ==
    ASSUME CoreInv, LossInv, NEW c \in Clients, Connect(c) \/ Send(c) \/ Prints(c)
    PROVE  LossInv'
  <1>1. TypeOK /\ c \in Links /\ UNCHANGED <<daemon, starts>>
    BY DEF CoreInv, Links, Connect, Send, Prints
  <1>2. /\ \A k \in Links : k # c => view'[k] = view[k] /\ chan'[k] = chan[k]
        /\ view'[c].lower # "open" => view[c].lower # "open" /\ chan'[c].upper = chan[c].upper
    BY <1>1 DEF Connect, Send, Prints, TypeOK, Connected, Sides
  <1>3. ASSUME NEW q \in Daemons PROVE FreedOK(q)'
    <2>1. FreedOK(q) /\ ProcessOK(q) /\ Own(q)' = Own(q) /\ (Running(q)' <=> Running(q))
      BY <1>1 DEF CoreInv, LossInv, Own, Running
    <2>2. CASE Running(q) /\ Lost(q)
      <3>1. Own(q) \in Links /\ Own(q) # c
        BY <1>1, <2>1, <2>2, OwnLink DEF Lost
      <3>2. Lost(q)' /\ (NoAnswer(q) => NoAnswer(q)')
        BY <1>1, <1>2, <2>1, <2>2, <3>1 DEF Lost, Sound, NoAnswer
      <3> QED BY <1>1, <2>1, <3>2 DEF FreedOK
    <2>3. CASE ~(Running(q) /\ Lost(q))
      BY <1>1, <2>1, <2>3 DEF FreedOK, Running
    <2> QED BY <2>2, <2>3
  <1>4. ASSUME NEW k \in Links PROVE ResetOK(k)'
    <2>1. ResetOK(k)
      BY DEF LossInv
    <2>2. CASE k = c
      BY <1>2, <2>1, <2>2 DEF ResetOK
    <2>3. CASE k # c
      BY <1>1, <1>2, <2>1, <2>3 DEF ResetOK, Running, Own, Sound
    <2> QED BY <2>2, <2>3
  <1> QED BY <1>3, <1>4 DEF LossInv

(* Initially every daemon is down and nothing is connected. *)
LEMMA RelayInvInit == Init => RelayInv
  <1> SUFFICES ASSUME Init PROVE RelayInv
    OBVIOUS
  <1>1. /\ \A p \in Daemons : daemon[p] = Off /\ starts[p] = 0
        /\ \A k \in Links, s \in Sides : view[k][s] = "none" /\ chan[k][s] = << >>
        /\ \A c \in Clients : asked[c] = 0 /\ got[c] = 0
    BY DEF Init
  <1>2. TypeOK
    <2>1. << >> \in Seq(Messages)
      BY EmptySeq
    <2>2. daemon \in [Daemons -> Processes]
      BY OffType DEF Init
    <2>3. starts \in [Daemons -> 0 .. MaxStarts] /\ kills \in 0 .. MaxKills
      BY BoundsAssumption DEF Init
    <2>4. /\ view \in [Links -> [Sides -> {"none", "open", "fin", "reset", "broken"}]]
          /\ chan \in [Links -> [Sides -> Seq(Messages)]]
      BY <2>1 DEF Init
    <2> QED BY <2>2, <2>3, <2>4 DEF Init, TypeOK
  <1>3. \A p \in Daemons : ~Running(p)
    BY <1>1, OffType DEF Running
  <1>4. ASSUME NEW p \in Daemons PROVE ProcessOK(p) /\ ResponseOK(p) /\ FreedOK(p)
    <2>1. daemon[p] = Off /\ ~Running(p)
      BY <1>1, <1>3
    <2> QED BY <2>1, OffType DEF ProcessOK, HandlerOK, ResponseOK, FreedOK
  <1>5. ASSUME NEW k \in Links PROVE ViewOK(k) /\ TrafficOK(k) /\ ResetOK(k)
    <2>1. view[k]["lower"] = "none" /\ view[k]["upper"] = "none" /\ chan[k]["lower"] = << >> /\ chan[k]["upper"] = << >>
      BY <1>1 DEF Sides
    <2>2. \A f \in Fds : daemon[End(k, "upper")].fds[f] # k
      BY <1>1, Ends, OffType
    <2> QED BY <2>1, <2>2 DEF ViewOK, TrafficOK, ResetOK
  <1>6. ASSUME NEW p \in Relays PROVE ExchangeOK(p)
    BY <1>3, UpFacts DEF ExchangeOK
  <1>7. ASSUME NEW c \in Clients PROVE ClientOK(c)
    <2>1. c \in Links /\ "receiver" \in Daemons
      BY DEF Links, Daemons, Relays
    <2>2. /\ asked[c] = 0 /\ got[c] = 0 /\ chan[c]["lower"] = << >> /\ chan[c]["upper"] = << >>
          /\ \A f \in Fds : daemon["receiver"].block[f] = NoMessage
      BY <1>1, <2>1, OffType DEF Sides
    <2> QED BY <2>2 DEF ClientOK, AnswersOK, BlocksOK, SentOK
  <1> QED BY <1>2, <1>4, <1>5, <1>6, <1>7 DEF RelayInv, CoreInv, LossInv

(* Every step keeps the rest of the invariant. *)
LEMMA LossNext ==
    ASSUME CoreInv, LossInv, Next
    PROVE  LossInv'
  <1>1. ASSUME NEW p \in Daemons, Start(p) PROVE LossInv'
    BY <1>1, StartLoss
  <1>2. ASSUME NEW p \in Daemons, Kill(p) PROVE LossInv'
    <2>1. kills' \in 0 .. MaxKills
      BY <1>2, BoundsAssumption DEF Kill, CoreInv, TypeOK
    <2> QED BY <1>2, <2>1, DiesLoss DEF Kill
  <1>3. ASSUME NEW p \in Daemons, DealConnectRequest(p) PROVE LossInv'
    BY <1>3, AcceptLoss
  <1>4. ASSUME NEW p \in Daemons, NEW fd \in Fds, DealReadEvent(p, fd) \/ DealWriteEvent(p, fd)
        PROVE  LossInv'
    BY <1>4, ReadLoss, DealWriteLoss
  <1>5. ASSUME NEW p \in Daemons, UseAfterFree(p) \/ ReadResponse(p) \/ WriteResponse(p) PROVE LossInv'
    BY <1>5, UseAfterFreeLoss, ReadResponseLoss, WriteResponseLoss
  <1>6. ASSUME NEW p \in Daemons, Aborts(p) PROVE LossInv'
    BY <1>6, DiesLoss DEF Aborts, CoreInv, TypeOK
  <1>7. ASSUME NEW c \in Clients, Connect(c) \/ Send(c) \/ Prints(c) \/ Leave(c) PROVE LossInv'
    BY <1>7, ClientLoss, LeaveLoss
  <1> QED BY <1>1, <1>2, <1>3, <1>4, <1>5, <1>6, <1>7 DEF Next, Step

(* A step that changes nothing keeps it, too. *)
LEMMA RelayInvStutters ==
    ASSUME RelayInv, UNCHANGED vars
    PROVE  RelayInv'
  <1>1. UNCHANGED <<daemon, starts, kills, view, chan, asked, got>>
    BY DEF vars
  <1>2. TypeOK'
    BY <1>1 DEF RelayInv, CoreInv, TypeOK
  <1>3. ASSUME NEW p \in Daemons PROVE ProcessOK(p)' /\ ResponseOK(p)'
    BY <1>1, OthersOK DEF RelayInv, CoreInv
  <1>4. ASSUME NEW k \in Links PROVE ViewOK(k)' /\ TrafficOK(k)' /\ ResetOK(k)'
    BY <1>1 DEF RelayInv, CoreInv, LossInv, ViewOK, TrafficOK, ResetOK, Running, Own, Sound
  <1>5. ASSUME NEW p \in Relays PROVE ExchangeOK(p)'
    <2>1. ExchangeOK(p) /\ Own(p)' = Own(p) /\ Running(p)' = Running(p) /\ (InTouch(p)' => InTouch(p))
      BY <1>1 DEF RelayInv, CoreInv, InTouch, Sound, Running, Own
    <2>2. CASE Running(p)
      BY <1>1, <2>1, <2>2, ExchangeFrame
    <2>3. CASE ~Running(p)
      BY <2>1, <2>3 DEF ExchangeOK
    <2> QED BY <2>2, <2>3
  <1>6. ASSUME NEW c \in Clients PROVE ClientOK(c)'
    BY <1>1, ClientFrame DEF RelayInv, CoreInv, Trusted
  <1>7. ASSUME NEW p \in Daemons PROVE FreedOK(p)'
    BY <1>1 DEF RelayInv, LossInv, FreedOK, Lost, NoAnswer, Running, Own, Sound
  <1> QED BY <1>2, <1>3, <1>4, <1>5, <1>6, <1>7 DEF RelayInv, CoreInv, LossInv

(* Every step keeps the invariant. *)
LEMMA RelayInvNext == RelayInv /\ [Next]_vars => RelayInv'
  <1>1. RelayInv /\ Next => RelayInv'
    BY CoreNext, LossNext DEF RelayInv, LossInv
  <1>2. RelayInv /\ UNCHANGED vars => RelayInv'
    BY RelayInvStutters
  <1> QED BY <1>1, <1>2

(* Through any starts, deaths and restarts, any descriptors taken, lost    *)
(* and reused, any failing handlers and freed blocks and any requests, the *)
(* relays keep to the exchange described above.                            *)
THEOREM Invariance == Spec => []RelayInv
  BY RelayInvInit, RelayInvNext, PTL DEF Spec

(* The processes, the connections and what is on them have their types. *)
THEOREM TypeCorrect == Spec => []TypeOK
  <1>1. RelayInv => TypeOK
    BY DEF RelayInv, CoreInv
  <1> QED BY <1>1, Invariance, PTL

(* "Send the response to the client" (messageDispatcher.cpp:84,            *)
(* messageReceiver.cpp:69): an answer on a client's connection belongs to  *)
(* a request of that client, each request is answered at most once and in  *)
(* order, although no message names its request.  It holds until the       *)
(* receiver uses a freed block (daemon.cpp:245), whatever blocks the other *)
(* daemons use.                                                            *)
THEOREM AnswersOwnRequestsHolds == Spec => []AnswersOwnRequests
  <1>1. RelayInv => AnswersOwnRequests
    <2>1. SUFFICES ASSUME RelayInv, NEW c \in Clients, NEW i \in DOMAIN chan[c].lower,
                          chan[c].lower[i].kind = "answer", view[c].lower = "open",
                          ~daemon["receiver"].doomed
                   PROVE  /\ chan[c].lower[i].client = c
                          /\ got[c] < chan[c].lower[i].n /\ chan[c].lower[i].n <= asked[c]
                          /\ \A j \in 1 .. i - 1 : chan[c].lower[j].kind = "answer"
                                                     => chan[c].lower[j].n < chan[c].lower[i].n
      BY DEF AnswersOwnRequests
    <2> QED BY <2>1 DEF RelayInv, CoreInv, ClientOK, Trusted, AnswersOK
  <1> QED BY <1>1, Invariance, PTL
================================================================================
