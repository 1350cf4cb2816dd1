-------------------------- MODULE SingleTerminalProofs --------------------------
(***************************************************************************)
(* OldTerminalIsTold for any number of clients, users and descriptors, any *)
(* way of typing and all faults.  TerminalInv says where an untold         *)
(* terminal's session is: in the table, or in the answer being dealt with. *)
(***************************************************************************)
EXTENDS SingleTerminal, TLAPS

(* An open descriptor is the connection of one client, and a client has    *)
(* one descriptor.                                                         *)
OwnersDistinct ==
    \A f \in Fds : owner[f] # NoClient =>
        /\ conn[owner[f]] # "none"
        /\ \A g \in Fds : owner[g] = owner[f] => f = g

(* A command waiting for its write event keeps its descriptor open, and    *)
(* the answer being dealt with belongs to such a command.                  *)
RequestsOwned ==
    /\ \A f \in Fds : block[f] # NoCommand => owner[f] # NoClient
    /\ response # NoResponse => /\ response.to \in Fds
                                /\ owner[response.to] # NoClient
                                /\ response.msg # "none"

(* A terminal in use that was not told to leave runs, and the session is   *)
(* recorded on its descriptor, or its notice is about to be written.       *)
Recorded(c, u) == \E f \in Fds : /\ owner[f] = c
                                 /\ session[u] = f \/ response.logoutFd = f
UntoldIsRecorded ==
    \A c \in Clients : \A u \in inAs[c] : conn[c] = "open" /\ Recorded(c, u)

(* The inductive invariant of OldTerminalIsTold (dealServiceResponse(),    *)
(* messageReceiver.cpp:128, and processLogin(), loginer.cpp:70).           *)
TerminalInv == TypeOK /\ OwnersDistinct /\ RequestsOwned /\ UntoldIsRecorded

(* With an old terminal to notify, the user's session is on the descriptor *)
(* that logs in, still on the old one, or ended.                           *)
AnswerNamesOld ==
    response.logoutFd \in Fds =>
        /\ block[response.to] # NoCommand
        /\ session[block[response.to].user] \in {response.to, response.logoutFd, -1}

(* The inductive invariant of NoticeNotDiverted. *)
DivertInv == /\ TerminalInv
             /\ \A c \in Clients : inAs[c] \subseteq ever[c]
             /\ AnswerNamesOld

--------------------------------------------------------------------------------
(* The initial state satisfies the invariant: nobody is connected.         *)
LEMMA InitInv == Init => TerminalInv
<1> SUFFICES ASSUME Init PROVE TerminalInv
  OBVIOUS
<1>1. TypeOK
  BY BoundsAssumption DEF Init, TypeOK, NoCommand, NoResponse, Commands
<1>2. OwnersDistinct /\ RequestsOwned
  BY DEF Init, OwnersDistinct, RequestsOwned
<1>3. UntoldIsRecorded
  BY DEF Init, UntoldIsRecorded
<1> QED
  BY <1>1, <1>2, <1>3 DEF TerminalInv

(* A socket's unread messages: one more is written, or all are read.       *)
LEMMA Queue ==
    ASSUME NEW S, NEW f \in [Clients -> Seq(S)], NEW c \in Clients
    PROVE  /\ \A x \in S : [f EXCEPT ![c] = Append(@, x)] \in [Clients -> Seq(S)]
           /\ [f EXCEPT ![c] = << >>] \in [Clients -> Seq(S)]
<1>1. f[c] \in Seq(S)
  OBVIOUS
<1>2. \A x \in S : Append(f[c], x) \in Seq(S)
  BY <1>1
<1>3. << >> \in Seq(S)
  OBVIOUS
<1> HIDE <1>1
<1> QED
  BY <1>2, <1>3

(* What write() to an open descriptor does to the connections.             *)
LEMMA WrittenType ==
    ASSUME TypeOK, NEW f \in Fds, owner[f] \in Clients,
           NEW x \in {"logout", "success", "error"}, Written(f, x)
    PROVE  /\ down' \in [Clients -> Seq({"logout", "success", "error"})]
           /\ conn' \in [Clients -> {"none", "open", "fin", "reset", "broken", "lost"}]
<1> DEFINE Texts == {"logout", "success", "error"}
           Conns == {"none", "open", "fin", "reset", "broken", "lost"}
<1>1. down \in [Clients -> Seq(Texts)] /\ conn \in [Clients -> Conns]
  BY DEF TypeOK
<1>2. \/ down' = [down EXCEPT ![owner[f]] = Append(@, x)] /\ conn' = conn
      \/ conn' = [conn EXCEPT ![owner[f]] = "broken"] /\ down' = down
  BY DEF Written
<1>3. [down EXCEPT ![owner[f]] = Append(@, x)] \in [Clients -> Seq(Texts)]
  BY <1>1, Queue
<1>4. [conn EXCEPT ![owner[f]] = "broken"] \in [Clients -> Conns]
  BY <1>1
<1> QED
  BY <1>1, <1>2, <1>3, <1>4

(* Every action leaves the types intact.                                   *)
LEMMA TypeStep ==
    ASSUME TypeOK, RequestsOwned, [Next]_vars PROVE TypeOK'
<1> USE FdsAssumption, BoundsAssumption
<1>1. CASE UNCHANGED vars
  BY <1>1 DEF TypeOK, vars
<1>2. ASSUME NEW c \in Clients, NEW fd \in Fds, Connect(c, fd) PROVE TypeOK'
  BY <1>2 DEF TypeOK, Connect, client, receiver, history
<1>3. ASSUME NEW fd \in Fds, DealReadEvent(fd) PROVE TypeOK'
  <2>1. owner[fd] \in Clients
    BY <1>3 DEF TypeOK, DealReadEvent
  <2>2. CASE ReadCommand(fd)
    BY <1>3, <2>1, <2>2 DEF TypeOK, DealReadEvent, ReadCommand, client, history
  <2>3. CASE ReadEnd(fd)
    BY <1>3, <2>1, <2>3 DEF TypeOK, DealReadEvent, ReadEnd, client, history
  <2> QED
    BY <1>3, <2>2, <2>3 DEF DealReadEvent
<1>4. ASSUME NEW fd \in Fds, DealClientMessage(fd) PROVE TypeOK'
  <2> DEFINE r == GetServiceMessage(GetNeedSendMessage(block[fd], fd))
  <2>1. PICK logoutFd \in Fds \cup {-1}, msg \in {"success", "error"} :
            /\ Answered(r, logoutFd, msg)
            /\ response' = [to |-> fd, logoutFd |-> logoutFd, msg |-> msg]
    BY <1>4 DEF DealClientMessage
  <2>2. r.user \in Users /\ r.clientFd = fd
    BY <1>4 DEF DealClientMessage, TypeOK, Commands, GetServiceMessage, GetNeedSendMessage
  <2>3. /\ session' \in [Users -> Fds \cup {-1}]
        /\ inAs' \in [Clients -> SUBSET Users]
        /\ cut' \in [Clients -> SUBSET Users]
        /\ ever' \in [Clients -> SUBSET Users]
    <3> HIDE DEF r
    <3>1. CASE Stays
      BY <3>1 DEF Stays, history, TypeOK
    <3>2. CASE Closes(r.user)
      BY <2>2, <3>2 DEF Closes, history, TypeOK
    <3>3. CASE Enters(r.clientFd, r.user)
      BY <2>2, <3>3 DEF Enters, TypeOK
    <3>4. CASE ProcessLogout(r, msg)
      <4>1. CASE Stays
        BY <4>1, <3>1
      <4>2. CASE ~Stays
        <5>1. session' = [session EXCEPT ![r.user] = -1] /\ ever' = ever
          BY <3>4, <4>2 DEF ProcessLogout
        <5>2. inAs' = [d \in Clients |-> inAs[d] \ {r.user}]
          BY <3>4, <4>2 DEF ProcessLogout
        <5>3. cut' = [d \in Clients |-> IF d = owner[r.clientFd] THEN cut[d] \ {r.user}
                                       ELSE cut[d] \cup (inAs[d] \cap {r.user})]
          BY <3>4, <4>2 DEF ProcessLogout
        <5>4. inAs' \in [Clients -> SUBSET Users]
          BY <5>2 DEF TypeOK
        <5>5. cut' \in [Clients -> SUBSET Users]
          BY <5>3 DEF TypeOK
        <5> QED
          BY <2>2, <5>1, <5>4, <5>5 DEF TypeOK
      <4> QED
        BY <4>1, <4>2
    <3> QED
      BY <2>1, <3>1, <3>2, <3>3, <3>4 DEF Answered, ProcessLogin
  <2> HIDE DEF r
  <2> QED
    BY <1>4, <2>1, <2>3 DEF DealClientMessage, TypeOK, client
<1>5. ASSUME NEW fd \in Fds, ServiceAborts(fd) \/ UseKills(fd) PROVE TypeOK'
  BY <1>5 DEF TypeOK, ServiceAborts, UseKills, client, history
<1>6. ASSUME NEW c \in Clients, NEW m \in Commands, NEW next \in {"read", "exit"},
             Write(c, m, next)
      PROVE  TypeOK'
  <2>1. up' \in [Clients -> Seq(Commands)]
    BY <1>6 DEF Write, TypeOK
  <2> m.messageType \in {"REGIST", "LOGIN", "LOGOUT"} /\ m.user \in Users
    BY DEF Commands
  <2>2. waiting' \in [Clients -> {"nothing", "REGIST", "LOGIN", "LOGOUT"}]
    BY <1>6 DEF Write, TypeOK
  <2>5. mine' \in [Clients -> Users \cup {NoUser}]
    <3> DEFINE new == CASE m.messageType = "LOGIN"  -> m.user
                        [] m.messageType = "LOGOUT" -> NoUser
                        [] OTHER -> mine[c]
    <3>1. mine' = mine \/ mine' = [mine EXCEPT ![c] = new]
      BY <1>6 DEF Write
    <3>2. new \in Users \cup {NoUser}
      BY DEF TypeOK
    <3> HIDE DEF new
    <3> QED
      BY <3>1, <3>2 DEF TypeOK
  <2>3. typed' \in 0 .. MaxCommands
    BY <1>6 DEF Write, TypeOK
  <2>4. thread' \in [Clients -> {"fgets", "read", "exit"}]
    BY <1>6 DEF Write, TypeOK
  <2> QED
    BY <1>6, <2>1, <2>2, <2>3, <2>4, <2>5 DEF Write, TypeOK, receiver, history
<1>7. ASSUME NEW c \in Clients, CommandRead(c) \/ RecvPrints(c) PROVE TypeOK'
  <2>1. /\ Printed(c)
        /\ thread' = thread \/ thread' = [thread EXCEPT ![c] = "fgets"]
        /\ UNCHANGED <<conn, typed, up, owner, receiver, session, history>>
    BY <1>7 DEF CommandRead, RecvPrints
  <2>2. down' \in [Clients -> Seq({"logout", "success", "error"})]
    BY <2>1, Queue DEF TypeOK, Printed
  <2>3. /\ waiting' \in [Clients -> {"nothing", "REGIST", "LOGIN", "LOGOUT"}]
        /\ mine' \in [Clients -> Users \cup {NoUser}]
    BY <2>1 DEF TypeOK, Printed
  <2>4. thread' \in [Clients -> {"fgets", "read", "exit"}]
    BY <2>1 DEF TypeOK
  <2> QED
    BY <2>1, <2>2, <2>3, <2>4 DEF TypeOK, receiver, history
<1>8. ASSUME NEW c \in Clients, Gone(c) PROVE TypeOK'
  BY <1>8 DEF TypeOK, Gone, OutOf, client, receiver
<1>9. ASSUME NEW c \in Clients, RecvExits(c) PROVE TypeOK'
  BY <1>9 DEF TypeOK, RecvExits, OutOf, client, receiver
<1>10. ASSUME NoticeLogout PROVE TypeOK'
  <2> DEFINE fd == response.logoutFd
  <2>1. fd \in Fds /\ response.to \in Fds /\ response \in [to : Fds \cup {-1},
                         logoutFd : Fds \cup {-1}, msg : {"success", "error", "none"}]
    BY <1>10 DEF NoticeLogout, TypeOK, RequestsOwned, NoResponse
  <2>2. CASE Peer(fd) \in {"open", "fin"} /\ Written(fd, "logout") /\ OutOf(owner[fd])
             /\ response' = [response EXCEPT !.logoutFd = -1]
             /\ UNCHANGED <<block, freed, serving>>
    <3>1. owner[fd] \in Clients
      BY <2>1, <2>2 DEF Peer, TypeOK
    <3>2. response' \in [to : Fds \cup {-1}, logoutFd : Fds \cup {-1},
                         msg : {"success", "error", "none"}]
      BY <2>1, <2>2
    <3>3. /\ down' \in [Clients -> Seq({"logout", "success", "error"})]
          /\ conn' \in [Clients -> {"none", "open", "fin", "reset", "broken", "lost"}]
      BY <2>1, <2>2, <3>1, WrittenType
    <3> QED
      BY <1>10, <2>2, <3>1, <3>2, <3>3 DEF NoticeLogout, OutOf, TypeOK, client
  <2>3. CASE Failed(fd) /\ HandlerReturns(response.to, FALSE) /\ UNCHANGED history
    BY <1>10, <2>1, <2>3 DEF NoticeLogout, Failed, HandlerReturns, NoResponse, TypeOK,
                             client, history
  <2>4. CASE SigPipe(fd)
    BY <1>10, <2>4 DEF NoticeLogout, SigPipe, TypeOK, client, history
  <2> QED
    BY <1>10, <2>2, <2>3, <2>4 DEF NoticeLogout
<1>11. ASSUME NoticeMessage PROVE TypeOK'
  <2> DEFINE fd == response.to
  <2>1. fd \in Fds /\ owner[fd] \in Clients
    BY <1>11 DEF NoticeMessage, RequestsOwned, TypeOK
  <2>2. CASE Written(fd, response.msg) /\ HandlerReturns(fd, TRUE) /\ UNCHANGED history
    <3>1. response.msg \in {"success", "error"}
      BY <1>11 DEF NoticeMessage, TypeOK, RequestsOwned, NoResponse
    <3>2. /\ down' \in [Clients -> Seq({"logout", "success", "error"})]
          /\ conn' \in [Clients -> {"none", "open", "fin", "reset", "broken", "lost"}]
      BY <2>1, <2>2, <3>1, WrittenType
    <3> QED
      BY <1>11, <2>1, <2>2, <3>2 DEF NoticeMessage, HandlerReturns, NoResponse, NoCommand,
                                     TypeOK, client, history
  <2>3. CASE Failed(fd) /\ HandlerReturns(fd, FALSE) /\ UNCHANGED history
    BY <1>11, <2>1, <2>3 DEF NoticeMessage, Failed, HandlerReturns, NoResponse, TypeOK,
                             client, history
  <2>4. CASE SigPipe(fd)
    BY <1>11, <2>4 DEF NoticeMessage, SigPipe, TypeOK, client, history
  <2> QED
    BY <1>11, <2>2, <2>3, <2>4 DEF NoticeMessage
<1>12. ASSUME NEW c \in Clients, Client(c) PROVE TypeOK'
  <2>1. ASSUME NEW u \in Users, Exit(c, u) PROVE TypeOK'
    <3>1. [messageType |-> "LOGOUT", user |-> u] \in Commands
      BY DEF Commands
    <3> QED
      BY <1>6, <2>1, <3>1 DEF Exit
  <2>2. ASSUME NEW m \in Commands, Command(c, m) PROVE TypeOK'
    BY <1>6, <2>2 DEF Command
  <2> QED
    BY <1>7, <1>8, <1>9, <1>12, <2>1, <2>2 DEF Client, Leave, Die
<1>13. ASSUME Restart PROVE TypeOK'
  <2>1. /\ up' \in [Clients -> Seq(Commands)]
        /\ down' \in [Clients -> Seq({"logout", "success", "error"})]
    BY <1>13 DEF Restart
  <2>2. conn' \in [Clients -> {"none", "open", "fin", "reset", "broken", "lost"}]
    BY <1>13 DEF Restart
  <2>3. /\ owner' \in [Fds -> Clients \cup {NoClient}]
        /\ block' \in [Fds -> Commands \cup {NoCommand}]
        /\ freed' \subseteq Fds /\ serving' \in BOOLEAN
        /\ response' \in [to : Fds \cup {-1}, logoutFd : Fds \cup {-1},
                          msg : {"success", "error", "none"}]
    BY <1>13 DEF Restart, NoResponse
  <2>4. inAs' \in [Clients -> SUBSET Users] /\ cut' \in [Clients -> SUBSET Users]
    BY <1>13 DEF Restart
  <2> QED
    BY <1>13, <2>1, <2>2, <2>3, <2>4 DEF Restart, TypeOK, client
<1> QED
  BY <1>1, <1>2, <1>3, <1>4, <1>5, <1>10, <1>11, <1>12, <1>13 DEF Next, Receiver

(* Descriptors are given out only when free, to clients that had none, and *)
(* taken back only at the end of the connection.                           *)
LEMMA OwnersStep ==
    ASSUME TerminalInv, TypeOK', [Next]_vars
    PROVE  OwnersDistinct' /\ RequestsOwned'
<1> USE FdsAssumption, ClientsAssumption DEF TerminalInv
<1>1. ASSUME NEW c \in Clients, NEW fd \in Fds, Connect(c, fd)
      PROVE  OwnersDistinct' /\ RequestsOwned'
  BY <1>1 DEF OwnersDistinct, RequestsOwned, TypeOK, Connect, receiver
<1>2. ASSUME NEW fd \in Fds, DealReadEvent(fd)
      PROVE  OwnersDistinct' /\ RequestsOwned'
  <2>1. CASE ReadCommand(fd)
    BY <1>2, <2>1 DEF OwnersDistinct, RequestsOwned, TypeOK, DealReadEvent, ReadCommand
  <2>2. CASE ReadEnd(fd)
    BY <1>2, <2>2 DEF OwnersDistinct, RequestsOwned, TypeOK, DealReadEvent, ReadEnd, Waits
  <2> QED
    BY <1>2, <2>1, <2>2 DEF DealReadEvent
<1>3. ASSUME NEW fd \in Fds, DealClientMessage(fd)
      PROVE  OwnersDistinct' /\ RequestsOwned'
  <2>1. PICK logoutFd \in Fds \cup {-1}, msg \in {"success", "error"} :
            response' = [to |-> fd, logoutFd |-> logoutFd, msg |-> msg]
    BY <1>3 DEF DealClientMessage
  <2> QED
    BY <1>3, <2>1 DEF OwnersDistinct, RequestsOwned, DealClientMessage
<1>4. ASSUME UNCHANGED <<owner, block, response>>,
             \A c \in Clients : conn[c] # "none" => conn'[c] # "none"
      PROVE  OwnersDistinct' /\ RequestsOwned'
  BY <1>4 DEF OwnersDistinct, RequestsOwned, TypeOK
<1>5. ASSUME NEW fd \in Fds, ServiceAborts(fd) \/ UseKills(fd)
      PROVE  OwnersDistinct' /\ RequestsOwned'
  BY <1>4, <1>5 DEF ServiceAborts, UseKills
<1>6. ASSUME NEW c \in Clients, Client(c)
      PROVE  OwnersDistinct' /\ RequestsOwned'
  <2>1. UNCHANGED <<owner, block, response>>
    BY <1>6 DEF Client, Command, Exit, Write, CommandRead, Leave, Die, Gone, RecvPrints,
                RecvExits, receiver
  <2>2. \/ conn' = conn
        \/ \E x \in {"fin", "reset"} : conn' = [conn EXCEPT ![c] = x]
    BY <1>6 DEF Client, Command, Exit, Write, CommandRead, Leave, Die, Gone, RecvPrints,
                RecvExits
  <2> QED
    BY <1>4, <2>1, <2>2 DEF TypeOK
<1>7. ASSUME NoticeLogout \/ NoticeMessage
      PROVE  OwnersDistinct' /\ RequestsOwned'
  <2>1. owner' = owner
    BY <1>7 DEF NoticeLogout, NoticeMessage
  <2>2. \A f \in Fds : block'[f] # NoCommand => block[f] # NoCommand
    BY <1>7 DEF NoticeLogout, NoticeMessage, HandlerReturns, SigPipe, TypeOK
  <2>3. \/ response' \in {NoResponse, response}
        \/ response # NoResponse /\ response' = [response EXCEPT !.logoutFd = -1]
    BY <1>7 DEF NoticeLogout, NoticeMessage, HandlerReturns, SigPipe, NoResponse
  <2>4. \A c \in Clients : conn[c] # "none" => conn'[c] # "none"
    <3>1. \/ conn' = conn
          \/ \E f \in {response.to, response.logoutFd} : Failed(f) \/ conn' = [conn EXCEPT ![owner[f]] = "broken"]
      BY <1>7 DEF NoticeLogout, NoticeMessage, Written, SigPipe
    <3>2. ASSUME NEW f, Failed(f) PROVE \A c \in Clients : conn'[c] \in {conn[c], "broken"}
      BY <3>2 DEF Failed
    <3>3. ASSUME NEW f, conn' = [conn EXCEPT ![owner[f]] = "broken"]
          PROVE  \A c \in Clients : conn'[c] \in {conn[c], "broken"}
      BY <3>3 DEF TypeOK
    <3> QED
      BY <3>1, <3>2, <3>3
  <2>5. OwnersDistinct'
    BY <2>1, <2>4 DEF OwnersDistinct, TypeOK
  <2>6. RequestsOwned'
    BY <2>1, <2>2, <2>3 DEF RequestsOwned, TypeOK
  <2> QED
    BY <2>5, <2>6
<1>8. CASE UNCHANGED vars
  BY <1>4, <1>8 DEF vars
<1>9. CASE Restart
  BY <1>9 DEF Restart, OwnersDistinct, RequestsOwned
<1> QED
  BY <1>1, <1>2, <1>3, <1>5, <1>6, <1>7, <1>8, <1>9 DEF Next, Receiver

(* A terminal that was not told keeps its record through every action: the *)
(* login that takes its session over puts its descriptor into the answer,  *)
(* and the answer is not done with before the notice is written.           *)
LEMMA UntoldStep ==
    ASSUME TerminalInv, TypeOK', [Next]_vars
    PROVE  UntoldIsRecorded'
<1> USE FdsAssumption, ClientsAssumption DEF TerminalInv
<1> SUFFICES ASSUME NEW c \in Clients, NEW u \in Users, u \in inAs'[c]
             PROVE  conn'[c] = "open" /\ Recorded(c, u)'
  BY DEF UntoldIsRecorded, TypeOK
<1>a. ASSUME u \in inAs[c] PROVE conn[c] = "open" /\ Recorded(c, u)
  BY <1>a DEF UntoldIsRecorded
<1>1. ASSUME u \in inAs[c], conn'[c] = conn[c], session' = session, response' = response,
             \A f \in Fds : owner[f] = c => owner'[f] = c
      PROVE  conn'[c] = "open" /\ Recorded(c, u)'
  BY <1>a, <1>1 DEF Recorded
<1>2. ASSUME NEW d \in Clients, NEW fd \in Fds, Connect(d, fd)
      PROVE  conn'[c] = "open" /\ Recorded(c, u)'
  BY <1>a, <1>1, <1>2 DEF Connect, TypeOK, receiver, history
<1>3. ASSUME NEW fd \in Fds, DealReadEvent(fd)
      PROVE  conn'[c] = "open" /\ Recorded(c, u)'
  <2>1. u \in inAs[c] /\ session' = session /\ response' = response
    BY <1>3 DEF DealReadEvent, history
  <2>2. CASE ReadCommand(fd)
    BY <1>1, <2>1, <2>2 DEF ReadCommand
  <2>3. CASE ReadEnd(fd)
    BY <1>a, <1>1, <2>1, <2>3 DEF ReadEnd, TypeOK
  <2> QED
    BY <1>3, <2>2, <2>3 DEF DealReadEvent
<1>4. ASSUME NEW fd \in Fds, DealClientMessage(fd)
      PROVE  conn'[c] = "open" /\ Recorded(c, u)'
  <2> DEFINE r == GetServiceMessage(GetNeedSendMessage(block[fd], fd))
  <2>1. PICK logoutFd \in Fds \cup {-1}, msg \in {"success", "error"} :
            /\ Answered(r, logoutFd, msg)
            /\ response' = [to |-> fd, logoutFd |-> logoutFd, msg |-> msg]
    BY <1>4 DEF DealClientMessage
  <2>2. r.user \in Users /\ r.clientFd = fd /\ owner[fd] \in Clients
    BY <1>4 DEF DealClientMessage, TypeOK, Commands, GetServiceMessage, GetNeedSendMessage,
                RequestsOwned
  <2>3. conn' = conn /\ owner' = owner /\ response.logoutFd = -1
    BY <1>4 DEF DealClientMessage, Waits, NoResponse
  <2> HIDE DEF r
  <2>4. ASSUME u \in inAs[c]
        PROVE  conn[c] = "open" /\ \E f \in Fds : owner[f] = c /\ session[u] = f
    BY <1>a, <2>3, <2>4 DEF Recorded
  <2>5. CASE Stays
    BY <2>3, <2>4, <2>5 DEF Stays, history, Recorded
  <2>6. CASE Enters(fd, r.user) /\ logoutFd = session[r.user]
    <3>1. CASE c = owner[fd] /\ u = r.user
      <4>1. conn[c] = "open"
        BY <2>4, <2>6, <3>1 DEF Enters
      <4> QED
        BY <2>2, <2>3, <2>6, <3>1, <4>1 DEF Enters, Recorded, TypeOK
    <3>2. CASE ~(c = owner[fd] /\ u = r.user)
      <4>1. u \in inAs[c]
        BY <2>2, <2>6, <3>2 DEF Enters, TypeOK
      <4>2. PICK f \in Fds : owner[f] = c /\ session[u] = f
        BY <2>4, <4>1
      <4>3. CASE u = r.user
        BY <2>1, <2>3, <2>4, <2>6, <4>1, <4>2, <4>3 DEF Recorded
      <4>4. CASE u # r.user
        <5>1. session'[u] = session[u]
          BY <2>6, <4>4 DEF Enters, TypeOK
        <5> QED
          BY <2>3, <2>4, <4>1, <4>2, <5>1 DEF Recorded
      <4> QED
        BY <4>3, <4>4
    <3> QED
      BY <3>1, <3>2
  <2>7. CASE Closes(r.user) /\ logoutFd = session[r.user]
    <3>1. u \in inAs[c]
      BY <2>7 DEF Closes, history
    <3>2. PICK f \in Fds : owner[f] = c /\ session[u] = f
      BY <2>4, <3>1
    <3>3. session'[u] = session[u] \/ u = r.user
      BY <2>7 DEF Closes, TypeOK
    <3> QED
      BY <2>1, <2>3, <2>4, <2>7, <3>1, <3>2, <3>3 DEF Recorded
  <2>8. CASE ProcessLogout(r, msg)
    <3>1. CASE ~Stays
      <4>1. /\ session' = [session EXCEPT ![r.user] = -1]
            /\ inAs' = [d \in Clients |-> inAs[d] \ {r.user}]
        BY <2>8, <3>1 DEF ProcessLogout
      <4>2. u \in inAs[c] /\ u # r.user
        BY <4>1
      <4>3. session'[u] = session[u]
        BY <4>1, <4>2 DEF TypeOK
      <4> QED
        BY <2>3, <2>4, <4>2, <4>3 DEF Recorded
    <3> QED
      BY <2>5, <3>1
  <2> QED
    BY <2>1, <2>2, <2>5, <2>6, <2>7, <2>8 DEF Answered, ProcessLogin
<1>5. ASSUME NEW fd \in Fds, ServiceAborts(fd) \/ UseKills(fd)
      PROVE  conn'[c] = "open" /\ Recorded(c, u)'
  BY <1>1, <1>5 DEF ServiceAborts, UseKills, history
<1>6. ASSUME NEW d \in Clients, Client(d)
      PROVE  conn'[c] = "open" /\ Recorded(c, u)'
  <2>1. session' = session /\ response' = response /\ owner' = owner
    BY <1>6 DEF Client, Command, Exit, Write, CommandRead, Leave, Die, Gone, RecvPrints,
                RecvExits, receiver
  <2>2. \/ conn' = conn /\ inAs' = inAs
        \/ (\E x \in {"fin", "reset"} : conn' = [conn EXCEPT ![d] = x]) /\ OutOf(d)
    BY <1>6 DEF Client, Command, Exit, Write, CommandRead, Leave, Die, Gone, RecvPrints,
                RecvExits, history
  <2>3. u \in inAs[c] /\ conn'[c] = conn[c]
    BY <2>2 DEF OutOf, TypeOK
  <2> QED
    BY <1>1, <2>1, <2>3
<1>7. ASSUME NoticeLogout PROVE conn'[c] = "open" /\ Recorded(c, u)'
  <2> DEFINE fd == response.logoutFd
  <2>1. fd \in Fds /\ owner' = owner /\ session' = session
    BY <1>7 DEF NoticeLogout, TypeOK
  <2>2. CASE Peer(fd) \in {"open", "fin"} /\ Written(fd, "logout") /\ OutOf(owner[fd])
             /\ response' = [response EXCEPT !.logoutFd = -1]
    <3>1. owner[fd] \in Clients
      BY <2>1, <2>2 DEF Peer, TypeOK
    <3>2. u \in inAs[c] /\ c # owner[fd]
      BY <2>2, <3>1 DEF OutOf, TypeOK
    <3>3. conn'[c] = conn[c]
      BY <2>2, <3>1, <3>2 DEF Written, TypeOK
    <3>4. PICK f \in Fds : owner[f] = c /\ session[u] = f
      BY <1>a, <3>2 DEF Recorded
    <3> QED
      BY <1>a, <2>1, <3>2, <3>3, <3>4 DEF Recorded
  <2>3. CASE Peer(fd) \in {"closed", "reset"} /\ Failed(fd) /\ UNCHANGED history
    <3>1. u \in inAs[c]
      BY <2>3 DEF history
    <3>2. c # owner[fd]
      BY <1>a, <2>1, <2>3, <3>1 DEF Peer
    <3>3. conn'[c] = conn[c]
      BY <2>3, <3>2 DEF Failed
    <3>4. PICK f \in Fds : owner[f] = c /\ session[u] = f
      BY <1>a, <3>1, <3>2 DEF Recorded
    <3> QED
      BY <1>a, <2>1, <3>1, <3>3, <3>4 DEF Recorded
  <2>4. CASE SigPipe(fd)
    BY <1>1, <2>1, <2>4 DEF SigPipe, history
  <2> QED
    BY <1>7, <2>2, <2>3, <2>4 DEF NoticeLogout
<1>8. ASSUME NoticeMessage PROVE conn'[c] = "open" /\ Recorded(c, u)'
  <2> DEFINE fd == response.to
  <2>1. /\ fd \in Fds /\ owner[fd] \in Clients /\ owner' = owner /\ session' = session
        /\ u \in inAs[c] /\ response.logoutFd \notin Fds
    <3>1. fd \in Fds /\ owner[fd] \in Clients
      BY <1>8 DEF NoticeMessage, RequestsOwned, TypeOK
    <3>2. owner' = owner /\ session' = session /\ inAs' = inAs
      BY <1>8 DEF NoticeMessage, SigPipe, history
    <3>3. response.logoutFd <= 0
      BY <1>8 DEF NoticeMessage
    <3>4. response.logoutFd \notin Fds
      <4>1. SUFFICES ASSUME response.logoutFd \in Nat \ {0} PROVE FALSE
        OBVIOUS
      <4> QED
        BY ONLY <3>3, <4>1
    <3> QED
      BY <3>1, <3>2, <3>4
  <2>2. PICK f \in Fds : owner[f] = c /\ session[u] = f
    BY <1>a, <2>1 DEF Recorded
  <2>3. conn'[c] = conn[c]
    <3>1. CASE Peer(fd) \in {"open", "fin"} /\ Written(fd, response.msg)
      BY <1>a, <2>1, <3>1 DEF Written, TypeOK
    <3>2. CASE Peer(fd) \in {"closed", "reset"} /\ Failed(fd)
      BY <1>a, <2>1, <3>2 DEF Peer, Failed
    <3>3. CASE SigPipe(fd)
      BY <3>3 DEF SigPipe
    <3> QED
      BY <1>8, <3>1, <3>2, <3>3 DEF NoticeMessage
  <2> QED
    BY <1>a, <2>1, <2>2, <2>3 DEF Recorded
<1>9. CASE UNCHANGED vars
  BY <1>1, <1>9 DEF vars
<1>10. CASE Restart
  BY <1>10 DEF Restart
<1> QED
  BY <1>2, <1>3, <1>4, <1>5, <1>6, <1>7, <1>8, <1>9, <1>10 DEF Next, Receiver

(* Every action preserves the invariant.                                   *)
LEMMA StepInv == TerminalInv /\ [Next]_vars => TerminalInv'
<1> SUFFICES ASSUME TerminalInv, [Next]_vars PROVE TerminalInv'
  OBVIOUS
<1>1. TypeOK'
  BY TypeStep DEF TerminalInv
<1> QED
  BY <1>1, OwnersStep, UntoldStep DEF TerminalInv

(* The invariant implies the property: two untold terminals of a user have *)
(* the descriptor of the one row with FuiStatus 1, so they are one.        *)
LEMMA InvImpliesTold == TerminalInv => OldTerminalIsTold
<1> SUFFICES ASSUME TerminalInv, response = NoResponse,
                    NEW c \in Clients, NEW d \in Clients, NEW u, u \in inAs[c], u \in inAs[d]
             PROVE  c = d
  BY DEF OldTerminalIsTold
<1>1. \A f \in Fds : response.logoutFd # f
  BY FdsAssumption DEF NoResponse
<1>2. PICK f \in Fds : owner[f] = c /\ session[u] = f
  BY <1>1 DEF TerminalInv, UntoldIsRecorded, Recorded
<1>3. PICK g \in Fds : owner[g] = d /\ session[u] = g
  BY <1>1 DEF TerminalInv, UntoldIsRecorded, Recorded
<1> QED
  BY <1>2, <1>3

(* Who is logged in has logged in; nobody forgets.                         *)
LEMMA EverStep ==
    ASSUME DivertInv, TypeOK', [Next]_vars, NEW c \in Clients
    PROVE  inAs'[c] \subseteq ever'[c]
<1> USE DEF DivertInv, TerminalInv
<1>1. ASSUME ever' = ever, inAs'[c] \subseteq inAs[c] PROVE inAs'[c] \subseteq ever'[c]
  BY <1>1
<1>2. ASSUME NEW d \in Clients, OutOf(d) PROVE inAs'[c] \subseteq ever'[c]
  BY <1>1, <1>2 DEF OutOf, TypeOK
<1>3. ASSUME NEW d \in Clients, Client(d) PROVE inAs'[c] \subseteq ever'[c]
  <2>1. OutOf(d) \/ UNCHANGED history
    BY <1>3 DEF Client, Command, Exit, Write, CommandRead, Leave, Die, Gone, RecvPrints, RecvExits
  <2> QED
    BY <1>1, <1>2, <2>1 DEF history
<1>4. ASSUME NEW fd \in Fds, DealClientMessage(fd) PROVE inAs'[c] \subseteq ever'[c]
  <2> DEFINE r == GetServiceMessage(GetNeedSendMessage(block[fd], fd))
  <2>1. PICK logoutFd \in Fds \cup {-1}, msg \in {"success", "error"} : Answered(r, logoutFd, msg)
    BY <1>4 DEF DealClientMessage
  <2> HIDE DEF r
  <2>2. CASE UNCHANGED history
    BY <1>1, <2>2 DEF history
  <2>3. CASE Enters(r.clientFd, r.user)
    BY <2>3 DEF Enters, TypeOK
  <2>4. CASE ProcessLogout(r, msg)
    BY <2>2, <2>4 DEF ProcessLogout, Stays
  <2> QED
    BY <2>1, <2>2, <2>3, <2>4 DEF Answered, ProcessLogin, Stays, Closes
<1>5. CASE NoticeLogout
  <2>1. \/ UNCHANGED history
        \/ OutOf(owner[response.logoutFd]) /\ Peer(response.logoutFd) \in {"open", "fin"}
    BY <1>5 DEF NoticeLogout, SigPipe
  <2>2. response.logoutFd \in Fds
    BY <1>5 DEF NoticeLogout, TypeOK
  <2>3. Peer(response.logoutFd) \in {"open", "fin"} => owner[response.logoutFd] \in Clients
    BY <2>2 DEF Peer, TypeOK
  <2> QED
    BY <1>1, <1>2, <2>1, <2>3 DEF history
<1>6. CASE Restart
  BY <1>1, <1>6 DEF Restart
<1>7. CASE UNCHANGED history
  BY <1>1, <1>7 DEF history
<1>8. CASE Receiver
  BY <1>4, <1>5, <1>6, <1>7, <1>8
     DEF Receiver, Connect, DealReadEvent, ServiceAborts, UseKills, NoticeMessage, SigPipe
<1> QED
  BY <1>3, <1>7, <1>8 DEF Next, vars, history

(* The answer names the descriptor that processLogin() read before it      *)
(* wrote the new one, and the session stays as it is until it is dealt     *)
(* with.                                                                   *)
LEMMA AnswerStep ==
    ASSUME DivertInv, TypeOK', [Next]_vars
    PROVE  AnswerNamesOld'
<1> USE FdsAssumption DEF DivertInv, TerminalInv
<1>1. ASSUME UNCHANGED <<response, session, block>> PROVE AnswerNamesOld'
  BY <1>1 DEF AnswerNamesOld
<1>2. ASSUME response'.logoutFd = -1 PROVE AnswerNamesOld'
  <2>1. -1 \notin Fds
    OBVIOUS
  <2> QED
    BY <1>2, <2>1 DEF AnswerNamesOld
<1>3. ASSUME response = NoResponse, UNCHANGED response PROVE AnswerNamesOld'
  BY <1>2, <1>3 DEF NoResponse
<1>4. ASSUME NEW fd \in Fds, DealClientMessage(fd) PROVE AnswerNamesOld'
  <2> DEFINE r == GetServiceMessage(GetNeedSendMessage(block[fd], fd))
  <2>1. PICK logoutFd \in Fds \cup {-1}, msg \in {"success", "error"} :
            /\ Answered(r, logoutFd, msg)
            /\ response' = [to |-> fd, logoutFd |-> logoutFd, msg |-> msg]
    BY <1>4 DEF DealClientMessage
  <2>2. /\ r.user = block[fd].user /\ r.user \in Users /\ r.clientFd = fd
        /\ block' = block /\ block[fd] # NoCommand
    BY <1>4 DEF DealClientMessage, TypeOK, Commands, GetServiceMessage, GetNeedSendMessage
  <2> HIDE DEF r
  <2>3. CASE logoutFd = -1
    BY <1>2, <2>1, <2>3
  <2>4. CASE logoutFd = session[r.user] /\ (Enters(fd, r.user) \/ Stays \/ Closes(r.user))
    <3>1. session'[r.user] \in {fd, logoutFd, -1}
      BY <2>2, <2>4 DEF Enters, Stays, Closes, TypeOK
    <3> QED
      BY <2>1, <2>2, <3>1 DEF AnswerNamesOld
  <2> QED
    BY <2>1, <2>2, <2>3, <2>4 DEF Answered, ProcessLogin
<1>5. CASE NoticeLogout \/ NoticeMessage
  <2>1. \/ UNCHANGED <<response, session, block>>
        \/ response'.logoutFd = -1
    <3>1. CASE NoticeLogout
      <4>1. response \in [to : Fds \cup {-1}, logoutFd : Fds \cup {-1},
                          msg : {"success", "error", "none"}]
        BY DEF TypeOK
      <4>2. [response EXCEPT !.logoutFd = -1].logoutFd = -1
        BY <4>1
      <4>3. NoResponse.logoutFd = -1
        BY DEF NoResponse
      <4>4. \/ response' = [response EXCEPT !.logoutFd = -1]
            \/ response' = NoResponse
            \/ UNCHANGED <<response, session, block>>
        BY <3>1 DEF NoticeLogout, HandlerReturns, SigPipe
      <4> QED
        BY <4>2, <4>3, <4>4
    <3>2. CASE NoticeMessage
      BY <3>2 DEF NoticeMessage, HandlerReturns, SigPipe, NoResponse
    <3> QED
      BY <1>5, <3>1, <3>2
  <2> QED
    BY <1>1, <1>2, <2>1
<1>6. CASE Restart
  BY <1>2, <1>6 DEF Restart, NoResponse
<1>7. CASE Receiver
  BY <1>1, <1>3, <1>4, <1>5, <1>6, <1>7
     DEF Receiver, Connect, receiver, DealReadEvent, Waits, ServiceAborts, UseKills
<1>8. ASSUME NEW d \in Clients, Client(d) PROVE AnswerNamesOld'
  BY <1>1, <1>8 DEF Client, Command, Exit, Write, CommandRead, Leave, Die, Gone, RecvPrints,
                    RecvExits, receiver
<1> QED
  BY <1>1, <1>7, <1>8 DEF Next, vars

(* The stronger invariant holds initially and is preserved.                *)
LEMMA DivertInvStep == /\ Init => DivertInv
                       /\ DivertInv /\ [Next]_vars => DivertInv'
<1>1. Init => DivertInv
  BY InitInv, FdsAssumption DEF Init, DivertInv, AnswerNamesOld, NoResponse
<1>2. ASSUME DivertInv, [Next]_vars PROVE DivertInv'
  <2>1. TerminalInv'
    BY <1>2, StepInv DEF DivertInv
  <2>2. TypeOK'
    BY <2>1 DEF TerminalInv
  <2> QED
    BY <1>2, <2>1, <2>2, EverStep, AnswerStep DEF DivertInv
<1> QED
  BY <1>1, <1>2

(* The notice is the only "logout" a client is sent.                       *)
LEMMA OnlyNoticeLogout ==
    ASSUME DivertInv, [Next]_vars, NEW c \in Clients,
           Len(down'[c]) > Len(down[c]), down'[c][Len(down'[c])] = "logout"
    PROVE  NoticeLogout /\ c = owner[response.logoutFd]
<1> USE DEF DivertInv, TerminalInv
<1>1. down \in [Clients -> Seq({"logout", "success", "error"})] /\ Len(down[c]) \in Nat
  BY DEF TypeOK
<1>2. down'[c] # down[c] /\ down'[c] # << >>
  BY <1>1
<1>3. ASSUME NEW d \in Clients, Client(d) PROVE FALSE
  <2>1. down' = down \/ down' = [down EXCEPT ![d] = << >>]
    BY <1>3 DEF Client, Command, Exit, Write, CommandRead, Leave, Die, Gone, RecvPrints,
                RecvExits, Printed
  <2> QED
    BY <1>1, <1>2, <2>1
<1>4. CASE Restart
  BY <1>2, <1>4 DEF Restart
<1>5. ASSUME NEW f \in Fds, NEW x, Written(f, x), owner[f] \in Clients
      PROVE  c = owner[f] /\ x = "logout"
  <2>1. down' = [down EXCEPT ![owner[f]] = Append(@, x)]
    BY <1>2, <1>5 DEF Written
  <2>2. c = owner[f] /\ down'[c] = Append(down[c], x)
    BY <1>1, <1>2, <1>5, <2>1
  <2>3. Append(down[c], x)[Len(Append(down[c], x))] = x
    BY <1>1
  <2> QED
    BY <2>2, <2>3
<1>6. CASE NoticeMessage
  <2>1. response.to \in Fds /\ owner[response.to] \in Clients /\ response.msg # "logout"
    BY <1>6 DEF NoticeMessage, RequestsOwned, TypeOK
  <2>2. Written(response.to, response.msg)
    BY <1>2, <1>6 DEF NoticeMessage, Failed, SigPipe
  <2> QED
    BY <1>5, <2>1, <2>2
<1>7. CASE NoticeLogout
  <2>1. response.logoutFd \in Fds
    BY <1>7 DEF NoticeLogout, TypeOK
  <2>2. /\ Written(response.logoutFd, "logout")
        /\ Peer(response.logoutFd) \in {"open", "fin"}
    BY <1>2, <1>7 DEF NoticeLogout, Failed, SigPipe
  <2>3. owner[response.logoutFd] \in Clients
    BY <2>1, <2>2 DEF Peer, TypeOK
  <2> QED
    BY <1>5, <1>7, <2>1, <2>2, <2>3
<1>8. CASE Receiver
  BY <1>2, <1>4, <1>6, <1>7, <1>8
     DEF Receiver, Connect, DealReadEvent, DealClientMessage, ServiceAborts, UseKills
<1> QED
  BY <1>2, <1>3, <1>8 DEF Next, vars

(* The step of NoticeNotDiverted: a terminal logged in as the user has its *)
(* session on the descriptor that logs in, or it is the one notified.      *)
LEMMA DivertStep ==
    ASSUME DivertInv, [Next]_vars, NEW c \in Clients,
           Len(down'[c]) > Len(down[c]), down'[c][Len(down'[c])] = "logout",
           block[response.to].user \notin ever[c],
           NEW d \in Clients, block[response.to].user \in inAs[d]
    PROVE  d = owner[response.to]
<1> DEFINE u == block[response.to].user
<1>1. c = owner[response.logoutFd] /\ response.logoutFd \in Fds
  <2>1. NoticeLogout /\ c = owner[response.logoutFd]
    BY OnlyNoticeLogout
  <2> QED
    BY <2>1, FdsAssumption DEF NoticeLogout, DivertInv, TerminalInv, TypeOK
<1>2. session[u] \in {response.to, response.logoutFd, -1}
  BY <1>1 DEF DivertInv, AnswerNamesOld
<1>3. d # c
  BY DEF DivertInv
<1>4. PICK f \in Fds : owner[f] = d /\ (session[u] = f \/ response.logoutFd = f)
  BY DEF DivertInv, TerminalInv, UntoldIsRecorded, Recorded
<1>5. session[u] = f /\ f # response.logoutFd /\ f # -1
  BY <1>1, <1>3, <1>4, FdsAssumption
<1> QED
  BY <1>2, <1>4, <1>5

(* The state of clients, receiver and sessions is always of its type.      *)
THEOREM TypeCorrect == Spec => []TypeOK
<1>1. TerminalInv => TypeOK
  BY DEF TerminalInv
<1> QED
  BY <1>1, InitInv, StepInv, PTL DEF Spec

(* Whatever people type and whatever fails, a terminal that a login        *)
(* replaces is sent the notice before the login is answered, unless a      *)
(* LOGOUT from elsewhere ended its session first.                          *)
THEOREM OldTerminalIsToldHolds == Spec => []OldTerminalIsTold
  BY InitInv, StepInv, InvImpliesTold, PTL DEF Spec

(* An untold terminal's session is always found: in the table, or as the   *)
(* descriptor the pending answer notifies; and what that answer names is   *)
(* the session its login took over (messageReceiver.cpp:125).              *)
THEOREM DivertInvariance == Spec => []DivertInv
  BY DivertInvStep, PTL DEF Spec

(* A stale descriptor never costs a terminal its notice: one that reaches  *)
(* somebody else's terminal was owed to nobody.                            *)
THEOREM NoticeNotDivertedHolds == Spec => NoticeNotDiverted
<1>1. DivertInv /\ [Next]_vars =>
        [\A c \in Clients :
            /\ Len(down'[c]) > Len(down[c])
            /\ down'[c][Len(down'[c])] = "logout"
            /\ block[response.to].user \notin ever[c]
            => \A d \in Clients : block[response.to].user \in inAs[d]
                                     => d = owner[response.to]]_vars
  BY DivertStep
<1> QED
  BY <1>1, DivertInvStep, PTL DEF Spec, NoticeNotDiverted
================================================================================
