----------------------------- MODULE SingleTerminal -----------------------------
(***************************************************************************)
(* The whole system as its users see it: clients (client/), the receiver   *)
(* that owns their connections, and behind it the dispatcher and the login *)
(* service.  Each client has two threads on one non-blocking socket.  The  *)
(* receiver is one thread that writes a request down the chain and waits   *)
(* for its answer, so the chain is one step; of the tables only each       *)
(* user's active row matters, which LoginService proves to be at most one. *)
(* Passwords are left out: a login may always be refused.                  *)
(***************************************************************************)
EXTENDS Integers, Sequences, Functions

CONSTANTS Clients, NoClient, Users, NoUser,
          Fds,          \* descriptors the receiver has for clients
          MaxCommands,  \* bound: commands typed, at all clients together
          Careful,      \* how people type, see MayType
          Faults        \* see below

(* "sql": statements of the login service may fail; "die": a client may   *)
(* be killed (SIGINT is caught, SIGHUP and SIGKILL are not); "restart":    *)
(* the receiver may be started again.                                      *)
FaultKinds == {"sql", "die", "restart"}

ASSUME ClientsAssumption == NoClient \notin Clients /\ NoUser \notin Users
ASSUME FdsAssumption == Fds \subseteq Nat \ {0}
ASSUME BoundsAssumption == MaxCommands \in Nat /\ Careful \in BOOLEAN
ASSUME FaultsAssumption == Faults \subseteq FaultKinds

VARIABLES
    conn,     \* conn[c]: c's connection as the receiver's kernel sees it
    thread,   \* thread[c]: what c's command thread does next
    typed,    \* commands typed so far
    waiting,  \* waiting[c]: the command a careful user waits for an answer to
    mine,     \* mine[c]: the name a careful user logged in with
    up, down, \* commands and messages written and not yet read
    owner,    \* owner[fd]: whose connection fd is, NoClient when not open
    block,    \* block[fd]: the command read, waiting for its write event
    freed,    \* the descriptors whose registration points to a freed block
    response, \* the answer being dealt with: to whom, whom to notify, the message
    serving,  \* FALSE once the receiver is dead or waits for ever
    session,  \* session[u]: FuiFd of u's row with FuiStatus 1, or -1
    inAs,     \* history: inAs[c], the users logged in at c, which was not told
              \* to leave since
    cut,      \* history: cut[c], those of them whose session a LOGOUT from
              \* another client ended
    ever      \* history: ever[c], all users that ever logged in at c

client   == <<thread, typed, waiting, mine>>
history  == <<inAs, cut, ever>>
receiver == <<block, freed, response, serving>>
vars == <<conn, thread, typed, waiting, mine, up, down, owner,
          block, freed, response, serving, session, inAs, cut, ever>>

Commands   == [messageType : {"REGIST", "LOGIN", "LOGOUT"}, user : Users]
NoCommand  == [messageType |-> "NONE", user |-> NoUser]
NoResponse == [to |-> -1, logoutFd |-> -1, msg |-> "none"]

Init == /\ conn = [c \in Clients |-> "none"]
        /\ thread = [c \in Clients |-> "fgets"]
        /\ typed = 0
        /\ waiting = [c \in Clients |-> "nothing"]
        /\ mine = [c \in Clients |-> NoUser]
        /\ up = [c \in Clients |-> << >>]
        /\ down = [c \in Clients |-> << >>]
        /\ owner = [fd \in Fds |-> NoClient]
        /\ block = [fd \in Fds |-> NoCommand]
        /\ freed = {}
        /\ response = NoResponse
        /\ serving = TRUE
        /\ session = [u \in Users |-> -1]
        /\ inAs = [c \in Clients |-> {}]
        /\ cut = [c \in Clients |-> {}]
        /\ ever = [c \in Clients |-> {}]

--------------------------------------------------------------------------------
(* The client *)

(* Careful people wait for each answer, log in as one user at a time, and  *)
(* log out or exit with the name they logged in with.  The client enforces *)
(* none of this.                                                           *)
MayType(c, m) ==
    Careful => /\ waiting[c] = "nothing"
               /\ m.messageType = "LOGIN" => mine[c] = NoUser
               /\ m.messageType = "LOGOUT" => mine[c] = m.user

(* What clients do with a dead receiver is not followed *)
Runs(c) == conn[c] = "open" /\ serving

(* getJsonStringFromParams() and write() *)
Write(c, m, next) ==
    /\ Runs(c)
    /\ thread[c] = "fgets"
    /\ typed < MaxCommands
    /\ MayType(c, m)
    /\ up' = [up EXCEPT ![c] = Append(@, m)]
    /\ thread' = [thread EXCEPT ![c] = next]
    /\ typed' = typed + 1
    /\ \/ ~Careful /\ UNCHANGED <<waiting, mine>>
       \/ /\ Careful
          /\ waiting' = [waiting EXCEPT ![c] = m.messageType]
          /\ mine' = [mine EXCEPT ![c] = CASE m.messageType = "LOGIN"  -> m.user
                                           [] m.messageType = "LOGOUT" -> NoUser
                                           [] OTHER -> @]
    /\ UNCHANGED <<conn, down, owner, receiver, session, history>>

(* processCommandLine() of login, logout and regist: write(), then read()  *)
Command(c, m) == Write(c, m, "read")
(* Mutant of Exit: the client exits without a word *)
ExitSilently(c, u) ==
    /\ Runs(c)
    /\ thread[c] = "fgets"
    /\ mine[c] = u
    /\ thread' = [thread EXCEPT ![c] = "exit"]
    /\ UNCHANGED <<conn, typed, waiting, mine, up, down, owner, receiver, session, history>>
(* Exiter::processCommandLine(): a LOGOUT is written, then exit(0)         *)
Exit(c, u) == Write(c, [messageType |-> "LOGOUT", user |-> u], "exit")

(* What a read() took is printed, and so seen by the user *)
Printed(c) ==
    LET seen == Range(down[c]) IN
    /\ down' = [down EXCEPT ![c] = << >>]
    /\ waiting' = [waiting EXCEPT ![c] =
                      IF seen \cap {"success", "error"} = {} THEN @ ELSE "nothing"]
    /\ mine' = [mine EXCEPT ![c] =
                   IF waiting[c] = "LOGIN" /\ "error" \in seen THEN NoUser ELSE @]

(* The command thread's one non-blocking read(), which prints a notice     *)
(* like any other message.                                                 *)
CommandRead(c) ==
    /\ Runs(c)
    /\ thread[c] = "read"
    /\ thread' = [thread EXCEPT ![c] = "fgets"]
    /\ Printed(c)
    /\ UNCHANGED <<conn, typed, up, owner, receiver, session, history>>

(* c is no longer a terminal of anybody: it has ended or was told to *)
OutOf(c) == /\ inAs' = [inAs EXCEPT ![c] = {}]
            /\ cut' = [cut EXCEPT ![c] = {}]
            /\ UNCHANGED ever

(* The process ends; unread messages turn its FIN into an RST *)
Gone(c) == /\ conn' = [conn EXCEPT ![c] = IF down[c] = << >> THEN "fin" ELSE "reset"]
           /\ down' = [down EXCEPT ![c] = << >>]
           /\ OutOf(c)
           /\ UNCHANGED <<client, up, owner, receiver, session>>

Leave(c) == Runs(c) /\ thread[c] = "exit" /\ Gone(c)
Die(c)   == Runs(c) /\ "die" \in Faults /\ Gone(c)

(* justRecvMessage(): the client exits when one read() is exactly "logout" *)
RecvPrints(c) ==
    /\ Runs(c)
    /\ down[c] \notin {<< >>, <<"logout">>}
    /\ Printed(c)
    /\ UNCHANGED <<conn, thread, typed, up, owner, receiver, session, history>>
RecvExits(c) ==
    /\ Runs(c)
    /\ down[c] = <<"logout">>
    /\ conn' = [conn EXCEPT ![c] = "fin"]
    /\ down' = [down EXCEPT ![c] = << >>]
    /\ OutOf(c)
    /\ UNCHANGED <<client, up, owner, receiver, session>>

--------------------------------------------------------------------------------
(* The receiver *)

Waits == serving /\ response = NoResponse

(* getTcpSocket() and dealConnectRequest(): the lowest free descriptor *)
Connect(c, fd) ==
    /\ Waits
    /\ conn[c] = "none"
    /\ owner[fd] = NoClient
    /\ \A f \in Fds : owner[f] = NoClient => fd <= f
    /\ conn' = [conn EXCEPT ![c] = "open"]
    /\ owner' = [owner EXCEPT ![fd] = c]
    /\ UNCHANGED <<client, up, down, receiver, session, history>>

(* Mutant of ReadCommand: the command is not handed to the write event *)
ReadWithoutModify(fd) ==
    LET c == owner[fd] IN
    /\ up[c] # << >>
    /\ up' = [up EXCEPT ![c] = << >>]
    /\ UNCHANGED <<conn, owner, block>>

(* Mutant of ReadEnd: a read() that returns no data, EAGAIN included,      *)
(* closes the descriptor                                                   *)
ReadEndAlways(fd) ==
    /\ up[owner[fd]] = << >>
    /\ owner' = [owner EXCEPT ![fd] = NoClient]
    /\ UNCHANGED <<conn, block, up>>

(* dealReadEvent(): one read() takes all that is there and the parser the  *)
(* first object of it; the end of the connection closes the descriptor; an *)
(* error is reported once.                                                 *)
ReadCommand(fd) ==
    LET c == owner[fd] IN
    /\ up[c] # << >>
    /\ block' = [block EXCEPT ![fd] = Head(up[c])]
    /\ up' = [up EXCEPT ![c] = << >>]
    /\ UNCHANGED <<conn, owner>>
ReadEnd(fd) ==
    LET c == owner[fd] IN
    /\ up[c] = << >>
    /\ \/ /\ conn[c] \in {"fin", "broken"}
          /\ owner' = [owner EXCEPT ![fd] = NoClient]
          /\ UNCHANGED conn
       \/ /\ conn[c] = "reset"
          /\ conn' = [conn EXCEPT ![c] = "broken"]
          /\ UNCHANGED owner
    /\ UNCHANGED <<block, up>>
DealReadEvent(fd) ==
    /\ Waits
    /\ owner[fd] # NoClient
    /\ block[fd] = NoCommand
    /\ ReadCommand(fd) \/ ReadEnd(fd)
    /\ UNCHANGED <<client, down, freed, response, serving, session, history>>

--------------------------------------------------------------------------------
(* The request: getNeedSendMessage() adds the descriptor, the dispatcher's *)
(* getServiceFdAndMessage() and dealLogin() the operateType.               *)
GetNeedSendMessage(m, fd) ==
    [messageType |-> m.messageType, user |-> m.user, clientFd |-> fd]
GetServiceMessage(m) ==
    [operateType |-> m.messageType, user |-> m.user, clientFd |-> m.clientFd]

(* Mutant of Enters: the row is inserted without the descriptor *)
EntersWithoutFd(fd, u) == session' = [session EXCEPT ![u] = 0] /\ UNCHANGED history
(* The client at fd is logged in as u, if it is still there *)
Enters(fd, u) ==
    LET c == owner[fd] IN
    /\ session' = [session EXCEPT ![u] = fd]
    /\ inAs' = IF conn[c] = "open" THEN [inAs EXCEPT ![c] = @ \cup {u}] ELSE inAs
    /\ cut' = [cut EXCEPT ![c] = @ \ {u}]
    /\ ever' = [ever EXCEPT ![c] = @ \cup {u}]

Stays     == UNCHANGED <<session, history>>
Closes(u) == session' = [session EXCEPT ![u] = -1] /\ UNCHANGED history

(* Mutant of ProcessLogin: logoutFd is set only when the login succeeded *)
ProcessLoginThenNotice(r, logoutFd, msg) ==
    LET old == session[r.user] IN
    \/ msg = "error" /\ logoutFd = -1 /\ Stays
    \/ msg = "success" /\ logoutFd = old /\ Enters(r.clientFd, r.user)
    \/ /\ "sql" \in Faults
       /\ msg = "error"
       /\ logoutFd = -1
       /\ Enters(r.clientFd, r.user) \/ Stays \/ Closes(r.user)

(* userLoginService: what becomes of the session, logoutFd and the message *)
(* for a LOGIN.  A statement may fail, or be applied without an answer.    *)
ProcessLogin(r, logoutFd, msg) ==
    LET old == session[r.user] IN
    \/ msg = "error" /\ logoutFd = -1 /\ Stays
    \/ msg = "success" /\ logoutFd = old /\ Enters(r.clientFd, r.user)
    \/ /\ "sql" \in Faults
       /\ msg = "error"
       /\ logoutFd = old
       /\ \/ Enters(r.clientFd, r.user)
          \/ old # -1 /\ (Stays \/ Closes(r.user))

(* Mutant of ProcessLogout: success without the update *)
ProcessLogoutOnlySays(r, msg) == msg = "success" /\ Stays

(* ... for a LOGOUT, whoever sends it *)
ProcessLogout(r, msg) ==
    LET c == owner[r.clientFd] IN
    \/ /\ msg = "success" \/ "sql" \in Faults
       /\ session' = [session EXCEPT ![r.user] = -1]
       /\ inAs' = [d \in Clients |-> inAs[d] \ {r.user}]
       /\ cut' = [d \in Clients |-> IF d = c THEN cut[d] \ {r.user}
                                   ELSE cut[d] \cup (inAs[d] \cap {r.user})]
       /\ UNCHANGED ever
    \/ "sql" \in Faults /\ msg = "error" /\ Stays

(* dealClientMessage() of receiver, dispatcher and login service, up to    *)
(* the answer the receiver's read() returns.                               *)
Answered(r, logoutFd, msg) ==
    \/ r.operateType = "LOGIN" /\ ProcessLogin(r, logoutFd, msg)
    \/ r.operateType = "LOGOUT" /\ logoutFd = -1 /\ ProcessLogout(r, msg)
    \/ r.operateType = "REGIST" /\ logoutFd = -1 /\ Stays
DealClientMessage(fd) ==
    LET r == GetServiceMessage(GetNeedSendMessage(block[fd], fd)) IN
    /\ Waits
    /\ block[fd] # NoCommand
    /\ \E logoutFd \in Fds \cup {-1}, msg \in {"success", "error"} :
          /\ Answered(r, logoutFd, msg)
          /\ response' = [to |-> fd, logoutFd |-> logoutFd, msg |-> msg]
    /\ UNCHANGED <<conn, client, up, down, owner, block, freed, serving>>

(* The request that ends the service: a failed select reads as "already    *)
(* logged in" and the assertion of getAlreadyLoginedClientFd() aborts it.  *)
(* The dispatcher then reads 0 bytes and writes none, and the receiver     *)
(* waits for ever.                                                         *)
ServiceAborts(fd) ==
    /\ Waits
    /\ block[fd].messageType = "LOGIN"
    /\ "sql" \in Faults
    /\ session[block[fd].user] = -1
    /\ serving' = FALSE
    /\ UNCHANGED <<conn, client, up, down, owner, block, freed, response, session, history>>

(* A freed block is used (DaemonLoop's UseAfterFree): the process may die  *)
(* at once, or handle it like any other and die at the second free().      *)
UseKills(fd) ==
    /\ Waits
    /\ fd \in freed
    /\ serving' = FALSE
    /\ UNCHANGED <<conn, client, up, down, owner, block, freed, response, session, history>>

--------------------------------------------------------------------------------
(* dealServiceResponse() *)

Peer(fd) == IF owner[fd] = NoClient THEN "closed" ELSE conn[owner[fd]]

(* write() succeeds; a peer that has closed answers with an RST *)
Written(fd, text) ==
    LET c == owner[fd] IN
    \/ /\ conn[c] = "open"
       /\ down' = [down EXCEPT ![c] = Append(@, text)]
       /\ UNCHANGED conn
    \/ /\ conn[c] = "fin"
       /\ conn' = [conn EXCEPT ![c] = "broken"]
       /\ UNCHANGED down

(* write() fails: EBADF, or ECONNRESET, which is reported once *)
Failed(fd) ==
    /\ conn' = [c \in Clients |-> IF c = owner[fd] THEN "broken" ELSE conn[c]]
    /\ UNCHANGED down

(* dealWriteEvent() after the handler: free(), and back to EPOLLIN only if *)
(* it succeeded.                                                           *)
HandlerReturns(fd, ok) ==
    /\ response' = NoResponse
    /\ serving' = (fd \notin freed)
    /\ freed' = IF ok THEN freed ELSE freed \cup {fd}
    /\ block' = IF ok THEN [block EXCEPT ![fd] = NoCommand] ELSE block

(* SIGPIPE, which nothing ignores *)
SigPipe(fd) == /\ Peer(fd) = "broken"
               /\ serving' = FALSE
               /\ UNCHANGED <<conn, down, block, freed, response, history>>

(* The notice.  Its reader, whoever that is, is told to leave.             *)
NoticeLogout ==
    LET fd == response.logoutFd IN
    /\ serving
    /\ fd > 0
    /\ \/ /\ Peer(fd) \in {"open", "fin"}
          /\ Written(fd, "logout")
          /\ OutOf(owner[fd])
          /\ response' = [response EXCEPT !.logoutFd = -1]
          /\ UNCHANGED <<block, freed, serving>>
       \/ /\ Peer(fd) \in {"closed", "reset"}
          /\ Failed(fd)
          /\ HandlerReturns(response.to, FALSE)
          /\ UNCHANGED history
       \/ SigPipe(fd)
    /\ UNCHANGED <<client, up, owner, session>>

(* The message for the client that asked *)
NoticeMessage ==
    LET fd == response.to IN
    /\ serving
    /\ response # NoResponse
    /\ response.logoutFd <= 0
    /\ \/ /\ Peer(fd) \in {"open", "fin"}
          /\ Written(fd, response.msg)
          /\ HandlerReturns(fd, TRUE)
          /\ UNCHANGED history
       \/ /\ Peer(fd) \in {"closed", "reset"}
          /\ Failed(fd)
          /\ HandlerReturns(fd, FALSE)
          /\ UNCHANGED history
       \/ SigPipe(fd)
    /\ UNCHANGED <<client, up, owner, session>>

--------------------------------------------------------------------------------
(* The receiver has died or is killed, and main() runs again (the others   *)
(* are Relay's matter).  Connections and requests are gone; the rows in    *)
(* MySQL keep the descriptors of the earlier run.                          *)
Restart ==
    /\ "restart" \in Faults
    /\ conn' = [c \in Clients |-> IF conn[c] = "none" THEN "none" ELSE "lost"]
    /\ up' = [c \in Clients |-> << >>]
    /\ down' = [c \in Clients |-> << >>]
    /\ owner' = [fd \in Fds |-> NoClient]
    /\ block' = [fd \in Fds |-> NoCommand]
    /\ freed' = {}
    /\ response' = NoResponse
    /\ serving' = TRUE
    /\ inAs' = [c \in Clients |-> {}]
    /\ cut' = [c \in Clients |-> {}]
    /\ UNCHANGED <<client, session, ever>>

Receiver == \/ \E c \in Clients, fd \in Fds : Connect(c, fd)
            \/ \E fd \in Fds : \/ DealReadEvent(fd)
                               \/ DealClientMessage(fd)
                               \/ ServiceAborts(fd)
                               \/ UseKills(fd)
            \/ NoticeLogout
            \/ NoticeMessage
            \/ Restart

Client(c) == \/ \E m \in Commands : Command(c, m)
             \/ \E u \in Users : Exit(c, u)
             \/ CommandRead(c)
             \/ Leave(c) \/ Die(c)
             \/ RecvPrints(c) \/ RecvExits(c)

Next == Receiver \/ \E c \in Clients : Client(c)

(* Both threads of a client run, and so does the receiver.  epoll_wait()   *)
(* returns every ready descriptor and each is handled before the next      *)
(* call, so one that is ready again and again is handled: strong fairness. *)
(* Nobody has to type, to connect or to die, and nothing has to fail.      *)
Fairness == /\ \A c \in Clients : /\ WF_vars(CommandRead(c))
                                  /\ WF_vars(RecvPrints(c) \/ RecvExits(c))
                                  /\ WF_vars(Leave(c))
            /\ \A fd \in Fds : /\ SF_vars(DealReadEvent(fd))
                               /\ SF_vars(DealClientMessage(fd))
            /\ WF_vars(NoticeLogout \/ NoticeMessage)

Spec == Init /\ [][Next]_vars /\ Fairness

--------------------------------------------------------------------------------
(* Properties *)

(* Types of the connection, receiver and session state. *)
TypeOK ==
    /\ conn \in [Clients -> {"none", "open", "fin", "reset", "broken", "lost"}]
    /\ thread \in [Clients -> {"fgets", "read", "exit"}]
    /\ typed \in 0 .. MaxCommands
    /\ waiting \in [Clients -> {"nothing", "REGIST", "LOGIN", "LOGOUT"}]
    /\ mine \in [Clients -> Users \cup {NoUser}]
    /\ up \in [Clients -> Seq(Commands)]
    /\ down \in [Clients -> Seq({"logout", "success", "error"})]
    /\ owner \in [Fds -> Clients \cup {NoClient}]
    /\ block \in [Fds -> Commands \cup {NoCommand}]
    /\ freed \subseteq Fds
    /\ response \in [to : Fds \cup {-1}, logoutFd : Fds \cup {-1},
                     msg : {"success", "error", "none"}]
    /\ serving \in BOOLEAN
    /\ session \in [Users -> Fds \cup {-1}]
    /\ inAs \in [Clients -> SUBSET Users]
    /\ cut \in [Clients -> SUBSET Users]
    /\ ever \in [Clients -> SUBSET Users]

(* A user is logged in at one terminal: when a login has been answered,    *)
(* every other terminal of the user was sent the notice ("force the        *)
(* devices already logged in to exit, then log this one in",               *)
(* loginer.cpp:54).                                                        *)
OneTerminal ==
    response = NoResponse =>
        \A c, d \in Clients : (inAs[c] \cup cut[c]) \cap (inAs[d] \cup cut[d]) # {} => c = d

(* The same, but for terminals whose session a LOGOUT from another one     *)
(* ended: no reuse of a descriptor, failed statement, lost connection or   *)
(* repeated login leaves a terminal behind that was not told.              *)
OldTerminalIsTold ==
    response = NoResponse =>
        \A c, d \in Clients : inAs[c] \cap inAs[d] # {} => c = d

(* "Your account logged in on another device" (client main.cpp:105) is     *)
(* sent only to a terminal that was logged in as the user who logs in now. *)
NoticeOnlyToUser ==
    [][\A c \in Clients :
          Len(down'[c]) > Len(down[c]) /\ down'[c][Len(down'[c])] = "logout"
              => block[response.to].user \in ever[c]]_vars

(* However stale the descriptor in the table (a killed client, a reused    *)
(* number, a restarted receiver), a notice that reaches somebody else's    *)
(* terminal was owed to nobody: no terminal but the one logging in is      *)
(* logged in as the user (loginer.cpp:227, messageReceiver.cpp:132).       *)
NoticeNotDiverted ==
    [][\A c \in Clients :
          /\ Len(down'[c]) > Len(down[c])
          /\ down'[c][Len(down'[c])] = "logout"
          /\ block[response.to].user \notin ever[c]
          => \A d \in Clients : block[response.to].user \in inAs[d]
                                   => d = owner[response.to]]_vars

(* "logout then exit client." (commandLine.h:52): when the connection of a *)
(* client is closed, no session is left on its descriptor.                 *)
ExitLogsOut ==
    [][\A fd \in Fds : owner[fd] # NoClient /\ owner'[fd] = NoClient
          => \A u \in Users : session[u] # fd]_vars

(* A careful user's command is answered on the screen, unless the client   *)
(* or the receiver ends first.                                             *)
CommandAnswered ==
    \A c \in Clients : waiting[c] # "nothing" ~> waiting[c] = "nothing" \/ ~Runs(c)

(* A terminal whose user has been logged in elsewhere exits ("the current  *)
(* device logs out", client main.cpp:105).                                 *)
EvictedExits ==
    \A c \in Clients :
        Runs(c) /\ "logout" \in Range(down[c]) ~> ~Runs(c)
================================================================================
