------------------------------ MODULE CarefulProofs ------------------------------
(***************************************************************************)
(* Careful users (MayType) and nothing that fails, for any number of       *)
(* clients, users, descriptors and commands: only terminals of the user    *)
(* are told to leave, and a closed connection leaves no session.           *)
(***************************************************************************)
EXTENDS SingleTerminalProofs

CarefulUsers == Careful = TRUE /\ Faults = {}

--------------------------------------------------------------------------------
(* The inductive invariant, in named parts.  A receiver that serves nobody *)
(* takes no step, so all of it is about one that does.                     *)

(* The command of fd's client that has not been answered, and the messages *)
(* it has not read.                                                        *)
Outstanding(fd) == IF block[fd] # NoCommand THEN block[fd]
                   ELSE IF up[owner[fd]] # << >> THEN up[owner[fd]][1] ELSE NoCommand
Unread(fd) == Range(down[owner[fd]])
InHand(fd) == response.to = fd
Noticed(fd) == response.logoutFd = fd
Quiet(fd) == ~Noticed(fd) /\ "logout" \notin Unread(fd)

(* A user who waits for answers has one command on the way: not read, in   *)
(* the block, or answered and not seen.                                    *)
AtMostOne(fd) == /\ Len(up[owner[fd]]) <= 1
                 /\ up[owner[fd]] # << >> => block[fd] = NoCommand
OneCommand(fd) ==
    LET c == owner[fd] IN
    /\ AtMostOne(fd)
    /\ Outstanding(fd) # NoCommand => /\ waiting[c] = Outstanding(fd).messageType
                                      /\ Unread(fd) \subseteq {"logout"}
    /\ waiting[c] = "nothing" => Unread(fd) \subseteq {"logout"}

(* The name the user goes by.  A LOGIN on its way finds the terminal open  *)
(* and not told to leave; one that was told has a name to log out of, or   *)
(* is doing that.                                                          *)
NameKept(fd) ==
    LET c == owner[fd] IN
    /\ thread[c] = "exit" \/ waiting[c] = "LOGOUT" => mine[c] = NoUser
    /\ Outstanding(fd).messageType = "LOGIN" =>
          conn[c] = "open" /\ Quiet(fd) /\ mine[c] = Outstanding(fd).user
    /\ waiting[c] = "LOGIN" /\ "error" \in Unread(fd) => Quiet(fd)
    /\ Noticed(fd) => mine[c] # NoUser \/ Outstanding(fd).messageType = "LOGOUT"
    /\ "logout" \in Unread(fd) => mine[c] # NoUser \/ waiting[c] = "LOGOUT"

(* A session on fd is the one its client is logged in to, or its LOGOUT is *)
(* on the way.                                                             *)
Current(fd, u) ==
    LET c == owner[fd] IN
    /\ conn[c] = "open"
    /\ mine[c] = u
    /\ Outstanding(fd).messageType = "LOGIN" => InHand(fd) /\ response.msg = "success"
    /\ ~(waiting[c] = "LOGIN" /\ "error" \in Unread(fd))
Ending(fd, u) == /\ Outstanding(fd) = [messageType |-> "LOGOUT", user |-> u]
                 /\ ~InHand(fd)
SessionKept(fd) ==
    \A u \in Users : session[u] = fd => Quiet(fd) /\ (Current(fd, u) \/ Ending(fd, u))

TerminalOK(fd) == OneCommand(fd) /\ NameKept(fd) /\ SessionKept(fd)

(* A client that has not connected has done nothing. *)
Fresh(c) == /\ thread[c] = "fgets" /\ waiting[c] = "nothing" /\ mine[c] = NoUser
            /\ up[c] = << >> /\ down[c] = << >>

(* A descriptor in the table, or in the answer, is that of a client where  *)
(* the user has logged in.                                                 *)
UserWas(fd, u) == owner[fd] # NoClient /\ u \in ever[owner[fd]]
SessionsOwned ==
    /\ \A u \in Users : session[u] \in Fds => UserWas(session[u], u)
    /\ response.logoutFd \in Fds => UserWas(response.logoutFd, block[response.to].user)
BlocksKept == /\ \A fd \in freed : block[fd] # NoCommand
              /\ response # NoResponse => block[response.to] # NoCommand

TerminalsOK == \A fd \in Fds : owner[fd] # NoClient /\ fd \notin freed => TerminalOK(fd)
FreshOK == \A c \in Clients : conn[c] = "none" => Fresh(c)

(* The inductive invariant of NoticeOnlyToUser and ExitLogsOut.  Of a      *)
(* freed block only that its descriptor stays open is known: it is handled *)
(* again, which ends the receiver.                                         *)
CarefulInv ==
    DivertInv /\ (serving => TerminalsOK /\ FreshOK /\ SessionsOwned /\ BlocksKept)

--------------------------------------------------------------------------------
(* What is said of one descriptor, and what leaves it alone. *)

(* Messages that are written or read. *)
LEMMA UnreadFacts ==
    ASSUME TypeOK, NEW fd \in Fds, owner[fd] \in Clients
    PROVE  /\ Unread(fd) \subseteq {"logout", "success", "error"}
           /\ owner'[fd] = owner[fd] /\ down'[owner[fd]] = << >> => Unread(fd)' = {}
           /\ \A x \in {"logout", "success", "error"} :
                 owner'[fd] = owner[fd] /\ down'[owner[fd]] = Append(down[owner[fd]], x)
                     => Unread(fd)' = Unread(fd) \cup {x}
  <1> DEFINE Texts == {"logout", "success", "error"}
  <1>1. PICK q : q = down[owner[fd]] /\ q \in Seq(Texts)
    BY DEF TypeOK
  <1>2. Range(q) \subseteq Texts
    BY <1>1 DEF Range
  <1>3. Range(<< >>) = {}
    BY DEF Range
  <1>4. ASSUME NEW x \in Texts PROVE Range(Append(q, x)) = Range(q) \cup {x}
    <2> DEFINE r == Append(q, x)
    <2>1. /\ Len(q) \in Nat /\ DOMAIN q = 1 .. Len(q)
          /\ DOMAIN r = 1 .. (Len(q) + 1)
          /\ \A i \in 1 .. Len(q) : r[i] = q[i]
          /\ r[Len(q) + 1] = x
      BY <1>1
    <2> HIDE DEF r
    <2> QED BY <2>1 DEF Range
  <1> QED BY <1>1, <1>2, <1>3, <1>4 DEF Unread

(* The outstanding command is in the block or on its way there. *)
LEMMA OutstandingFacts ==
    ASSUME TypeOK, NEW fd \in Fds, owner[fd] \in Clients
    PROVE  /\ Outstanding(fd) \in Commands \cup {NoCommand}
           /\ block[fd] # NoCommand => Outstanding(fd) = block[fd]
           /\ Outstanding(fd) = NoCommand <=> block[fd] = NoCommand /\ up[owner[fd]] = << >>
           /\ Outstanding(fd) \in Commands <=> Outstanding(fd) # NoCommand
  <1>1. NoCommand \notin Commands
    BY ClientsAssumption DEF NoCommand, Commands
  <1>2. block[fd] \in Commands \cup {NoCommand}
    BY DEF TypeOK
  <1>3. PICK q : q = up[owner[fd]] /\ q \in Seq(Commands)
    BY DEF TypeOK
  <1>4. q # << >> => q[1] \in Commands
    BY <1>3
  <1> QED BY <1>1, <1>2, <1>3, <1>4 DEF Outstanding

(* The types of a command. *)
LEMMA CommandFacts ==
    ASSUME NEW m \in Commands \cup {NoCommand}
    PROVE  /\ m # NoCommand <=> m.messageType \in {"REGIST", "LOGIN", "LOGOUT"}
           /\ m = NoCommand <=> m.messageType = "NONE"
           /\ m # NoCommand => m.user \in Users /\ m.user # NoUser
           /\ \A u \in Users : m = [messageType |-> "LOGOUT", user |-> u]
                                   <=> m.messageType = "LOGOUT" /\ m.user = u
  BY ClientsAssumption DEF Commands, NoCommand

(* A step that does not concern fd or its client. *)
SameAt(fd) ==
    LET c == owner[fd] IN
    /\ owner'[fd] = c /\ block'[fd] = block[fd]
    /\ conn'[c] = conn[c] /\ thread'[c] = thread[c]
    /\ waiting'[c] = waiting[c] /\ mine'[c] = mine[c]
    /\ up'[c] = up[c] /\ down'[c] = down[c]

(* Such a step changes neither the command nor the messages, *)
LEMMA SameParts ==
    ASSUME NEW fd, owner'[fd] = owner[fd]
    PROVE  /\ block'[fd] = block[fd] /\ up'[owner[fd]] = up[owner[fd]] =>
                 Outstanding(fd)' = Outstanding(fd) /\ (AtMostOne(fd) => AtMostOne(fd)')
           /\ down'[owner[fd]] = down[owner[fd]] => Unread(fd)' = Unread(fd)
  BY DEF Outstanding, AtMostOne, Unread

(* and keeps what is said of fd, if it adds no session and no notice.  Nor *)
(* does it matter where the outstanding command is.                        *)
LEMMA Kept ==
    ASSUME NEW fd \in Fds, TerminalOK(fd), owner'[fd] = owner[fd],
           thread'[owner[fd]] = thread[owner[fd]], waiting'[owner[fd]] = waiting[owner[fd]],
           mine'[owner[fd]] = mine[owner[fd]],
           conn'[owner[fd]] = "open" <=> conn[owner[fd]] = "open",
           AtMostOne(fd)', Outstanding(fd)' = Outstanding(fd), Unread(fd)' = Unread(fd),
           InHand(fd) <=> InHand(fd)', InHand(fd) => response'.msg = response.msg,
           Noticed(fd)' => Noticed(fd),
           \A u \in Users : session'[u] = fd => session[u] = fd
    PROVE  TerminalOK(fd)'
  <1>1. OneCommand(fd)'
    BY DEF TerminalOK, OneCommand
  <1>2. NameKept(fd)'
    BY DEF TerminalOK, NameKept, Quiet
  <1>3. SessionKept(fd)'
    BY DEF TerminalOK, SessionKept, Quiet, Current, Ending
  <1> QED BY <1>1, <1>2, <1>3 DEF TerminalOK

(* In particular when the step does not concern the client at all. *)
LEMMA Frame ==
    ASSUME NEW fd \in Fds, TerminalOK(fd), SameAt(fd),
           InHand(fd) <=> InHand(fd)', InHand(fd) => response'.msg = response.msg,
           Noticed(fd)' => Noticed(fd),
           \A u \in Users : session'[u] = fd => session[u] = fd
    PROVE  TerminalOK(fd)'
  <1>1. /\ Outstanding(fd)' = Outstanding(fd) /\ AtMostOne(fd)'
        /\ Unread(fd)' = Unread(fd)
    BY SameParts DEF SameAt, TerminalOK, OneCommand
  <1> QED BY <1>1, Kept DEF SameAt

--------------------------------------------------------------------------------
(* The client. *)

(* What a careful user types, when nothing is on the way. *)
LEMMA WriteStep ==
    ASSUME CarefulUsers, CarefulInv, NEW c \in Clients, NEW m \in Commands,
           NEW next \in {"read", "exit"}, next = "exit" => m.messageType = "LOGOUT",
           Write(c, m, next), NEW fd \in Fds, owner[fd] # NoClient, fd \notin freed
    PROVE  TerminalOK(fd)'
  <1>1. /\ TypeOK /\ TerminalOK(fd) /\ BlocksKept /\ owner[fd] \in Clients
        /\ \A f \in Fds : owner[f] = owner[fd] => f = fd
    BY DEF CarefulInv, DivertInv, TerminalInv, TerminalsOK, Write, Runs, OwnersDistinct, TypeOK
  <1>2. UNCHANGED <<conn, down, owner, block, response, session>>
    BY DEF Write, receiver
  <1>3. CASE c # owner[fd]
    <2>1. SameAt(fd)
      BY <1>1, <1>2, <1>3 DEF SameAt, Write, TypeOK
    <2> QED BY <1>1, <1>2, <2>1, Frame DEF InHand, Noticed
  <1>4. CASE c = owner[fd]
    <2>1. /\ conn[c] = "open" /\ waiting[c] = "nothing"
          /\ m.messageType = "LOGIN" => mine[c] = NoUser
          /\ m.messageType = "LOGOUT" => mine[c] = m.user
      BY DEF Write, Runs, MayType, CarefulUsers
    <2>2. Outstanding(fd) = NoCommand
      BY <1>1, <1>4, <2>1, OutstandingFacts, CommandFacts DEF TerminalOK, OneCommand
    <2>3. block[fd] = NoCommand /\ up[c] = << >>
      BY <1>1, <1>4, <2>2, OutstandingFacts
    <2>4. ~InHand(fd)
      BY <1>1, <2>3, FdsAssumption DEF InHand, BlocksKept, NoResponse
    <2>5. up'[c] = <<m>>
      BY <1>1, <2>3 DEF Write, TypeOK
    <2>6. Outstanding(fd)' = m /\ AtMostOne(fd)'
      BY <1>2, <1>4, <2>3, <2>5 DEF Outstanding, AtMostOne
    <2>7. Unread(fd)' = Unread(fd) /\ Unread(fd) \subseteq {"logout"}
      BY <1>1, <1>2, <1>4, <2>1, SameParts DEF TerminalOK, OneCommand
    <2>8. /\ waiting'[c] = m.messageType /\ thread'[c] = next
          /\ m.messageType = "LOGIN" => mine'[c] = m.user
          /\ m.messageType = "LOGOUT" => mine'[c] = NoUser
          /\ m.messageType = "REGIST" => mine'[c] = mine[c]
      BY DEF Write, TypeOK, CarefulUsers, CarefulInv, DivertInv, TerminalInv
    <2>9. /\ m.messageType \in {"REGIST", "LOGIN", "LOGOUT"} /\ m.user \in Users /\ m.user # NoUser
          /\ m # NoCommand /\ NoCommand.messageType = "NONE"
          /\ \A u \in Users : m = [messageType |-> "LOGOUT", user |-> u]
                                  <=> m.messageType = "LOGOUT" /\ m.user = u
      BY ClientsAssumption DEF Commands, NoCommand
    <2>10. OneCommand(fd)'
      BY <1>2, <1>4, <2>6, <2>7, <2>8, <2>9 DEF OneCommand
    <2>11. NameKept(fd)'
      <3>1. m.messageType = "LOGIN" => Quiet(fd)
        BY <1>1, <1>4, <2>1, <2>2, <2>9 DEF TerminalOK, NameKept, Quiet
      <3>2. ~Noticed(fd) \/ mine[c] # NoUser
        BY <1>1, <1>4, <2>2, <2>9 DEF TerminalOK, NameKept
      <3>3. "logout" \notin Unread(fd) \/ mine[c] # NoUser
        BY <1>1, <1>4, <2>1 DEF TerminalOK, NameKept
      <3>4. Noticed(fd)' <=> Noticed(fd)
        BY <1>2 DEF Noticed
      <3> QED
        BY <1>2, <1>4, <2>1, <2>6, <2>7, <2>8, <2>9, <3>1, <3>2, <3>3, <3>4 DEF NameKept, Quiet
    <2>12. SessionKept(fd)'
      <3> SUFFICES ASSUME NEW u \in Users, session[u] = fd
                   PROVE  Quiet(fd)' /\ (Current(fd, u)' \/ Ending(fd, u)')
        BY <1>2 DEF SessionKept
      <3>1. Quiet(fd) /\ Current(fd, u)
        BY <1>1, <2>2, <2>9, CommandFacts DEF TerminalOK, SessionKept, Ending
      <3>2. mine[c] = u /\ u # NoUser
        BY <1>4, <3>1, ClientsAssumption DEF Current
      <3>3. Quiet(fd)' /\ ~InHand(fd)'
        BY <1>2, <2>4, <2>7, <3>1 DEF Quiet, Noticed, InHand
      <3>4. m.messageType = "LOGOUT" => Ending(fd, u)'
        BY <2>1, <2>6, <2>9, <3>2, <3>3 DEF Ending
      <3>5. m.messageType = "REGIST" => Current(fd, u)'
        BY <1>2, <1>4, <2>1, <2>6, <2>8, <3>2 DEF Current
      <3> QED BY <2>1, <2>9, <3>2, <3>3, <3>4, <3>5
    <2> QED BY <2>10, <2>11, <2>12 DEF TerminalOK
  <1> QED BY <1>3, <1>4

(* A read() that prints what is there.  What it prints of an answer is the *)
(* end of the command.                                                     *)
LEMMA PrintedStep ==
    ASSUME CarefulInv, serving, NEW c \in Clients, Printed(c),
           thread' = thread \/ thread' = [thread EXCEPT ![c] = "fgets"],
           UNCHANGED <<conn, up, owner, receiver, session>>,
           NEW fd \in Fds, owner[fd] # NoClient, fd \notin freed
    PROVE  TerminalOK(fd)'
  <1>1. TypeOK /\ TerminalOK(fd) /\ owner[fd] \in Clients
    BY DEF CarefulInv, DivertInv, TerminalInv, TerminalsOK, TypeOK
  <1>2. UNCHANGED <<conn, up, owner, block, response, session>>
    BY DEF receiver
  <1>3. CASE c # owner[fd]
    <2>1. SameAt(fd)
      BY <1>1, <1>2, <1>3 DEF SameAt, Printed, TypeOK
    <2> QED BY <1>1, <1>2, <2>1, Frame DEF InHand, Noticed
  <1>4. CASE c = owner[fd]
    <2>1. Unread(fd)' = {} /\ Outstanding(fd)' = Outstanding(fd) /\ (AtMostOne(fd) => AtMostOne(fd)')
      <3>1. down'[c] = << >>
        BY DEF Printed, TypeOK, CarefulInv, DivertInv, TerminalInv
      <3> QED BY <1>1, <1>2, <1>4, <3>1, UnreadFacts, SameParts
    <2>2. Noticed(fd)' <=> Noticed(fd)
      BY <1>2 DEF Noticed
    <2>3. thread'[c] = "exit" => thread[c] = "exit"
      BY DEF TypeOK, CarefulInv, DivertInv, TerminalInv
    <2>4. CASE Unread(fd) \cap {"success", "error"} = {}
      <3>1. waiting'[c] = waiting[c] /\ mine'[c] = mine[c]
        BY <1>1, <1>4, <2>4 DEF Printed, Unread, TypeOK
      <3>2. OneCommand(fd)'
        BY <1>1, <1>2, <1>4, <2>1, <3>1 DEF TerminalOK, OneCommand
      <3>3. NameKept(fd)'
        BY <1>1, <1>2, <1>4, <2>1, <2>2, <2>3, <3>1 DEF TerminalOK, NameKept, Quiet
      <3>4. SessionKept(fd)'
        BY <1>1, <1>2, <1>4, <2>1, <2>2, <3>1
           DEF TerminalOK, SessionKept, Quiet, Current, Ending, InHand
      <3> QED BY <3>2, <3>3, <3>4 DEF TerminalOK
    <2>5. CASE Unread(fd) \cap {"success", "error"} # {}
      <3>1. waiting'[c] = "nothing"
        BY <1>1, <1>4, <2>5 DEF Printed, Unread, TypeOK
      <3>2. /\ waiting[c] = "LOGIN" /\ "error" \in Unread(fd) => mine'[c] = NoUser
            /\ ~(waiting[c] = "LOGIN" /\ "error" \in Unread(fd)) => mine'[c] = mine[c]
        BY <1>1, <1>4 DEF Printed, Unread, TypeOK
      <3>3. Outstanding(fd) = NoCommand /\ NoCommand.messageType = "NONE"
        BY <1>1, <2>5 DEF TerminalOK, OneCommand, NoCommand
      <3>4. OneCommand(fd)'
        BY <1>1, <1>2, <2>1, <3>3 DEF TerminalOK, OneCommand
      <3>5. NameKept(fd)'
        BY <1>1, <1>2, <1>4, <2>1, <2>2, <2>3, <3>1, <3>2, <3>3 DEF TerminalOK, NameKept, Quiet
      <3>6. SessionKept(fd)'
        BY <1>1, <1>2, <1>4, <2>1, <2>2, <3>1, <3>2, <3>3
           DEF TerminalOK, SessionKept, Quiet, Current, Ending, InHand
      <3> QED BY <3>4, <3>5, <3>6 DEF TerminalOK
    <2> QED BY <2>4, <2>5
  <1> QED BY <1>3, <1>4

(* The client ends: it has written its LOGOUT, or was told to leave and so *)
(* has no session any more.                                                *)
LEMMA EndsStep ==
    ASSUME CarefulUsers, CarefulInv, NEW c \in Clients, Leave(c) \/ RecvExits(c),
           NEW fd \in Fds, owner[fd] # NoClient, fd \notin freed
    PROVE  TerminalOK(fd)'
  <1>1. serving /\ UNCHANGED <<thread, waiting, mine, up, owner, block, response, session>>
    BY DEF Leave, Gone, RecvExits, Runs, client, receiver
  <1>2. /\ down' = [down EXCEPT ![c] = << >>]
        /\ \E x \in {"fin", "reset"} : conn' = [conn EXCEPT ![c] = x]
    BY DEF Leave, Gone, RecvExits
  <1>3. TypeOK /\ TerminalOK(fd) /\ owner[fd] \in Clients
    BY <1>1 DEF CarefulInv, DivertInv, TerminalInv, TerminalsOK, TypeOK
  <1>4. CASE c # owner[fd]
    <2>1. SameAt(fd)
      BY <1>1, <1>2, <1>3, <1>4 DEF SameAt, TypeOK
    <2> QED BY <1>1, <1>3, <2>1, Frame DEF InHand, Noticed
  <1>5. CASE c = owner[fd]
    <2>1. /\ Unread(fd)' = {}
          /\ Outstanding(fd)' = Outstanding(fd) /\ (AtMostOne(fd) => AtMostOne(fd)')
      BY <1>1, <1>2, <1>3, <1>5, UnreadFacts, SameParts DEF TypeOK
    <2>2. Noticed(fd)' <=> Noticed(fd)
      BY <1>1 DEF Noticed
    <2>3. mine[c] = NoUser \/ "logout" \in Unread(fd)
      <3>1. Leave(c) => mine[c] = NoUser
        BY <1>3, <1>5 DEF Leave, TerminalOK, NameKept
      <3>2. RecvExits(c) => "logout" \in Unread(fd)
        <4>1. RecvExits(c) => down[c] = <<"logout">>
          BY DEF RecvExits
        <4>2. "logout" \in Range(<<"logout">>)
          BY DEF Range
        <4> QED BY <1>5, <4>1, <4>2 DEF Unread
      <3> QED BY <3>1, <3>2
    <2>4. Outstanding(fd).messageType # "LOGIN"
      <3>1. Outstanding(fd).messageType = "LOGIN" =>
                Outstanding(fd).user # NoUser /\ Quiet(fd) /\ mine[c] = Outstanding(fd).user
        BY <1>3, <1>5, OutstandingFacts, CommandFacts DEF TerminalOK, NameKept, NoCommand
      <3> QED BY <2>3, <3>1 DEF Quiet
    <2>5. OneCommand(fd)'
      BY <1>1, <1>3, <1>5, <2>1 DEF TerminalOK, OneCommand
    <2>6. NameKept(fd)'
      BY <1>1, <1>3, <1>5, <2>1, <2>2, <2>4 DEF TerminalOK, NameKept, Quiet
    <2>7. ASSUME NEW u \in Users, session[u] = fd
          PROVE  Quiet(fd) /\ Ending(fd, u)
      BY <1>3, <1>5, <2>3, <2>7, ClientsAssumption DEF TerminalOK, SessionKept, Quiet, Current
    <2>8. SessionKept(fd)'
      BY <1>1, <2>1, <2>2, <2>7 DEF SessionKept, Quiet, Ending, InHand
    <2> QED BY <2>5, <2>6, <2>8 DEF TerminalOK
  <1> QED BY <1>4, <1>5

(* So no step of a client disturbs a terminal, or anything else. *)
LEMMA ClientStep ==
    ASSUME CarefulUsers, CarefulInv, NEW c \in Clients, Client(c)
    PROVE  serving /\ TerminalsOK' /\ FreshOK' /\ SessionsOwned' /\ BlocksKept'
  <1>1. /\ serving /\ conn[c] = "open" /\ ~Die(c)
        /\ UNCHANGED <<owner, block, freed, response, serving, session, ever>>
    BY DEF Client, Command, Exit, Write, CommandRead, Leave, Die, Gone, OutOf, RecvPrints, RecvExits,
           Runs, receiver, history, CarefulUsers
  <1>2. TypeOK /\ FreshOK /\ SessionsOwned /\ BlocksKept
    BY <1>1 DEF CarefulInv, DivertInv, TerminalInv
  <1>3. SessionsOwned' /\ BlocksKept'
    BY <1>1, <1>2 DEF SessionsOwned, UserWas, BlocksKept
  <1>4. ASSUME NEW fd \in Fds, owner[fd] # NoClient, fd \notin freed
        PROVE  TerminalOK(fd)'
    <2>1. ASSUME NEW m \in Commands, Command(c, m) PROVE TerminalOK(fd)'
      BY <1>4, <2>1, WriteStep DEF Command
    <2>2. ASSUME NEW u \in Users, Exit(c, u) PROVE TerminalOK(fd)'
      <3> DEFINE m == [messageType |-> "LOGOUT", user |-> u]
      <3>1. m \in Commands /\ m.messageType = "LOGOUT"
        BY DEF Commands
      <3>2. Write(c, m, "exit")
        BY <2>2 DEF Exit
      <3> HIDE DEF m
      <3> QED BY <1>4, <3>1, <3>2, WriteStep
    <2>3. CASE CommandRead(c)
      <3>1. /\ Printed(c) /\ thread' = [thread EXCEPT ![c] = "fgets"]
            /\ UNCHANGED <<conn, up, owner, receiver, session>>
        BY <2>3 DEF CommandRead
      <3> QED BY <1>1, <1>4, <3>1, PrintedStep
    <2>4. CASE RecvPrints(c)
      <3>1. Printed(c) /\ thread' = thread /\ UNCHANGED <<conn, up, owner, receiver, session>>
        BY <2>4 DEF RecvPrints
      <3> QED BY <1>1, <1>4, <3>1, PrintedStep
    <2>5. CASE Leave(c) \/ RecvExits(c)
      BY <1>4, <2>5, EndsStep
    <2> QED BY <1>1, <2>1, <2>2, <2>3, <2>4, <2>5 DEF Client
  <1>5. TerminalsOK'
    BY <1>1, <1>4 DEF TerminalsOK
  <1>6. ASSUME NEW d \in Clients, conn'[d] = "none" PROVE Fresh(d)'
    <2>1. /\ conn' = conn \/ \E x \in {"fin", "reset"} : conn' = [conn EXCEPT ![c] = x]
      BY DEF Client, Command, Exit, Write, CommandRead, Leave, Die, Gone, RecvPrints, RecvExits
    <2>2. conn[d] = "none" /\ d # c
      BY <1>1, <1>2, <1>6, <2>1 DEF TypeOK
    <2>3. /\ up'[d] = up[d] /\ down'[d] = down[d] /\ thread'[d] = thread[d]
          /\ waiting'[d] = waiting[d] /\ mine'[d] = mine[d]
      <3>1. CASE \E m \in Commands, next \in {"read", "exit"} : Write(c, m, next)
        BY <1>2, <2>2, <3>1 DEF Write, TypeOK
      <3>2. CASE CommandRead(c) \/ RecvPrints(c)
        BY <1>2, <2>2, <3>2 DEF CommandRead, RecvPrints, Printed, TypeOK
      <3>3. CASE Leave(c) \/ RecvExits(c)
        BY <1>2, <2>2, <3>3 DEF Leave, RecvExits, Gone, client, TypeOK
      <3>4. ASSUME NEW u \in Users PROVE [messageType |-> "LOGOUT", user |-> u] \in Commands
        BY DEF Commands
      <3> QED BY <1>1, <3>1, <3>2, <3>3, <3>4 DEF Client, Command, Exit
    <2> QED BY <1>2, <2>2, <2>3 DEF FreshOK, Fresh
  <1>7. FreshOK'
    BY <1>6 DEF FreshOK
  <1> QED BY <1>1, <1>3, <1>5, <1>7

--------------------------------------------------------------------------------
(* The receiver. *)

(* The parts of the invariant, for a receiver that serves. *)
LEMMA Parts ==
    ASSUME CarefulInv, serving
    PROVE  /\ TypeOK /\ OwnersDistinct /\ RequestsOwned
           /\ TerminalsOK /\ FreshOK /\ SessionsOwned /\ BlocksKept
  BY DEF CarefulInv, DivertInv, TerminalInv

(* An idle receiver has no client's command in hand and nobody to notify. *)
LEMMA Idle ==
    ASSUME Waits, NEW fd \in Fds
    PROVE  ~InHand(fd) /\ ~Noticed(fd)
  BY FdsAssumption DEF Waits, NoResponse, InHand, Noticed

(* accept() gives out a descriptor that no row of the table names. *)
LEMMA ConnectStep ==
    ASSUME CarefulInv, NEW c \in Clients, NEW f \in Fds, Connect(c, f)
    PROVE  TerminalsOK' /\ FreshOK' /\ SessionsOwned' /\ BlocksKept'
  <1>1. /\ serving /\ Waits /\ conn[c] = "none" /\ owner[f] = NoClient
        /\ UNCHANGED <<thread, waiting, mine, up, down, block, freed, response, session, ever>>
    BY DEF Connect, Waits, client, receiver, history
  <1>2. /\ TypeOK /\ OwnersDistinct /\ RequestsOwned
        /\ TerminalsOK /\ FreshOK /\ SessionsOwned /\ BlocksKept
    BY <1>1, Parts
  <1>3. /\ owner' = [owner EXCEPT ![f] = c] /\ conn' = [conn EXCEPT ![c] = "open"]
        /\ owner'[f] = c
    BY <1>2 DEF Connect, TypeOK
  <1>4. \A u \in Users : session[u] # f
    BY <1>1, <1>2 DEF SessionsOwned, UserWas
  <1>5. ASSUME NEW fd \in Fds, fd # f, owner[fd] # NoClient, fd \notin freed
        PROVE  TerminalOK(fd)'
    <2>1. owner[fd] \in Clients /\ owner[fd] # c /\ TerminalOK(fd)
      BY <1>1, <1>2, <1>5 DEF TypeOK, OwnersDistinct, TerminalsOK
    <2>2. SameAt(fd)
      BY <1>1, <1>2, <1>3, <1>5, <2>1 DEF SameAt, TypeOK
    <2> QED BY <1>1, <2>1, <2>2, Frame DEF InHand, Noticed
  <1>6. TerminalOK(f)'
    <2>1. block'[f] = NoCommand /\ up'[c] = << >> /\ down'[c] = << >> /\ Fresh(c)
      BY <1>1, <1>2 DEF RequestsOwned, FreshOK, Fresh
    <2>2. Outstanding(f)' = NoCommand /\ AtMostOne(f)'
      BY <1>3, <2>1 DEF Outstanding, AtMostOne
    <2>3. Unread(f)' = {}
      BY <1>3, <2>1 DEF Unread, Range
    <2>4. ~Noticed(f)'
      BY <1>1, Idle DEF Noticed
    <2>5. NoCommand.messageType = "NONE"
      BY DEF NoCommand
    <2>6. thread'[c] = "fgets" /\ waiting'[c] = "nothing"
      BY <1>1, <2>1 DEF Fresh
    <2> QED BY <1>1, <1>3, <1>4, <2>2, <2>3, <2>4, <2>5, <2>6
            DEF TerminalOK, OneCommand, NameKept, SessionKept
  <1>7. TerminalsOK'
    BY <1>1, <1>2, <1>3, <1>5, <1>6 DEF TerminalsOK, TypeOK
  <1>8. FreshOK'
    BY <1>1, <1>2, <1>3 DEF FreshOK, Fresh, TypeOK
  <1>9. SessionsOwned'
    <2>1. response.logoutFd \notin Fds
      BY <1>1, Idle DEF Noticed
    <2>2. ASSUME NEW u \in Users, session[u] \in Fds PROVE UserWas(session[u], u)'
      BY <1>1, <1>2, <1>3, <1>4, <2>2 DEF SessionsOwned, UserWas, TypeOK
    <2> QED BY <1>1, <2>1, <2>2 DEF SessionsOwned
  <1>10. BlocksKept'
    BY <1>1, <1>2 DEF BlocksKept
  <1> QED BY <1>7, <1>8, <1>9, <1>10

(* When the connection has ended and every command on it has been handled, *)
(* no session is left on its descriptor.                                   *)
LEMMA NothingLeft ==
    ASSUME CarefulInv, Waits, NEW f \in Fds, owner[f] # NoClient, block[f] = NoCommand,
           up[owner[f]] = << >>, conn[owner[f]] # "open", NEW u \in Users
    PROVE  session[u] # f
  <1>1. TypeOK /\ TerminalsOK /\ BlocksKept
    BY Parts DEF Waits
  <1>2. owner[f] \in Clients /\ SessionKept(f)
    BY <1>1 DEF TypeOK, BlocksKept, TerminalsOK, TerminalOK
  <1>3. Outstanding(f) = NoCommand
    BY <1>1, <1>2, OutstandingFacts
  <1>4. ~Ending(f, u)
    BY <1>3 DEF Ending, NoCommand
  <1> QED BY <1>2, <1>4 DEF SessionKept, Current

(* dealReadEvent() moves the command into the block, or closes a           *)
(* descriptor that nothing names any more.                                 *)
LEMMA ReadStep ==
    ASSUME CarefulInv, NEW f \in Fds, DealReadEvent(f)
    PROVE  TerminalsOK' /\ FreshOK' /\ SessionsOwned' /\ BlocksKept'
  <1>1. /\ serving /\ Waits /\ owner[f] # NoClient /\ block[f] = NoCommand
        /\ UNCHANGED <<thread, waiting, mine, down, freed, response, session, ever>>
    BY DEF DealReadEvent, Waits, client, history
  <1>2. /\ TypeOK /\ OwnersDistinct /\ RequestsOwned
        /\ TerminalsOK /\ FreshOK /\ SessionsOwned /\ BlocksKept
    BY <1>1, Parts
  <1>3. owner[f] \in Clients /\ f \notin freed /\ conn[owner[f]] # "none"
    BY <1>1, <1>2 DEF TypeOK, BlocksKept, OwnersDistinct
  <1>4. /\ response = NoResponse
        /\ \A fd \in Fds : ~InHand(fd) /\ ~Noticed(fd) /\ ~InHand(fd)' /\ ~Noticed(fd)'
    BY <1>1, Idle DEF Waits, InHand, Noticed
  <1>5. CASE ReadCommand(f)
    <2>1. /\ block' = [block EXCEPT ![f] = Head(up[owner[f]])]
          /\ up' = [up EXCEPT ![owner[f]] = << >>]
          /\ up[owner[f]] # << >> /\ UNCHANGED <<conn, owner>>
      BY <1>5 DEF ReadCommand
    <2>2. PICK x \in Commands : x = Head(up[owner[f]]) /\ x = up[owner[f]][1]
      BY <1>2, <1>3, <2>1 DEF TypeOK
    <2>3. x # NoCommand
      BY ClientsAssumption DEF Commands, NoCommand
    <2>4. block'[f] = x /\ up'[owner[f]] = << >>
      BY <1>2, <1>3, <2>1, <2>2 DEF TypeOK
    <2>5. ASSUME NEW fd \in Fds, owner[fd] # NoClient, fd \notin freed
          PROVE  TerminalOK(fd)'
      <3>1. owner[fd] \in Clients /\ TerminalOK(fd)
        BY <1>2, <2>5 DEF TypeOK, TerminalsOK
      <3>2. CASE fd = f
        <4>1. Outstanding(f) = x /\ Outstanding(f)' = x
          BY <1>1, <2>1, <2>2, <2>3, <2>4 DEF Outstanding
        <4>2. AtMostOne(f)'
          BY <2>1, <2>4 DEF AtMostOne
        <4>3. Unread(f)' = Unread(f)
          BY <1>1, <2>1, SameParts
        <4> QED BY <1>1, <1>4, <2>1, <3>1, <3>2, <4>1, <4>2, <4>3, Kept
      <3>3. CASE fd # f
        <4>1. owner[fd] # owner[f]
          BY <1>2, <2>5, <3>3 DEF OwnersDistinct
        <4>2. SameAt(fd)
          BY <1>1, <1>2, <1>3, <2>1, <3>1, <3>3, <4>1 DEF SameAt, TypeOK
        <4> QED BY <1>1, <1>4, <3>1, <4>2, Frame
      <3> QED BY <3>2, <3>3
    <2>6. TerminalsOK'
      BY <1>1, <2>1, <2>5 DEF TerminalsOK
    <2>7. FreshOK'
      BY <1>1, <1>2, <1>3, <2>1 DEF FreshOK, Fresh, TypeOK
    <2>8. response.logoutFd \notin Fds
      BY <1>4 DEF Noticed
    <2>9. SessionsOwned'
      BY <1>1, <1>2, <2>1, <2>8 DEF SessionsOwned, UserWas
    <2>10. BlocksKept'
      BY <1>1, <1>2, <1>3, <1>4, <2>1 DEF BlocksKept, TypeOK
    <2> QED BY <2>6, <2>7, <2>9, <2>10
  <1>6. CASE ReadEnd(f)
    <2>1. up[owner[f]] = << >> /\ UNCHANGED <<block, up>> /\ conn[owner[f]] # "open"
      BY <1>6 DEF ReadEnd
    <2>2. \A u \in Users : session[u] # f
      BY <1>1, <2>1, NothingLeft
    <2>3. /\ owner' = owner \/ owner' = [owner EXCEPT ![f] = NoClient]
          /\ conn' = conn \/ conn' = [conn EXCEPT ![owner[f]] = "broken"]
      BY <1>6 DEF ReadEnd
    <2>4. ASSUME NEW fd \in Fds, owner'[fd] # NoClient, fd \notin freed
          PROVE  TerminalOK(fd)'
      <3>1. owner'[fd] = owner[fd] /\ owner[fd] \in Clients /\ TerminalOK(fd)
        BY <1>2, <2>3, <2>4 DEF TypeOK, TerminalsOK
      <3>2. conn'[owner[fd]] = "open" <=> conn[owner[fd]] = "open"
        BY <1>2, <1>3, <2>1, <2>3, <3>1 DEF TypeOK
      <3>3. /\ Outstanding(fd)' = Outstanding(fd) /\ AtMostOne(fd)'
            /\ Unread(fd)' = Unread(fd)
        BY <1>1, <2>1, <3>1, SameParts DEF TerminalOK, OneCommand
      <3> QED BY <1>1, <1>4, <2>1, <3>1, <3>2, <3>3, Kept
    <2>5. TerminalsOK'
      BY <1>1, <2>4 DEF TerminalsOK
    <2>6. FreshOK'
      BY <1>1, <1>2, <1>3, <2>1, <2>3 DEF FreshOK, Fresh, TypeOK
    <2>7. response.logoutFd \notin Fds
      BY <1>4 DEF Noticed
    <2>8. ASSUME NEW u \in Users, session[u] \in Fds PROVE UserWas(session[u], u)'
      BY <1>1, <1>2, <2>2, <2>3, <2>8 DEF SessionsOwned, UserWas, TypeOK
    <2>9. SessionsOwned'
      BY <1>1, <2>7, <2>8 DEF SessionsOwned
    <2>10. BlocksKept'
      BY <1>1, <1>2, <2>1 DEF BlocksKept
    <2> QED BY <2>5, <2>6, <2>9, <2>10
  <1> QED BY <1>5, <1>6 DEF DealReadEvent

(* What the login service does with a command when no statement fails: it  *)
(* leaves the sessions alone, gives the user's to f and names the old      *)
(* descriptor, or ends it.                                                 *)
Refuses(f, g, msg) ==
    /\ block[f].messageType # "LOGOUT" /\ (block[f].messageType = "LOGIN" => msg = "error")
    /\ g = -1 /\ UNCHANGED <<session, ever>>
TakesOver(f, g, msg) ==
    LET u == block[f].user IN
    /\ block[f].messageType = "LOGIN" /\ msg = "success" /\ g = session[u]
    /\ session' = [session EXCEPT ![u] = f]
    /\ ever' = [ever EXCEPT ![owner[f]] = @ \cup {u}]
LogsOut(f, g, msg) ==
    /\ block[f].messageType = "LOGOUT" /\ g = -1
    /\ session' = [session EXCEPT ![block[f].user] = -1] /\ UNCHANGED ever

(* These are the outcomes of dealClientMessage(). *)
LEMMA DealEffect ==
    ASSUME CarefulUsers, NEW f \in Fds, DealClientMessage(f)
    PROVE  \E g \in Fds \cup {-1}, msg \in {"success", "error"} :
              /\ response' = [to |-> f, logoutFd |-> g, msg |-> msg]
              /\ Refuses(f, g, msg) \/ TakesOver(f, g, msg) \/ LogsOut(f, g, msg)
  <1> DEFINE r == GetServiceMessage(GetNeedSendMessage(block[f], f))
  <1>1. PICK g \in Fds \cup {-1}, msg \in {"success", "error"} :
            /\ Answered(r, g, msg)
            /\ response' = [to |-> f, logoutFd |-> g, msg |-> msg]
    BY DEF DealClientMessage
  <1>2. /\ r.operateType = block[f].messageType /\ r.user = block[f].user /\ r.clientFd = f
    BY DEF GetServiceMessage, GetNeedSendMessage
  <1> HIDE DEF r
  <1>3. CASE r.operateType = "LOGIN" /\ ProcessLogin(r, g, msg)
    BY <1>1, <1>2, <1>3
       DEF CarefulUsers, ProcessLogin, Enters, Stays, history, Refuses, TakesOver
  <1>4. CASE r.operateType = "LOGOUT" /\ g = -1 /\ ProcessLogout(r, msg)
    BY <1>1, <1>2, <1>4 DEF CarefulUsers, ProcessLogout, LogsOut
  <1>5. CASE r.operateType = "REGIST" /\ g = -1 /\ Stays
    BY <1>1, <1>2, <1>5 DEF Stays, history, Refuses
  <1> QED BY <1>1, <1>3, <1>4, <1>5 DEF Answered

(* The terminal whose command it is. *)
LEMMA DealOwn ==
    ASSUME CarefulInv, Waits, NEW f \in Fds, block[f] # NoCommand, f \notin freed,
           UNCHANGED <<conn, client, up, down, owner, block>>,
           NEW g \in Fds \cup {-1}, NEW msg \in {"success", "error"},
           response' = [to |-> f, logoutFd |-> g, msg |-> msg],
           Refuses(f, g, msg) \/ TakesOver(f, g, msg) \/ LogsOut(f, g, msg)
    PROVE  TerminalOK(f)'
  <1>1. TypeOK /\ RequestsOwned /\ TerminalsOK
    BY Parts DEF Waits
  <1>2. owner[f] \in Clients /\ TerminalOK(f)
    BY <1>1 DEF TypeOK, RequestsOwned, TerminalsOK
  <1> DEFINE c == owner[f]
             u == block[f].user
  <1>3. UNCHANGED <<conn, thread, waiting, mine, up, down, owner, block>>
    BY DEF client
  <1>4. ~InHand(f) /\ ~Noticed(f)
    BY Idle
  <1>5. /\ Outstanding(f) = block[f] /\ Outstanding(f)' = Outstanding(f) /\ AtMostOne(f)'
        /\ Unread(f)' = Unread(f) /\ Unread(f) \subseteq {"logout"}
        /\ waiting[c] = block[f].messageType
    BY <1>1, <1>2, <1>3, OutstandingFacts, SameParts DEF TerminalOK, OneCommand
  <1>6. /\ block[f].messageType \in {"REGIST", "LOGIN", "LOGOUT"}
        /\ u \in Users /\ u # NoUser
    BY <1>1, CommandFacts DEF TypeOK
  <1>7. InHand(f)' /\ (Noticed(f)' <=> g = f) /\ response'.msg = msg
    BY DEF InHand, Noticed
  <1>8. block[f].messageType = "LOGIN" => \A v \in Users : session[v] # f
    <2>1. ASSUME block[f].messageType = "LOGIN", NEW v \in Users, session[v] = f PROVE FALSE
      <3>1. ~Current(f, v)
        BY <1>4, <1>5, <2>1 DEF Current
      <3>2. ~Ending(f, v)
        BY <1>5, <2>1 DEF Ending
      <3> QED BY <1>2, <2>1, <3>1, <3>2 DEF TerminalOK, SessionKept
    <2> QED BY <2>1
  <1>9. block[f].messageType = "LOGOUT" => \A v \in Users : session[v] = f => v = u
    <2>1. ASSUME block[f].messageType = "LOGOUT", NEW v \in Users, session[v] = f
          PROVE  v = u
      <3>1. ~Current(f, v)
        BY <1>2, <1>5, <2>1, ClientsAssumption DEF Current, TerminalOK, NameKept
      <3>2. Ending(f, v)
        BY <1>2, <2>1, <3>1 DEF TerminalOK, SessionKept
      <3> QED BY <1>5, <3>2 DEF Ending
    <2> QED BY <2>1
  <1>10. g # f
    BY <1>6, <1>8, FdsAssumption DEF Refuses, TakesOver, LogsOut
  <1>11. OneCommand(f)'
    BY <1>2, <1>3, <1>5 DEF TerminalOK, OneCommand
  <1>12. NameKept(f)'
    BY <1>2, <1>3, <1>4, <1>5, <1>7, <1>10 DEF TerminalOK, NameKept, Quiet
  <1>13. ASSUME NEW v \in Users, session'[v] = f
         PROVE  Quiet(f)' /\ Current(f, v)'
    <2>1. CASE Refuses(f, g, msg)
      <3>1. session[v] = f /\ block[f].messageType = "REGIST"
        BY <1>6, <1>8, <1>13, <2>1 DEF Refuses
      <3>a. ~Ending(f, v)
        BY <1>5, <3>1 DEF Ending
      <3>2. Quiet(f) /\ Current(f, v)
        BY <1>2, <3>1, <3>a DEF TerminalOK, SessionKept
      <3> QED BY <1>3, <1>5, <1>7, <1>10, <3>1, <3>2 DEF Quiet, Current
    <2>2. CASE TakesOver(f, g, msg)
      <3>1. v = u
        BY <1>1, <1>6, <1>8, <1>13, <2>2 DEF TakesOver, TypeOK
      <3>2. conn[c] = "open" /\ Quiet(f) /\ mine[c] = u
        BY <1>2, <1>5, <2>2 DEF TakesOver, TerminalOK, NameKept
      <3> QED BY <1>3, <1>5, <1>7, <1>10, <2>2, <3>1, <3>2 DEF Quiet, Current, TakesOver
    <2>3. CASE LogsOut(f, g, msg)
      <3>1. f # -1
        BY FdsAssumption
      <3>2. session[v] = f /\ v # u
        BY <1>1, <1>6, <1>13, <2>3, <3>1 DEF LogsOut, TypeOK
      <3> QED BY <1>9, <2>3, <3>2 DEF LogsOut
    <2> QED BY <2>1, <2>2, <2>3
  <1>14. SessionKept(f)'
    BY <1>13 DEF SessionKept
  <1> QED BY <1>11, <1>12, <1>14 DEF TerminalOK

(* The other terminals: the one that the login replaces is to be told, and *)
(* has no session any more.                                                *)
LEMMA DealOther ==
    ASSUME CarefulInv, Waits, NEW f \in Fds, block[f] # NoCommand,
           UNCHANGED <<conn, client, up, down, owner, block>>,
           NEW g \in Fds \cup {-1}, NEW msg \in {"success", "error"},
           response' = [to |-> f, logoutFd |-> g, msg |-> msg],
           Refuses(f, g, msg) \/ TakesOver(f, g, msg) \/ LogsOut(f, g, msg),
           NEW fd \in Fds, fd # f, owner[fd] # NoClient, fd \notin freed
    PROVE  TerminalOK(fd)'
  <1>1. TypeOK /\ TerminalsOK
    BY Parts DEF Waits
  <1>2. owner[fd] \in Clients /\ TerminalOK(fd)
    BY <1>1 DEF TypeOK, TerminalsOK
  <1> DEFINE u == block[f].user
  <1>3. UNCHANGED <<conn, thread, waiting, mine, up, down, owner, block>>
    BY DEF client
  <1>4. ~InHand(fd) /\ ~InHand(fd)' /\ (Noticed(fd)' <=> g = fd)
    BY Idle DEF InHand, Noticed
  <1>5. u \in Users
    BY <1>1, CommandFacts DEF TypeOK
  <1>6. fd # -1
    BY FdsAssumption
  <1>7. \A v \in Users : session'[v] = fd => session[v] = fd
    BY <1>1, <1>5, <1>6 DEF Refuses, TakesOver, LogsOut, TypeOK
  <1>8. CASE g # fd
    BY <1>2, <1>3, <1>4, <1>7, <1>8, Frame DEF SameAt
  <1>9. CASE g = fd
    <2>1. session[u] = fd /\ TakesOver(f, g, msg)
      BY <1>6, <1>9 DEF Refuses, TakesOver, LogsOut
    <2>2. /\ Outstanding(fd)' = Outstanding(fd) /\ AtMostOne(fd)'
          /\ Unread(fd)' = Unread(fd)
      BY <1>2, <1>3, SameParts DEF TerminalOK, OneCommand
    <2>3. Quiet(fd) /\ (Current(fd, u) \/ Ending(fd, u))
      BY <1>2, <1>5, <2>1 DEF TerminalOK, SessionKept
    <2>4. /\ Outstanding(fd).messageType # "LOGIN"
          /\ mine[owner[fd]] # NoUser \/ Outstanding(fd).messageType = "LOGOUT"
          /\ ~(waiting[owner[fd]] = "LOGIN" /\ "error" \in Unread(fd))
      <3>1. CASE Current(fd, u)
        BY <1>4, <1>5, <3>1, ClientsAssumption DEF Current
      <3>2. CASE Ending(fd, u)
        <4>1. Outstanding(fd) # NoCommand /\ Outstanding(fd).messageType = "LOGOUT"
          BY <3>2 DEF Ending, NoCommand
        <4> QED BY <1>2, <4>1 DEF TerminalOK, OneCommand
      <3> QED BY <2>3, <3>1, <3>2
    <2>5. OneCommand(fd)'
      BY <1>2, <1>3, <2>2 DEF TerminalOK, OneCommand
    <2>6. NameKept(fd)'
      BY <1>2, <1>3, <2>2, <2>4 DEF TerminalOK, NameKept
    <2>7. ASSUME NEW v \in Users, session'[v] = fd PROVE FALSE
      <3>1. session[v] = fd /\ v # u
        BY <1>1, <1>5, <1>7, <2>1, <2>7 DEF TakesOver, TypeOK
      <3>2. Current(fd, v) \/ Ending(fd, v)
        BY <1>2, <3>1 DEF TerminalOK, SessionKept
      <3>3. ASSUME NEW x \in Users, NEW y \in Users, Current(fd, x), Ending(fd, y) PROVE FALSE
        <4>1. waiting[owner[fd]] = "LOGOUT"
          BY <1>2, <3>3 DEF Ending, NoCommand, TerminalOK, OneCommand
        <4> QED BY <1>2, <3>3, <4>1, ClientsAssumption DEF Current, TerminalOK, NameKept
      <3>4. Current(fd, u) /\ Current(fd, v) => FALSE
        BY <3>1 DEF Current
      <3>5. Ending(fd, u) /\ Ending(fd, v) => FALSE
        <4>1. [messageType |-> "LOGOUT", user |-> u].user # [messageType |-> "LOGOUT", user |-> v].user
          BY <3>1
        <4> QED BY <4>1 DEF Ending
      <3> QED BY <1>5, <2>3, <3>2, <3>3, <3>4, <3>5
    <2>8. SessionKept(fd)'
      BY <2>7 DEF SessionKept
    <2> QED BY <2>5, <2>6, <2>8 DEF TerminalOK
  <1> QED BY <1>8, <1>9

(* dealClientMessage() as a whole. *)
LEMMA DealStep ==
    ASSUME CarefulUsers, CarefulInv, NEW f \in Fds, DealClientMessage(f)
    PROVE  TerminalsOK' /\ FreshOK' /\ SessionsOwned' /\ BlocksKept'
  <1>1. /\ serving /\ Waits /\ block[f] # NoCommand
        /\ UNCHANGED <<conn, client, up, down, owner, block>> /\ UNCHANGED freed
    BY DEF DealClientMessage, Waits
  <1>2. /\ TypeOK /\ OwnersDistinct /\ RequestsOwned
        /\ TerminalsOK /\ FreshOK /\ SessionsOwned /\ BlocksKept
    BY <1>1, Parts
  <1>3. PICK g \in Fds \cup {-1}, msg \in {"success", "error"} :
            /\ response' = [to |-> f, logoutFd |-> g, msg |-> msg]
            /\ Refuses(f, g, msg) \/ TakesOver(f, g, msg) \/ LogsOut(f, g, msg)
    BY DealEffect
  <1>4. ASSUME NEW fd \in Fds, owner[fd] # NoClient, fd \notin freed PROVE TerminalOK(fd)'
    <2>1. CASE fd = f
      BY <1>1, <1>3, <1>4, <2>1, DealOwn
    <2>2. CASE fd # f
      BY <1>1, <1>3, <1>4, <2>2, DealOther
    <2> QED BY <2>1, <2>2
  <1>5. TerminalsOK'
    BY <1>1, <1>4 DEF TerminalsOK
  <1>6. FreshOK'
    BY <1>1, <1>2 DEF FreshOK, Fresh, client
  <1>7. /\ owner[f] \in Clients /\ block[f].user \in Users
    BY <1>1, <1>2, CommandFacts DEF RequestsOwned, TypeOK
  <1>8. \A d \in Clients : ever[d] \subseteq ever'[d]
    BY <1>2, <1>3, <1>7 DEF Refuses, TakesOver, LogsOut, TypeOK
  <1>9. ASSUME NEW u \in Users, NEW fd \in Fds, session'[u] = fd PROVE UserWas(fd, u)'
    <2>1. CASE session[u] = fd
      BY <1>1, <1>2, <1>8, <2>1 DEF SessionsOwned, UserWas, TypeOK
    <2>2. CASE session[u] # fd
      <3>1. fd # -1
        BY FdsAssumption
      <3>2. TakesOver(f, g, msg) /\ u = block[f].user /\ fd = f
        BY <1>2, <1>3, <1>7, <1>9, <2>2, <3>1 DEF Refuses, TakesOver, LogsOut, TypeOK
      <3>3. u \in ever'[owner[f]]
        BY <1>2, <1>7, <3>2 DEF TakesOver, TypeOK
      <3> QED BY <1>1, <1>7, <3>2, <3>3, ClientsAssumption DEF UserWas
    <2> QED BY <2>1, <2>2
  <1>10. ASSUME g \in Fds PROVE UserWas(g, block[f].user)'
    <2>1. g # -1
      BY <1>10, FdsAssumption
    <2>2. g = session[block[f].user]
      BY <1>3, <2>1 DEF Refuses, TakesOver, LogsOut
    <2> QED BY <1>1, <1>2, <1>7, <1>8, <1>10, <2>2 DEF SessionsOwned, UserWas, TypeOK
  <1>11. SessionsOwned'
    <2>1. response'.logoutFd = g /\ response'.to = f
      BY <1>3
    <2> QED BY <1>9, <1>10, <2>1 DEF SessionsOwned, UserWas
  <1>12. BlocksKept'
    BY <1>1, <1>2, <1>3 DEF BlocksKept
  <1> QED BY <1>5, <1>6, <1>11, <1>12

(* A write() to f changes the connection of its owner alone. *)
LEMMA WriteEffect ==
    ASSUME TypeOK, NEW f \in Fds, owner[f] \in Clients, owner' = owner,
           NEW x \in {"logout", "success", "error"}, Written(f, x)
    PROVE  /\ \A d \in Clients : d # owner[f] => conn'[d] = conn[d] /\ down'[d] = down[d]
           /\ conn'[owner[f]] = "open" <=> conn[owner[f]] = "open"
           /\ conn'[owner[f]] # "none"
           /\ Unread(f)' = Unread(f) \cup {x} \/ Unread(f)' = Unread(f)
           /\ conn[owner[f]] = "open" => Unread(f)' = Unread(f) \cup {x}
  <1>1. CASE conn[owner[f]] = "open" /\ conn' = conn
             /\ down' = [down EXCEPT ![owner[f]] = Append(@, x)]
    <2>1. down'[owner[f]] = Append(down[owner[f]], x)
      BY <1>1 DEF TypeOK
    <2>2. Unread(f)' = Unread(f) \cup {x}
      BY <2>1, UnreadFacts
    <2>3. \A d \in Clients : d # owner[f] => down'[d] = down[d]
      BY <1>1 DEF TypeOK
    <2> QED BY <1>1, <2>2, <2>3
  <1>2. CASE conn[owner[f]] = "fin" /\ down' = down
             /\ conn' = [conn EXCEPT ![owner[f]] = "broken"]
    <2>1. Unread(f)' = Unread(f)
      BY <1>2, SameParts
    <2> QED BY <1>2, <2>1 DEF TypeOK
  <1> QED BY <1>1, <1>2 DEF Written

(* A write() that fails finds the connection ended already. *)
LEMMA FailEffect ==
    ASSUME TypeOK, NEW f \in Fds, Peer(f) \in {"closed", "reset"}, Failed(f)
    PROVE  /\ down' = down
           /\ \A d \in Clients : /\ conn'[d] = "open" <=> conn[d] = "open"
                                 /\ conn'[d] = "none" => conn[d] = "none"
  <1>1. down' = down /\ conn \in [Clients -> {"none", "open", "fin", "reset", "broken", "lost"}]
    BY DEF Failed, TypeOK
  <1>2. ASSUME NEW d \in Clients
        PROVE  conn'[d] = conn[d] \/ (conn[d] = "reset" /\ conn'[d] = "broken")
    <2>1. conn'[d] = IF d = owner[f] THEN "broken" ELSE conn[d]
      BY DEF Failed
    <2>2. d = owner[f] => conn[d] = "reset"
      BY <1>1, ClientsAssumption DEF Peer
    <2> QED BY <2>1, <2>2
  <1> QED BY <1>1, <1>2

(* The message for the client that asked: the command is answered. *)
LEMMA MessageStep ==
    ASSUME CarefulInv, NoticeMessage, serving'
    PROVE  TerminalsOK' /\ FreshOK' /\ SessionsOwned' /\ BlocksKept'
  <1>1. /\ serving /\ response # NoResponse /\ response.logoutFd <= 0
        /\ UNCHANGED <<thread, waiting, mine, up, owner, session>>
    BY DEF NoticeMessage, client
  <1>2. /\ TypeOK /\ OwnersDistinct /\ RequestsOwned
        /\ TerminalsOK /\ FreshOK /\ SessionsOwned /\ BlocksKept
    BY <1>1, Parts
  <1>3. PICK f \in Fds : f = response.to
    BY <1>1, <1>2 DEF RequestsOwned
  <1>4. PICK x \in {"success", "error"} : x = response.msg
    BY <1>1, <1>2 DEF RequestsOwned, TypeOK
  <1>5. /\ owner[f] \in Clients /\ block[f] # NoCommand /\ conn[owner[f]] # "none"
    BY <1>1, <1>2, <1>3 DEF RequestsOwned, BlocksKept, TypeOK, OwnersDistinct
  <1>6. /\ response' = NoResponse /\ f \notin freed /\ ever' = ever
        /\ \/ Written(f, x) /\ freed' = freed /\ block' = [block EXCEPT ![f] = NoCommand]
           \/ Peer(f) \in {"closed", "reset"} /\ Failed(f) /\ freed' = freed \cup {f} /\ block' = block
    BY <1>3, <1>4 DEF NoticeMessage, HandlerReturns, SigPipe, history
  <1>7. \A fd \in Fds : /\ InHand(fd) <=> fd = f
                        /\ ~InHand(fd)' /\ ~Noticed(fd)'
    BY <1>3, <1>6, FdsAssumption DEF InHand, Noticed, NoResponse
  <1>8. /\ \A d \in Clients : d # owner[f] => down'[d] = down[d]
        /\ \A d \in Clients : d # owner[f] => (conn'[d] = "open" <=> conn[d] = "open")
        /\ \A d \in Clients : conn'[d] = "none" => conn[d] = "none" /\ d # owner[f]
    BY <1>1, <1>2, <1>5, <1>6, WriteEffect, FailEffect
  <1>9. ASSUME NEW fd \in Fds, fd # f, owner[fd] # NoClient, fd \notin freed
        PROVE  TerminalOK(fd)'
    <2>1. owner[fd] \in Clients /\ owner[fd] # owner[f] /\ TerminalOK(fd) /\ block'[fd] = block[fd]
      BY <1>2, <1>6, <1>9 DEF TypeOK, OwnersDistinct, TerminalsOK
    <2>2. /\ Outstanding(fd)' = Outstanding(fd) /\ AtMostOne(fd)'
          /\ Unread(fd)' = Unread(fd)
      BY <1>1, <1>8, <2>1, SameParts DEF TerminalOK, OneCommand
    <2> QED BY <1>1, <1>7, <1>8, <1>9, <2>1, <2>2, Kept
  <1>10. ASSUME Written(f, x), block' = [block EXCEPT ![f] = NoCommand] PROVE TerminalOK(f)'
    <2> DEFINE c == owner[f]
    <2>1. TerminalOK(f)
      BY <1>2, <1>5, <1>6, ClientsAssumption DEF TerminalsOK
    <2>2. /\ Outstanding(f) = block[f] /\ waiting[c] = block[f].messageType /\ up[c] = << >>
          /\ Unread(f) \subseteq {"logout"}
      BY <1>2, <1>5, <2>1, OutstandingFacts DEF TerminalOK, OneCommand, AtMostOne
    <2>3. block[f].messageType \in {"REGIST", "LOGIN", "LOGOUT"}
      BY <1>2, <1>5, CommandFacts DEF TypeOK
    <2>4. block'[f] = NoCommand
      BY <1>2, <1>10 DEF TypeOK
    <2>5. Outstanding(f)' = NoCommand /\ AtMostOne(f)' /\ NoCommand.messageType = "NONE"
      BY <1>1, <2>2, <2>4 DEF Outstanding, AtMostOne, NoCommand
    <2>6. Unread(f)' \subseteq Unread(f) \cup {x} /\ (conn'[c] = "open" <=> conn[c] = "open")
      BY <1>1, <1>2, <1>5, <1>10, WriteEffect
    <2>7. OneCommand(f)'
      BY <1>1, <2>2, <2>3, <2>5 DEF OneCommand
    <2>8. NameKept(f)'
      BY <1>1, <1>7, <2>1, <2>2, <2>5, <2>6 DEF TerminalOK, NameKept, Quiet
    <2>9. ASSUME NEW u \in Users, session[u] = f PROVE Quiet(f)' /\ Current(f, u)'
      <3>1. Quiet(f) /\ Current(f, u)
        BY <1>7, <2>1, <2>9 DEF TerminalOK, SessionKept, Ending
      <3>2. waiting[c] = "LOGIN" => x = "success"
        BY <1>4, <2>2, <3>1 DEF Current
      <3> QED BY <1>1, <1>7, <2>2, <2>5, <2>6, <3>1, <3>2 DEF Quiet, Current
    <2>10. SessionKept(f)'
      BY <1>1, <2>9 DEF SessionKept
    <2> QED BY <2>7, <2>8, <2>10 DEF TerminalOK
  <1>11. TerminalsOK'
    BY <1>1, <1>6, <1>9, <1>10 DEF TerminalsOK
  <1>12. FreshOK'
    BY <1>1, <1>2, <1>8 DEF FreshOK, Fresh
  <1>13. SessionsOwned'
    <2>1. response'.logoutFd \notin Fds
      BY <1>7 DEF Noticed
    <2> QED BY <1>1, <1>2, <1>6, <2>1 DEF SessionsOwned, UserWas
  <1>14. BlocksKept'
    BY <1>2, <1>5, <1>6 DEF BlocksKept, TypeOK
  <1> QED BY <1>11, <1>12, <1>13, <1>14

(* The notice: its reader is told, and a session it had is another's now.  *)
(* If it cannot be written, the block of the one that logs in is freed.    *)
LEMMA NoticeStep ==
    ASSUME CarefulInv, NoticeLogout, serving'
    PROVE  TerminalsOK' /\ FreshOK' /\ SessionsOwned' /\ BlocksKept'
  <1>1. /\ serving /\ response.logoutFd > 0
        /\ UNCHANGED <<thread, waiting, mine, up, owner, session>>
    BY DEF NoticeLogout, client
  <1>2. /\ TypeOK /\ OwnersDistinct /\ RequestsOwned
        /\ TerminalsOK /\ FreshOK /\ SessionsOwned /\ BlocksKept
    BY <1>1, Parts
  <1>3. PICK g \in Fds : g = response.logoutFd
    BY <1>1, <1>2 DEF TypeOK
  <1>4. response # NoResponse
    BY <1>1 DEF NoResponse
  <1>5. PICK f \in Fds : f = response.to
    BY <1>2, <1>4 DEF RequestsOwned
  <1>6. /\ owner[g] \in Clients /\ conn[owner[g]] # "none" /\ block[f] # NoCommand
    BY <1>2, <1>3, <1>4, <1>5 DEF SessionsOwned, UserWas, BlocksKept, TypeOK, OwnersDistinct
  <1>7. ever' = ever /\ block' = block
    BY DEF NoticeLogout, HandlerReturns, SigPipe, OutOf, history
  <1>8. CASE Written(g, "logout") /\ response' = [response EXCEPT !.logoutFd = -1] /\ freed' = freed
    <2>1. /\ response'.to = response.to /\ response'.msg = response.msg /\ response'.logoutFd = -1
      BY <1>2, <1>8 DEF TypeOK
    <2>2. /\ \A d \in Clients : d # owner[g] => conn'[d] = conn[d] /\ down'[d] = down[d]
          /\ conn'[owner[g]] = "open" <=> conn[owner[g]] = "open"
          /\ conn'[owner[g]] # "none"
          /\ Unread(g)' = Unread(g) \cup {"logout"} \/ Unread(g)' = Unread(g)
      BY <1>1, <1>2, <1>6, <1>8, WriteEffect
    <2>3. \A fd \in Fds : ~Noticed(fd)' /\ (InHand(fd)' <=> InHand(fd))
      BY <2>1, FdsAssumption DEF Noticed, InHand
    <2>4. ASSUME NEW fd \in Fds, fd # g, owner[fd] # NoClient, fd \notin freed
          PROVE  TerminalOK(fd)'
      <3>1. owner[fd] \in Clients /\ owner[fd] # owner[g] /\ TerminalOK(fd)
        BY <1>2, <2>4 DEF TypeOK, OwnersDistinct, TerminalsOK
      <3>2. SameAt(fd)
        BY <1>1, <1>7, <2>2, <3>1 DEF SameAt
      <3> QED BY <1>1, <2>1, <2>3, <3>1, <3>2, Frame
    <2>5. ASSUME g \notin freed PROVE TerminalOK(g)'
      <3> DEFINE c == owner[g]
      <3>1. TerminalOK(g) /\ Noticed(g)
        BY <1>2, <1>3, <1>6, <2>5, ClientsAssumption DEF TerminalsOK, Noticed
      <3>2. Outstanding(g)' = Outstanding(g) /\ AtMostOne(g)'
        BY <1>1, <1>7, <3>1, SameParts DEF TerminalOK, OneCommand
      <3>3. /\ Outstanding(g).messageType # "LOGIN"
            /\ ~(waiting[c] = "LOGIN" /\ "error" \in Unread(g))
            /\ \A u \in Users : session[u] # g
        BY <3>1 DEF TerminalOK, NameKept, SessionKept, Quiet
      <3>4. mine[c] # NoUser \/ waiting[c] = "LOGOUT"
        <4>1. Outstanding(g).messageType = "LOGOUT" => waiting[c] = "LOGOUT"
          BY <3>1 DEF TerminalOK, OneCommand, NoCommand
        <4> QED BY <3>1, <4>1 DEF TerminalOK, NameKept
      <3>5. OneCommand(g)'
        BY <1>1, <2>2, <3>1, <3>2 DEF TerminalOK, OneCommand
      <3>6. NameKept(g)'
        BY <1>1, <2>2, <2>3, <3>1, <3>2, <3>3, <3>4 DEF TerminalOK, NameKept
      <3>7. SessionKept(g)'
        BY <1>1, <3>3 DEF SessionKept
      <3> QED BY <3>5, <3>6, <3>7 DEF TerminalOK
    <2>6. TerminalsOK'
      BY <1>1, <1>8, <2>4, <2>5 DEF TerminalsOK
    <2>7. FreshOK'
      BY <1>1, <1>2, <2>2 DEF FreshOK, Fresh
    <2>8. response'.logoutFd \notin Fds
      BY <2>1, FdsAssumption
    <2>9. SessionsOwned'
      BY <1>1, <1>2, <1>7, <2>8 DEF SessionsOwned, UserWas
    <2>10. BlocksKept'
      BY <1>2, <1>5, <1>6, <1>7, <1>8, <2>1 DEF BlocksKept
    <2> QED BY <2>6, <2>7, <2>9, <2>10
  <1>9. CASE Peer(g) \in {"closed", "reset"} /\ Failed(g)
              /\ response' = NoResponse /\ freed' = freed \cup {f}
    <2>1. /\ down' = down
          /\ \A d \in Clients : /\ conn'[d] = "open" <=> conn[d] = "open"
                                /\ conn'[d] = "none" => conn[d] = "none"
      BY <1>2, <1>9, FailEffect
    <2>2. \A fd \in Fds : ~Noticed(fd)' /\ ~InHand(fd)' /\ (InHand(fd) <=> fd = f)
      BY <1>5, <1>9, FdsAssumption DEF Noticed, InHand, NoResponse
    <2>3. ASSUME NEW fd \in Fds, fd # f, owner[fd] # NoClient, fd \notin freed
          PROVE  TerminalOK(fd)'
      <3>1. owner[fd] \in Clients /\ TerminalOK(fd)
        BY <1>2, <2>3 DEF TypeOK, TerminalsOK
      <3>2. /\ Outstanding(fd)' = Outstanding(fd) /\ AtMostOne(fd)'
            /\ Unread(fd)' = Unread(fd)
        BY <1>1, <1>7, <2>1, <3>1, SameParts DEF TerminalOK, OneCommand
      <3> QED BY <1>1, <2>1, <2>2, <2>3, <3>1, <3>2, Kept
    <2>4. TerminalsOK'
      BY <1>1, <1>9, <2>3 DEF TerminalsOK
    <2>5. FreshOK'
      BY <1>1, <1>2, <2>1 DEF FreshOK, Fresh
    <2>6. response'.logoutFd \notin Fds
      BY <2>2 DEF Noticed
    <2>7. SessionsOwned'
      BY <1>1, <1>2, <1>7, <2>6 DEF SessionsOwned, UserWas
    <2>8. BlocksKept'
      BY <1>2, <1>6, <1>7, <1>9 DEF BlocksKept
    <2> QED BY <2>4, <2>5, <2>7, <2>8
  <1> QED BY <1>3, <1>5, <1>8, <1>9 DEF NoticeLogout, HandlerReturns, SigPipe

--------------------------------------------------------------------------------
(* The theorems. *)

(* Nobody is connected initially. *)
LEMMA CarefulInit == Init => CarefulInv
  <1> SUFFICES ASSUME Init PROVE CarefulInv
    OBVIOUS
  <1>1. DivertInv
    BY DivertInvStep
  <1>2. TerminalsOK /\ FreshOK
    BY DEF Init, TerminalsOK, FreshOK, Fresh
  <1>3. SessionsOwned /\ BlocksKept
    BY FdsAssumption DEF Init, SessionsOwned, BlocksKept, NoResponse
  <1> QED BY <1>1, <1>2, <1>3 DEF CarefulInv

(* Every step keeps the invariant. *)
LEMMA CarefulNext ==
    ASSUME CarefulUsers, CarefulInv, [Next]_vars PROVE CarefulInv'
  <1>1. DivertInv'
    BY DivertInvStep DEF CarefulInv
  <1> SUFFICES ASSUME serving' PROVE TerminalsOK' /\ FreshOK' /\ SessionsOwned' /\ BlocksKept'
    BY <1>1 DEF CarefulInv
  <1>2. ASSUME NEW c \in Clients, Client(c)
        PROVE  TerminalsOK' /\ FreshOK' /\ SessionsOwned' /\ BlocksKept'
    BY <1>2, ClientStep
  <1>3. ~Restart /\ \A fd \in Fds : ~ServiceAborts(fd) /\ ~UseKills(fd)
    BY DEF Restart, ServiceAborts, UseKills, CarefulUsers
  <1>4. CASE Receiver
    BY <1>3, <1>4, ConnectStep, ReadStep, DealStep, NoticeStep, MessageStep DEF Receiver
  <1>5. CASE UNCHANGED vars
    <2>1. serving /\ TerminalsOK /\ FreshOK /\ SessionsOwned /\ BlocksKept
      BY <1>5 DEF vars, CarefulInv
    <2>2. ASSUME NEW fd \in Fds, owner[fd] # NoClient, fd \notin freed PROVE TerminalOK(fd)'
      BY <1>5, <2>1, <2>2, Frame DEF vars, SameAt, TerminalsOK, InHand, Noticed
    <2>3. TerminalsOK'
      BY <1>5, <2>2 DEF vars, TerminalsOK
    <2> QED BY <1>5, <2>1, <2>3 DEF vars, FreshOK, Fresh, SessionsOwned, UserWas, BlocksKept
  <1> QED BY <1>2, <1>4, <1>5 DEF Next

(* Among careful users a session is on the descriptor of the terminal its  *)
(* user is at, or a LOGOUT is on the way (userLoginImpl.cpp, loginer.cpp   *)
(* and dealServiceResponse() together), whoever is told to leave meanwhile *)
(* and whatever a freed block does.                                        *)
THEOREM CarefulInvariance == CarefulUsers => (Spec => []CarefulInv)
  <1> SUFFICES ASSUME CarefulUsers PROVE Spec => []CarefulInv
    OBVIOUS
  <1>1. CarefulInv /\ [Next]_vars => CarefulInv'
    BY CarefulNext
  <1> QED BY <1>1, CarefulInit, PTL DEF Spec

(* Careful users: "Your account logged in on another device" reaches only  *)
(* terminals where that user has logged in (messageReceiver.cpp:132).      *)
THEOREM NoticeOnlyToUserHolds == CarefulUsers => (Spec => NoticeOnlyToUser)
  <1> SUFFICES ASSUME CarefulUsers PROVE Spec => NoticeOnlyToUser
    OBVIOUS
  <1>1. ASSUME CarefulInv, [Next]_vars, NEW c \in Clients,
               Len(down'[c]) > Len(down[c]), down'[c][Len(down'[c])] = "logout"
        PROVE  block[response.to].user \in ever[c]
    <2>1. NoticeLogout /\ c = owner[response.logoutFd]
      BY <1>1, OnlyNoticeLogout DEF CarefulInv
    <2>2. serving /\ response.logoutFd > 0
      BY <2>1 DEF NoticeLogout
    <2>3. TypeOK /\ SessionsOwned
      BY <1>1, <2>2, Parts
    <2> QED BY <2>1, <2>2, <2>3 DEF TypeOK, SessionsOwned, UserWas
  <1>2. CarefulInv /\ [Next]_vars =>
          [\A c \in Clients :
              Len(down'[c]) > Len(down[c]) /\ down'[c][Len(down'[c])] = "logout"
                  => block[response.to].user \in ever[c]]_vars
    BY <1>1
  <1> QED BY <1>2, CarefulInvariance, PTL DEF Spec, NoticeOnlyToUser

(* Careful users: a descriptor is closed (daemon.cpp, dealReadEvent()) only *)
(* when no session is left on it, so the next client to get it is nobody.  *)
THEOREM ExitLogsOutHolds == CarefulUsers => (Spec => ExitLogsOut)
  <1> SUFFICES ASSUME CarefulUsers PROVE Spec => ExitLogsOut
    OBVIOUS
  <1>1. ASSUME CarefulInv, [Next]_vars, NEW fd \in Fds,
               owner[fd] # NoClient, owner'[fd] = NoClient, NEW u \in Users
        PROVE  session[u] # fd
    <2>1. ASSUME NEW c \in Clients, Client(c) PROVE FALSE
      BY <1>1, <2>1 DEF Client, Command, Exit, Write, CommandRead, Leave, Die, Gone, RecvPrints,
                        RecvExits
    <2>2. TypeOK
      BY <1>1 DEF CarefulInv, DivertInv, TerminalInv
    <2>3. ASSUME NEW c \in Clients, NEW f \in Fds, Connect(c, f) PROVE FALSE
      BY <1>1, <2>2, <2>3, ClientsAssumption DEF Connect, TypeOK
    <2>4. DealReadEvent(fd)
      <3>1. PICK f \in Fds : DealReadEvent(f)
        BY <1>1, <2>1, <2>3 DEF Next, vars, Receiver, DealClientMessage, ServiceAborts, UseKills,
                                NoticeLogout, NoticeMessage, Restart, CarefulUsers
      <3>2. f = fd
        BY <1>1, <2>2, <3>1 DEF DealReadEvent, ReadCommand, ReadEnd, TypeOK
      <3> QED BY <3>1, <3>2
    <2>5. /\ Waits /\ block[fd] = NoCommand /\ up[owner[fd]] = << >> /\ conn[owner[fd]] # "open"
      BY <1>1, <2>4 DEF DealReadEvent, ReadCommand, ReadEnd
    <2> QED BY <1>1, <2>5, NothingLeft
  <1>2. CarefulInv /\ [Next]_vars =>
          [\A fd \in Fds : owner[fd] # NoClient /\ owner'[fd] = NoClient
              => \A u \in Users : session[u] # fd]_vars
    BY <1>1
  <1> QED BY <1>2, CarefulInvariance, PTL DEF Spec, ExitLogsOut
==================================================================================
