--------------------------- MODULE LoginServiceProofs ---------------------------
(***************************************************************************)
(* Proofs about LoginService for every set of users, passwords, devices    *)
(* and faults and for every bound.  Most of them need that no FuiId passes *)
(* INT_MAX and that a row read after mysql_free_result() still has its     *)
(* contents (RowsIntact); TypeCorrect and EvictionHolds say what is left   *)
(* otherwise.                                                              *)
(***************************************************************************)
EXTENDS LoginService, SequenceTheorems, TLAPS

RowsIntact == MaxLogins <= IntMax /\ "freed" \notin Faults

--------------------------------------------------------------------------------
(* The inductive invariant, in named parts. *)

RegistSteps == {"isAlreadyRegist", "regist"}
LogoutSteps == {"processLogout", "updateLogout"}
(* the steps of processLogin() after the password was accepted *)
LoginSteps  == {"isAlreadyLogined", "getAlreadyLoginedClientFd",
                "setLogoutStatusThenLogin", "login"}

LoggedInFrom(u, f) == \E i \in ActiveIds(u) : tUserLogin[i].FuiFd = f

(* Each step works on a request of its kind, and a login in progress has   *)
(* room for its row.                                                       *)
StepMatchesRequest ==
    /\ pc \in RegistSteps => req \in RegistRequests
    /\ pc \in LogoutSteps => req \in LogoutRequests
    /\ pc \in LoginSteps \cup {"isValidUserNameAndPassWord"} =>
          req \in LoginRequests /\ Len(tUserLogin) < MaxLogins

(* What an earlier select established still holds when the next statement  *)
(* is sent: the tables are written by this process alone.                  *)
SelectStillHolds ==
    /\ pc = "regist" => AccountIds(req.user) = {}
    /\ pc \in LoginSteps => Registered(req.user, req.pass)
    /\ pc = "login" => ActiveIds(req.user) = {}
    /\ pc \in {"setLogoutStatusThenLogin", "updateLogout"} => fuiId \in ActiveIds(req.user)

(* The result being returned, and the one written last, are true of the tables *)
ResultIsTrue ==
    /\ pc # "sendMessage" => errmsg = "(empty)"
    /\ pc \notin {"idle", "crashed"} => response.msg = "(empty)"
    /\ errmsg = "login success!" => req \in LoginRequests /\ LoggedInFrom(req.user, req.fd)
    /\ errmsg = "logout success!" => req \in LogoutRequests /\ ActiveIds(req.user) = {}
    /\ SuccessIsRecorded

IInv == /\ TypeOK
        /\ StepMatchesRequest
        /\ SelectStillHolds
        /\ ResultIsTrue
        /\ SingleLogin
        /\ RegisteredOnce

--------------------------------------------------------------------------------
(* What the three statements that write do to a table.  Each lemma speaks  *)
(* of one user w and one id i, so that it can be used for all of them.     *)

(* insert into t_user_login: one more active row of u, all else as before. *)
LEMMA InsertLogin ==
    ASSUME NEW rows \in Seq(LoginRows), NEW u \in Users, NEW f \in Fds,
           NEW w \in Users, NEW i
    PROVE  /\ Append(rows, LoginRow(u, f)) \in Seq(LoginRows)
           /\ Len(Append(rows, LoginRow(u, f))) = Len(rows) + 1
           /\ i \in Active(Append(rows, LoginRow(u, f)), w) <=>
                 i \in Active(rows, w) \/ (w = u /\ i = Len(rows) + 1)
           /\ Append(rows, LoginRow(u, f))[Len(rows) + 1] = LoginRow(u, f)
           /\ i \in DOMAIN rows => /\ i \in DOMAIN Append(rows, LoginRow(u, f))
                                   /\ Append(rows, LoginRow(u, f))[i] = rows[i]
  <1> DEFINE new == Append(rows, LoginRow(u, f))
  <1>1. LoginRow(u, f) \in LoginRows
    BY DEF LoginRow, LoginRows
  <1>2. /\ new \in Seq(LoginRows)
        /\ Len(new) = Len(rows) + 1
        /\ DOMAIN rows = 1 .. Len(rows)
        /\ DOMAIN new = 1 .. (Len(rows) + 1)
        /\ new[Len(rows) + 1] = LoginRow(u, f)
        /\ \A k \in 1 .. Len(rows) : new[k] = rows[k]
    BY <1>1
  <1>3. /\ LoginRow(u, f).FstrUserName = u
        /\ LoginRow(u, f).FuiStatus = 1
    BY DEF LoginRow
  <1>4. Len(rows) \in Nat
    OBVIOUS
  <1> HIDE DEF new
  <1>5. i \in Active(new, w) <=> i \in Active(rows, w) \/ (w = u /\ i = Len(rows) + 1)
    BY <1>2, <1>3, <1>4 DEF Active
  <1>6. i \in DOMAIN rows => i \in DOMAIN new /\ new[i] = rows[i]
    BY <1>2, <1>4
  <1> QED BY <1>2, <1>5, <1>6 DEF new

(* update t_user_login: the row leaves the active rows of its user. *)
LEMMA UpdateLogin ==
    ASSUME NEW rows \in Seq(LoginRows), NEW u \in Users, NEW id \in Active(rows, u),
           NEW w \in Users, NEW i
    PROVE  /\ LoggedOut(rows, id) \in Seq(LoginRows)
           /\ Len(LoggedOut(rows, id)) = Len(rows)
           /\ DOMAIN LoggedOut(rows, id) = DOMAIN rows
           /\ i \in Active(LoggedOut(rows, id), w) <=> i \in Active(rows, w) /\ i # id
           /\ i \in DOMAIN rows => LoggedOut(rows, id)[i].FuiFd = rows[i].FuiFd
           /\ i \in DOMAIN rows /\ i # id => LoggedOut(rows, id)[i] = rows[i]
  <1> DEFINE new == LoggedOut(rows, id)
  <1>1. /\ id \in DOMAIN rows
        /\ DOMAIN rows = 1 .. Len(rows)
        /\ rows[id] \in LoginRows
        /\ rows[id].FstrUserName = u
    BY DEF Active
  <1>2. new = [rows EXCEPT ![id].FuiStatus = 2]
    BY <1>1 DEF LoggedOut
  <1> HIDE DEF new
  <1>3. [rows[id] EXCEPT !.FuiStatus = 2] \in LoginRows
    BY <1>1 DEF LoginRows
  <1>4. /\ new \in Seq(LoginRows)
        /\ Len(new) = Len(rows)
        /\ DOMAIN new = DOMAIN rows
    BY <1>1, <1>2, <1>3
  <1>5. /\ new[id].FstrUserName = u
        /\ new[id].FuiStatus = 2
        /\ new[id].FuiFd = rows[id].FuiFd
    BY <1>1, <1>2 DEF LoginRows
  <1>6. i \in DOMAIN rows /\ i # id => new[i] = rows[i]
    BY <1>1, <1>2
  <1>7. i \in Active(new, w) <=> i \in Active(rows, w) /\ i # id
    BY <1>1, <1>4, <1>5, <1>6 DEF Active
  <1>8. i \in DOMAIN rows => new[i].FuiFd = rows[i].FuiFd
    BY <1>5, <1>6
  <1> QED BY <1>4, <1>6, <1>7, <1>8 DEF new

(* insert into t_user_password: one more account row of u, all else as before. *)
LEMMA InsertAccount ==
    ASSUME NEW rows \in Seq(AccountRows), NEW u \in Users, NEW p \in Passwords,
           NEW w \in Users, NEW i
    PROVE  /\ Append(rows, AccountRow(u, p)) \in Seq(AccountRows)
           /\ i \in Accounts(Append(rows, AccountRow(u, p)), w) <=>
                 i \in Accounts(rows, w) \/ (w = u /\ i = Len(rows) + 1)
           /\ Append(rows, AccountRow(u, p))[Len(rows) + 1] = AccountRow(u, p)
           /\ i \in DOMAIN rows => /\ i \in DOMAIN Append(rows, AccountRow(u, p))
                                   /\ Append(rows, AccountRow(u, p))[i] = rows[i]
  <1> DEFINE new == Append(rows, AccountRow(u, p))
  <1>1. AccountRow(u, p) \in AccountRows
    BY DEF AccountRow, AccountRows
  <1>2. /\ new \in Seq(AccountRows)
        /\ DOMAIN rows = 1 .. Len(rows)
        /\ DOMAIN new = 1 .. (Len(rows) + 1)
        /\ new[Len(rows) + 1] = AccountRow(u, p)
        /\ \A k \in 1 .. Len(rows) : new[k] = rows[k]
    BY <1>1
  <1>3. AccountRow(u, p).FstrUserName = u
    BY DEF AccountRow
  <1>4. Len(rows) \in Nat
    OBVIOUS
  <1> HIDE DEF new
  <1>5. i \in Accounts(new, w) <=> i \in Accounts(rows, w) \/ (w = u /\ i = Len(rows) + 1)
    BY <1>2, <1>3, <1>4 DEF Accounts
  <1>6. i \in DOMAIN rows => i \in DOMAIN new /\ new[i] = rows[i]
    BY <1>2, <1>4
  <1> QED BY <1>2, <1>5, <1>6 DEF new

--------------------------------------------------------------------------------
(* Types, and that each statement belongs to its request.  This much holds *)
(* whatever the rows read after mysql_free_result() contain.               *)

(* Whatever id an update names, the table keeps its rows, and a row its    *)
(* user and its device.                                                    *)
LEMMA UpdateAnyLogin ==
    ASSUME NEW rows \in Seq(LoginRows), NEW id
    PROVE  /\ LoggedOut(rows, id) \in Seq(LoginRows)
           /\ Len(LoggedOut(rows, id)) = Len(rows)
           /\ \A i \in DOMAIN rows :
                 /\ i \in DOMAIN LoggedOut(rows, id)
                 /\ LoggedOut(rows, id)[i] \in {rows[i], [rows[i] EXCEPT !.FuiStatus = 2]}
  <1>1. CASE id \in DOMAIN rows
    <2> DEFINE new == [rows EXCEPT ![id].FuiStatus = 2]
    <2>1. LoggedOut(rows, id) = new
      BY <1>1 DEF LoggedOut
    <2>2. rows[id] \in LoginRows /\ DOMAIN rows = 1 .. Len(rows)
      BY <1>1
    <2>3. [rows[id] EXCEPT !.FuiStatus = 2] \in LoginRows
      BY <2>2 DEF LoginRows
    <2>4. new \in Seq(LoginRows) /\ Len(new) = Len(rows) /\ DOMAIN new = DOMAIN rows
      BY <1>1, <2>2, <2>3
    <2>5. \A i \in DOMAIN rows : new[i] \in {rows[i], [rows[i] EXCEPT !.FuiStatus = 2]}
      BY <1>1, <2>2
    <2> HIDE DEF new
    <2> QED BY <2>1, <2>4, <2>5
  <1>2. CASE id \notin DOMAIN rows
    BY <1>2 DEF LoggedOut
  <1> QED BY <1>1, <1>2

(* An unsigned FuiId stored into an int is some integer. *)
LEMMA ToIntType ==
    ASSUME NEW n \in Nat
    PROVE  ToInt(n) \in Int
  BY BoundsAssumption DEF ToInt

(* Whatever becomes of a statement, connected stays a Boolean. *)
LEMMA ConnectedType ==
    ASSUME TypeOK, QuerySucceeds \/ QueryFails \/ AnswerLost
    PROVE  connected' \in BOOLEAN
  BY DEF TypeOK, QuerySucceeds, QueryFails, AnswerLost

(* The locals of dealClientMessage() start with values of their types. *)
LEMMA ResetTypes ==
    ASSUME ResetLocals
    PROVE  /\ fuiId' \in Int /\ logoutFd' \in Fds \cup {-1}
           /\ errcode' \in Codes /\ errmsg' \in Messages
  BY DEF ResetLocals, Codes, Messages

(* Every step, whatever fails and whatever a freed row reads as, keeps the *)
(* types and the match of statement and request.                           *)
LEMMA ShapeNext ==
    ASSUME TypeOK, StepMatchesRequest, [Next]_vars
    PROVE  TypeOK' /\ StepMatchesRequest'
  <1>1. ASSUME NEW r \in Requests, Receive(r) PROVE TypeOK' /\ StepMatchesRequest'
    <2>1. TypeOK'
      BY <1>1 DEF Receive, Return, ReturnError, Goto, locals, TypeOK, FirstStatement, NoResponse, Labels,
                  Messages, Codes
    <2>2. StepMatchesRequest'
      BY <1>1 DEF Receive, Return, ReturnError, Goto, FirstStatement, HasItems, StepMatchesRequest,
         RegistSteps, LogoutSteps, LoginSteps, Requests, LoginRequests, RegistRequests,
         LogoutRequests, BadRequests, TypeOK
    <2> QED BY <2>1, <2>2
  <1>2. CASE \/ IsAlreadyRegist \/ IsValidUserNameAndPassWord \/ IsAlreadyLogined
             \/ GetAlreadyLoginedClientFd \/ ProcessLogout
    <2>1. UNCHANGED <<tUserPassword, tUserLogin, req, response>>
      BY <1>2 DEF IsAlreadyRegist, IsValidUserNameAndPassWord, IsAlreadyLogined,
         GetAlreadyLoginedClientFd, ProcessLogout, tables
    <2>2. connected' \in BOOLEAN
      BY <1>2, ConnectedType DEF IsAlreadyRegist, IsValidUserNameAndPassWord, IsAlreadyLogined,
         GetAlreadyLoginedClientFd, ProcessLogout, FreedRow
    <2>3. \/ /\ UNCHANGED <<fuiId, logoutFd>> /\ pc' = "sendMessage"
             /\ errcode' \in Codes /\ errmsg' \in Messages
          \/ /\ UNCHANGED locals
             /\ \/ pc = "isAlreadyRegist" /\ pc' = "regist"
                \/ pc = "isValidUserNameAndPassWord" /\ pc' = "isAlreadyLogined"
                \/ pc = "isAlreadyLogined" /\ pc' \in {"login", "getAlreadyLoginedClientFd"}
                \/ pc' = "aborted"
          \/ /\ UNCHANGED <<errcode, errmsg>>
             /\ \/ pc = "getAlreadyLoginedClientFd" /\ pc' = "setLogoutStatusThenLogin"
                \/ pc = "processLogout" /\ pc' = "updateLogout" /\ UNCHANGED logoutFd
      BY <1>2 DEF IsAlreadyRegist, IsValidUserNameAndPassWord, IsAlreadyLogined,
         GetAlreadyLoginedClientFd, ProcessLogout, Return, ReturnError, Goto, locals, Codes, Messages
    <2>4. fuiId' \in Int /\ logoutFd' \in Fds \cup {-1}
      <3>1. tUserLogin \in Seq(LoginRows) /\ fuiId \in Int /\ logoutFd \in Fds \cup {-1}
        BY DEF TypeOK
      <3>2. ASSUME NEW i \in ActiveIds(req.user)
            PROVE  ToInt(i) \in Int /\ tUserLogin[i].FuiFd \in Fds
        <4>1. i \in Nat /\ tUserLogin[i] \in LoginRows
          BY <3>1 DEF ActiveIds, Active
        <4> QED BY <4>1, ToIntType DEF LoginRows
      <3>3. \A x \in FreedIds : x \in Int
        BY DEF FreedIds
      <3> QED BY <1>2, <3>1, <3>2, <3>3 DEF IsAlreadyRegist, IsValidUserNameAndPassWord,
                 IsAlreadyLogined, GetAlreadyLoginedClientFd, ProcessLogout, Return, ReturnError,
                 Goto, locals, FreedFds
    <2>5. TypeOK'
      <3>1. pc' \in Labels /\ errcode' \in Codes /\ errmsg' \in Messages
        BY <2>3 DEF TypeOK, locals, Labels
      <3> QED BY <2>1, <2>2, <2>4, <3>1 DEF TypeOK
    <2>6. StepMatchesRequest'
      BY <2>1, <2>3 DEF StepMatchesRequest, RegistSteps, LogoutSteps, LoginSteps
    <2> QED BY <2>5, <2>6
  <1>3. CASE Regist
    <2>1. PICK u \in Users, p \in Passwords : u = req.user /\ p = req.pass
      BY <1>3 DEF Regist, StepMatchesRequest, RegistSteps, RegistRequests
    <2>2. /\ UNCHANGED <<tUserLogin, req, response, fuiId, logoutFd>>
          /\ pc' = "sendMessage"
          /\ errcode' \in Codes
          /\ errmsg' \in Messages
      BY <1>3 DEF Regist, Return, ReturnError, Codes, Messages
    <2>3. connected' \in BOOLEAN
      BY <1>3, ConnectedType DEF Regist
    <2>4. tUserPassword' \in Seq(AccountRows)
      <3>1. tUserPassword \in Seq(AccountRows) /\ AccountRow(u, p) \in AccountRows
        BY DEF TypeOK, AccountRow, AccountRows
      <3>2. \/ tUserPassword' = Append(tUserPassword, AccountRow(u, p))
            \/ UNCHANGED tUserPassword
        BY <1>3, <2>1 DEF Regist
      <3> QED BY <3>1, <3>2
    <2> QED BY <2>2, <2>3, <2>4 DEF TypeOK, Labels, StepMatchesRequest, RegistSteps, LogoutSteps,
               LoginSteps
  <1>4. CASE Login
    <2>1. /\ req \in LoginRequests /\ Len(tUserLogin) < MaxLogins
          /\ tUserLogin \in Seq(LoginRows)
      BY <1>4 DEF Login, StepMatchesRequest, LoginSteps, TypeOK
    <2>2. PICK u \in Users, f \in Fds : u = req.user /\ f = req.fd
      BY <2>1 DEF LoginRequests
    <2>3. /\ UNCHANGED <<tUserPassword, req, response, fuiId, logoutFd>>
          /\ pc' = "sendMessage"
          /\ errcode' \in Codes
          /\ errmsg' \in Messages
      BY <1>4 DEF Login, Return, ReturnError, Codes, Messages
    <2>4. connected' \in BOOLEAN
      BY <1>4, ConnectedType DEF Login
    <2>5. tUserLogin' \in Seq(LoginRows) /\ Len(tUserLogin') <= MaxLogins
      <3>1. CASE tUserLogin' = Append(tUserLogin, LoginRow(u, f))
        <4>1. tUserLogin' \in Seq(LoginRows) /\ Len(tUserLogin') = Len(tUserLogin) + 1
          BY <2>1, <3>1, InsertLogin
        <4> QED BY <2>1, <4>1, BoundsAssumption
      <3>2. CASE UNCHANGED tUserLogin
        BY <2>1, <3>2, BoundsAssumption
      <3> QED BY <1>4, <2>2, <3>1, <3>2 DEF Login
    <2> QED BY <2>3, <2>4, <2>5 DEF TypeOK, Labels, StepMatchesRequest, RegistSteps, LogoutSteps,
               LoginSteps
  <1>5. CASE SetLogoutStatus \/ UpdateLogout
    <2>1. UNCHANGED <<tUserPassword, req, response, fuiId, logoutFd>>
      BY <1>5 DEF SetLogoutStatus, UpdateLogout, Return, ReturnError, Goto, locals
    <2>2. /\ \/ pc' = "sendMessage"
             \/ pc = "setLogoutStatusThenLogin" /\ pc' = "login"
          /\ errcode' \in Codes /\ errmsg' \in Messages
      BY <1>5 DEF SetLogoutStatus, UpdateLogout, Return, ReturnError, Goto, locals, TypeOK, Codes, Messages
    <2>3. connected' \in BOOLEAN
      BY <1>5, ConnectedType DEF SetLogoutStatus, UpdateLogout
    <2>4. tUserLogin \in Seq(LoginRows)
      BY DEF TypeOK
    <2>5. tUserLogin' \in {tUserLogin, LoggedOut(tUserLogin, fuiId)}
      BY <1>5 DEF SetLogoutStatus, UpdateLogout
    <2>6. tUserLogin' \in Seq(LoginRows) /\ Len(tUserLogin') = Len(tUserLogin)
      BY <2>4, <2>5, UpdateAnyLogin
    <2>7. TypeOK'
      BY <2>1, <2>2, <2>3, <2>6 DEF TypeOK, Labels
    <2>8. StepMatchesRequest'
      BY <2>1, <2>2, <2>6 DEF StepMatchesRequest, RegistSteps, LogoutSteps, LoginSteps
    <2> QED BY <2>7, <2>8
  <1>6. CASE SendMessage
    <2>1. UNCHANGED <<tables, connected, req>> /\ pc' = "idle" /\ ResetLocals
      BY <1>6 DEF SendMessage
    <2>2. response' \in [code : Codes, msg : Messages, logoutFd : Fds \cup {-1}]
      BY <1>6 DEF SendMessage, TypeOK
    <2> QED BY <2>1, <2>2, ResetTypes DEF TypeOK, tables, Labels, StepMatchesRequest, RegistSteps,
               LogoutSteps, LoginSteps
  <1>7. CASE Crash
    BY <1>7, ResetTypes DEF Crash, TypeOK, tables, Labels, StepMatchesRequest, RegistSteps, LogoutSteps,
       LoginSteps
  <1>8. CASE Restart
    <2>1. NoResponse \in [code : Codes, msg : Messages, logoutFd : Fds \cup {-1}]
      BY DEF NoResponse, Codes, Messages
    <2> QED BY <1>8, <2>1, ResetTypes DEF Restart, TypeOK, tables, Labels, StepMatchesRequest,
               RegistSteps, LogoutSteps, LoginSteps
  <1>9. CASE UNCHANGED vars
    BY <1>9 DEF vars, TypeOK, StepMatchesRequest
  <1> QED BY <1>1, <1>2, <1>3, <1>4, <1>5, <1>6, <1>7, <1>8, <1>9 DEF Next

--------------------------------------------------------------------------------
(* Initiation and consecution. *)

(* The empty tables and the idle service satisfy the invariant. *)
LEMMA IInvInit == Init => IInv
  <1> SUFFICES ASSUME Init PROVE IInv
    OBVIOUS
  <1>1. \A u \in Users : ActiveIds(u) = {} /\ AccountIds(u) = {}
    <2>1. tUserLogin = << >> /\ tUserPassword = << >>
      BY DEF Init
    <2>2. DOMAIN << >> = {}
      BY EmptySeq
    <2> QED BY <2>1, <2>2 DEF ActiveIds, AccountIds, Active, Accounts
  <1>2. TypeOK
    <2>0. tUserLogin = << >> /\ tUserPassword = << >>
      BY DEF Init
    <2>1. /\ tUserPassword \in Seq(AccountRows)
          /\ tUserLogin \in Seq(LoginRows)
          /\ Len(tUserLogin) <= MaxLogins
      BY <2>0, BoundsAssumption, EmptySeq
    <2>2. /\ connected \in BOOLEAN /\ pc \in Labels
          /\ req \in Requests \cup {NoRequest}
      BY DEF Init, Labels
    <2> fuiId = 0 /\ logoutFd = -1 /\ errcode = SUCCESS /\ errmsg = "(empty)"
      BY DEF Init
    <2>3. /\ fuiId \in Int /\ logoutFd \in Fds \cup {-1}
          /\ errcode \in Codes /\ errmsg \in Messages
      BY DEF Codes, Messages
    <2>4. response = NoResponse
      BY DEF Init
    <2>5. NoResponse \in [code : Codes, msg : Messages, logoutFd : Fds \cup {-1}]
      BY DEF NoResponse, Codes, Messages
    <2> QED BY <2>1, <2>2, <2>3, <2>4, <2>5 DEF TypeOK
  <1>3. StepMatchesRequest /\ SelectStillHolds
    BY DEF Init, StepMatchesRequest, SelectStillHolds, RegistSteps, LogoutSteps, LoginSteps
  <1>4. ResultIsTrue
    BY DEF Init, ResultIsTrue, SuccessIsRecorded, NoResponse
  <1>5. SingleLogin /\ RegisteredOnce
    BY <1>1 DEF SingleLogin, RegisteredOnce
  <1> QED BY <1>2, <1>3, <1>4, <1>5 DEF IInv

(* An id that is in the table fits an int. *)
LEMMA IdFits ==
    ASSUME RowsIntact, TypeOK, NEW u, NEW i \in ActiveIds(u)
    PROVE  ToInt(i) = i /\ i \in Int
  BY BoundsAssumption DEF RowsIntact, TypeOK, ActiveIds, Active, ToInt

(* A step that leaves the tables alone keeps the two uniqueness invariants. *)
LEMMA TablesUnchanged ==
    ASSUME SingleLogin, RegisteredOnce, UNCHANGED tables
    PROVE  /\ SingleLogin' /\ RegisteredOnce'
           /\ \A u : ActiveIds(u)' = ActiveIds(u) 
  BY DEF SingleLogin, RegisteredOnce, tables, ActiveIds, AccountIds, Active, Accounts

(* Every step of the service, whatever its outcome, keeps the invariant. *)
LEMMA IInvNext ==
    ASSUME RowsIntact, IInv, [Next]_vars
    PROVE  IInv'
  <1> ~FreedRow
    BY DEF RowsIntact, FreedRow
  <1> USE DEF IInv
  <1>0. TypeOK' /\ StepMatchesRequest'
    BY ShapeNext
  <1>1. ASSUME NEW r \in Requests, Receive(r) PROVE IInv'
    <2>1. UNCHANGED tables
      BY <1>1 DEF Receive, tables
    <2>3. SelectStillHolds'
      BY <1>1 DEF Receive, Return, ReturnError, Goto, FirstStatement, HasItems, StepMatchesRequest,
         SelectStillHolds, RegistSteps, LogoutSteps, LoginSteps, Requests, LoginRequests, RegistRequests,
         LogoutRequests, BadRequests, TypeOK
    <2>4. ResultIsTrue'
      BY <1>1 DEF Receive, Return, ReturnError, Goto, locals, FirstStatement, ResultIsTrue, SuccessIsRecorded,
         NoResponse, UNEXPECT_ERROR
    <2> QED BY <2>1, <1>0, <2>3, <2>4, TablesUnchanged
  <1>2. CASE IsAlreadyRegist
    <2>1. UNCHANGED tables
      BY <1>2 DEF IsAlreadyRegist, tables
    <2>3. SelectStillHolds'
      BY <1>2 DEF IsAlreadyRegist, Return, ReturnError, Goto, tables, StepMatchesRequest,
         SelectStillHolds, RegistSteps, LogoutSteps, LoginSteps, AccountIds
    <2>4. ResultIsTrue'
      BY <1>2 DEF IsAlreadyRegist, Return, ReturnError, Goto, locals, ResultIsTrue,
         SuccessIsRecorded, UNEXPECT_ERROR
    <2> QED BY <2>1, <1>0, <2>3, <2>4, TablesUnchanged
  <1>3. CASE Regist
    <2>1. PICK u \in Users, p \in Passwords : u = req.user /\ p = req.pass
      BY <1>3 DEF Regist, StepMatchesRequest, RegistSteps, RegistRequests
    <2>2. /\ UNCHANGED <<tUserLogin, req, response, fuiId, logoutFd>>
          /\ pc' = "sendMessage"
          /\ connected' \in BOOLEAN
          /\ errcode' \in Codes
          /\ errmsg' \in {"regist success!", UNEXPECT_ERROR}
      BY <1>3 DEF Regist, QuerySucceeds, QueryFails, AnswerLost, Return, ReturnError, Codes, TypeOK
    <2>3. CASE tUserPassword' = Append(tUserPassword, AccountRow(u, p))
      <3>0. tUserPassword \in Seq(AccountRows)
        BY DEF TypeOK
      <3>1. ASSUME NEW w \in Users, NEW i
            PROVE  /\ tUserPassword' \in Seq(AccountRows)
                   /\ i \in AccountIds(w)' <=>
                        i \in AccountIds(w) \/ (w = u /\ i = Len(tUserPassword) + 1)
        BY <2>3, <3>0, InsertAccount DEF AccountIds
      <3>2. AccountIds(u) = {}
        BY <1>3, <2>1 DEF Regist, SelectStillHolds
      <3>4. RegisteredOnce'
        BY <3>1, <3>2 DEF RegisteredOnce
      <3>5. SingleLogin'
        BY <2>2 DEF SingleLogin, ActiveIds
      <3> QED BY <1>3, <2>2, <1>0, <3>4, <3>5 DEF Regist, StepMatchesRequest, SelectStillHolds,
                 RegistSteps, LogoutSteps, LoginSteps, ResultIsTrue, SuccessIsRecorded, UNEXPECT_ERROR
    <2>4. CASE UNCHANGED tUserPassword
      <3>2. SingleLogin' /\ RegisteredOnce'
        BY <2>2, <2>4, TablesUnchanged DEF tables
      <3> QED BY <1>3, <2>2, <1>0, <3>2 DEF Regist, StepMatchesRequest, SelectStillHolds,
                 RegistSteps, LogoutSteps, LoginSteps, ResultIsTrue, SuccessIsRecorded, UNEXPECT_ERROR
    <2> QED BY <1>3, <2>1, <2>3, <2>4 DEF Regist
  <1>4. CASE IsValidUserNameAndPassWord
    <2>1. UNCHANGED tables
      BY <1>4 DEF IsValidUserNameAndPassWord, tables
    <2>3. SelectStillHolds'
      BY <1>4 DEF IsValidUserNameAndPassWord, Return, ReturnError, Goto, tables,
         StepMatchesRequest, SelectStillHolds, RegistSteps, LogoutSteps, LoginSteps, Registered
    <2>4. ResultIsTrue'
      BY <1>4 DEF IsValidUserNameAndPassWord, Return, ReturnError, Goto, locals, ResultIsTrue,
         SuccessIsRecorded, UNEXPECT_ERROR
    <2> QED BY <2>1, <1>0, <2>3, <2>4, TablesUnchanged
  <1>5. CASE IsAlreadyLogined
    <2>1. UNCHANGED tables
      BY <1>5 DEF IsAlreadyLogined, tables
    <2>3. SelectStillHolds'
      BY <1>5 DEF IsAlreadyLogined, Goto, tables, StepMatchesRequest, SelectStillHolds,
         RegistSteps, LogoutSteps, LoginSteps, Registered, ActiveIds
    <2>4. ResultIsTrue'
      BY <1>5 DEF IsAlreadyLogined, Goto, locals, ResultIsTrue, SuccessIsRecorded
    <2> QED BY <2>1, <1>0, <2>3, <2>4, TablesUnchanged
  <1>6. CASE GetAlreadyLoginedClientFd
    <2>1. UNCHANGED <<tables, req, response>>
      BY <1>6 DEF GetAlreadyLoginedClientFd, tables
    <2>2. req \in LoginRequests /\ Registered(req.user, req.pass) /\ Len(tUserLogin) < MaxLogins
      BY <1>6 DEF GetAlreadyLoginedClientFd, StepMatchesRequest, SelectStillHolds, LoginSteps
    <2>3. CASE \E i \in ActiveIds(req.user) :
                  /\ QuerySucceeds
                  /\ fuiId' = ToInt(i)
                  /\ logoutFd' = tUserLogin[i].FuiFd
                  /\ pc' = "setLogoutStatusThenLogin"
                  /\ UNCHANGED <<errcode, errmsg>>
      <3>1. PICK i \in ActiveIds(req.user) :
                  /\ QuerySucceeds
                  /\ fuiId' = ToInt(i)
                  /\ logoutFd' = tUserLogin[i].FuiFd
                  /\ pc' = "setLogoutStatusThenLogin"
                  /\ UNCHANGED <<errcode, errmsg>>
        BY <2>3
      <3>2. fuiId' = i /\ i \in Int /\ tUserLogin[i].FuiFd \in Fds
        <4>1. ToInt(i) = i /\ i \in Int
          BY IdFits
        <4>2. tUserLogin \in Seq(LoginRows)
          BY DEF TypeOK
        <4>3. tUserLogin[i] \in LoginRows
          BY <4>2 DEF ActiveIds, Active
        <4> QED BY <3>1, <4>1, <4>3 DEF LoginRows
      <3>4. SelectStillHolds'
        BY <2>1, <2>2, <3>1, <3>2 DEF tables, StepMatchesRequest, SelectStillHolds,
           RegistSteps, LogoutSteps, LoginSteps, Registered, ActiveIds
      <3>5. ResultIsTrue'
        BY <1>6, <2>1, <3>1 DEF GetAlreadyLoginedClientFd, ResultIsTrue, SuccessIsRecorded
      <3> QED BY <2>1, <1>0, <3>4, <3>5, TablesUnchanged
    <2>4. CASE QuerySucceeds /\ Goto("aborted")
      <3>2. SelectStillHolds' /\ ResultIsTrue'
        BY <1>6, <2>1, <2>4 DEF GetAlreadyLoginedClientFd, Goto, locals, StepMatchesRequest,
           SelectStillHolds, RegistSteps, LogoutSteps, LoginSteps, ResultIsTrue, SuccessIsRecorded
      <3> QED BY <2>1, <1>0, <3>2, TablesUnchanged
    <2>5. CASE QueryFails /\ ReturnError
      <3>2. SelectStillHolds' /\ ResultIsTrue'
        BY <1>6, <2>1, <2>5 DEF GetAlreadyLoginedClientFd, Return, ReturnError, StepMatchesRequest,
           SelectStillHolds, RegistSteps, LogoutSteps, LoginSteps, ResultIsTrue, SuccessIsRecorded,
           UNEXPECT_ERROR
      <3> QED BY <2>1, <1>0, <3>2, TablesUnchanged
    <2> QED BY <1>6, <2>3, <2>4, <2>5 DEF GetAlreadyLoginedClientFd
  <1>7. CASE SetLogoutStatus
    <2>1. /\ req \in LoginRequests /\ Registered(req.user, req.pass)
          /\ Len(tUserLogin) < MaxLogins /\ fuiId \in ActiveIds(req.user)
          /\ errmsg = "(empty)" /\ response.msg = "(empty)"
          /\ tUserLogin \in Seq(LoginRows)
      BY <1>7 DEF SetLogoutStatus, StepMatchesRequest, SelectStillHolds, LoginSteps, ResultIsTrue,
         TypeOK
    <2>2. PICK u \in Users : u = req.user
      BY <2>1 DEF LoginRequests
    <2>3. UNCHANGED <<tUserPassword, req, response, fuiId, logoutFd>>
      BY <1>7 DEF SetLogoutStatus, Return, ReturnError, Goto, locals
    <2>4. \/ pc' = "login" /\ errmsg' = errmsg /\ errcode' = errcode
             /\ tUserLogin' = LoggedOut(tUserLogin, fuiId)
          \/ pc' = "sendMessage" /\ errmsg' = UNEXPECT_ERROR /\ errcode' = SYSTEM_ERROR
             /\ (tUserLogin' = LoggedOut(tUserLogin, fuiId) \/ UNCHANGED tUserLogin)
      BY <1>7 DEF SetLogoutStatus, Return, ReturnError, Goto, locals
    <2>5. ASSUME NEW w \in Users, NEW i, tUserLogin' = LoggedOut(tUserLogin, fuiId)
          PROVE  /\ tUserLogin' \in Seq(LoginRows) /\ Len(tUserLogin') = Len(tUserLogin)
                 /\ i \in ActiveIds(w)' <=> i \in ActiveIds(w) /\ i # fuiId
      BY <2>1, <2>2, <2>5, UpdateLogin DEF ActiveIds
    <2>10. SelectStillHolds'
      <3>1. Registered(req.user, req.pass)'
        BY <2>1, <2>3 DEF Registered
      <3>2. ASSUME pc' = "login" PROVE ActiveIds(req.user)' = {}
        <4>1. tUserLogin' = LoggedOut(tUserLogin, fuiId)
          BY <2>4, <3>2
        <4>2. \A i \in ActiveIds(u) : i = fuiId
          BY <2>1, <2>2 DEF SingleLogin
        <4>3. ActiveIds(u)' = {}
          BY <2>2, <2>5, <4>1, <4>2
        <4> QED BY <2>2, <2>3, <4>3 DEF ActiveIds
      <3> QED BY <2>4, <3>1, <3>2 DEF SelectStillHolds, LoginSteps
    <2>11. ResultIsTrue'
      BY <2>1, <2>3, <2>4 DEF ResultIsTrue, SuccessIsRecorded, UNEXPECT_ERROR
    <2>12. SingleLogin'
      <3>1. ASSUME NEW w \in Users, NEW i \in ActiveIds(w)' PROVE i \in ActiveIds(w)
        BY <2>4, <2>5 DEF ActiveIds
      <3> QED BY <3>1 DEF SingleLogin
    <2>13. RegisteredOnce'
      BY <2>3 DEF RegisteredOnce, AccountIds
    <2> QED BY <1>0, <2>10, <2>11, <2>12, <2>13
  <1>8. CASE Login
    <2>1. /\ req \in LoginRequests
          /\ Len(tUserLogin) < MaxLogins /\ ActiveIds(req.user) = {}
          /\ response.msg = "(empty)"
          /\ tUserLogin \in Seq(LoginRows)
      BY <1>8 DEF Login, StepMatchesRequest, SelectStillHolds, LoginSteps, ResultIsTrue, TypeOK
    <2>2. PICK u \in Users, f \in Fds : u = req.user /\ f = req.fd
      BY <2>1 DEF LoginRequests
    <2>3. /\ UNCHANGED <<tUserPassword, req, response, fuiId, logoutFd>>
          /\ pc' = "sendMessage"
      BY <1>8 DEF Login, Return, ReturnError
    <2>4. \/ errmsg' = "login success!" /\ errcode' = SUCCESS
             /\ tUserLogin' = Append(tUserLogin, LoginRow(u, f))
          \/ errmsg' = UNEXPECT_ERROR /\ errcode' = SYSTEM_ERROR
             /\ (tUserLogin' = Append(tUserLogin, LoginRow(u, f)) \/ UNCHANGED tUserLogin)
      BY <1>8, <2>2 DEF Login, Return, ReturnError
    <2>5. ASSUME NEW w \in Users, NEW i, tUserLogin' = Append(tUserLogin, LoginRow(u, f))
          PROVE  /\ tUserLogin' \in Seq(LoginRows) /\ Len(tUserLogin') = Len(tUserLogin) + 1
                 /\ i \in ActiveIds(w)' <=>
                       i \in ActiveIds(w) \/ (w = u /\ i = Len(tUserLogin) + 1)
                 /\ tUserLogin'[Len(tUserLogin) + 1] = LoginRow(u, f)
      BY <2>1, <2>2, <2>5, InsertLogin DEF ActiveIds
    <2>9. SelectStillHolds'
      BY <2>3 DEF StepMatchesRequest, SelectStillHolds, RegistSteps, LogoutSteps, LoginSteps
    <2>10. ResultIsTrue'
      <3>1. ASSUME errmsg' = "login success!" PROVE LoggedInFrom(req.user, req.fd)'
        <4>1. tUserLogin' = Append(tUserLogin, LoginRow(u, f))
          BY <2>4, <3>1 DEF UNEXPECT_ERROR
        <4>2. /\ Len(tUserLogin) + 1 \in ActiveIds(u)'
              /\ tUserLogin'[Len(tUserLogin) + 1].FuiFd = f
          BY <2>5, <4>1 DEF LoginRow
        <4> QED BY <2>2, <2>3, <4>2 DEF LoggedInFrom, ActiveIds
      <3> QED BY <2>1, <2>3, <2>4, <3>1 DEF ResultIsTrue, SuccessIsRecorded, UNEXPECT_ERROR
    <2>11. SingleLogin'
      <3>1. CASE tUserLogin' = Append(tUserLogin, LoginRow(u, f))
        <4>1. ASSUME NEW w \in Users, NEW i \in ActiveIds(w)', NEW j \in ActiveIds(w)'
              PROVE  i = j
          <5>1. i \in ActiveIds(w) \/ (w = u /\ i = Len(tUserLogin) + 1)
            BY <2>5, <3>1, <4>1
          <5>2. j \in ActiveIds(w) \/ (w = u /\ j = Len(tUserLogin) + 1)
            BY <2>5, <3>1, <4>1
          <5> QED BY <2>1, <2>2, <5>1, <5>2 DEF SingleLogin
        <4> QED BY <4>1 DEF SingleLogin
      <3>2. CASE UNCHANGED tUserLogin
        BY <3>2 DEF SingleLogin, ActiveIds
      <3> QED BY <2>4, <3>1, <3>2
    <2>12. RegisteredOnce'
      BY <2>3 DEF RegisteredOnce, AccountIds
    <2> QED BY <1>0, <2>9, <2>10, <2>11, <2>12
  <1>9. CASE ProcessLogout
    <2>1. UNCHANGED <<tables, req, response, logoutFd>>
      BY <1>9 DEF ProcessLogout, Return, ReturnError, tables
    <2>2. req \in LogoutRequests /\ errmsg = "(empty)" /\ response.msg = "(empty)"
      BY <1>9 DEF ProcessLogout, StepMatchesRequest, LogoutSteps, ResultIsTrue
    <2>4. CASE ActiveIds(req.user) = {} /\ Return(SUCCESS, "logout success!")
      <3>2. SelectStillHolds'
        BY <2>4 DEF Return, StepMatchesRequest, SelectStillHolds, RegistSteps, LogoutSteps, LoginSteps
      <3>3. ResultIsTrue'
        BY <2>1, <2>2, <2>4 DEF Return, tables, ResultIsTrue, SuccessIsRecorded, ActiveIds
      <3> QED BY <2>1, <1>0, <3>2, <3>3, TablesUnchanged
    <2>5. CASE \E i \in ActiveIds(req.user) :
                  fuiId' = ToInt(i) /\ pc' = "updateLogout" /\ UNCHANGED <<logoutFd, errcode, errmsg>>
      <3>1. PICK i \in ActiveIds(req.user) :
                  fuiId' = ToInt(i) /\ pc' = "updateLogout" /\ UNCHANGED <<logoutFd, errcode, errmsg>>
        BY <2>5
      <3>2. fuiId' = i /\ i \in Int
        BY <3>1, IdFits
      <3>4. SelectStillHolds'
        BY <2>1, <2>2, <3>1, <3>2 DEF tables, StepMatchesRequest, SelectStillHolds,
           RegistSteps, LogoutSteps, LoginSteps, ActiveIds
      <3>5. ResultIsTrue'
        BY <2>1, <2>2, <3>1 DEF ResultIsTrue, SuccessIsRecorded
      <3> QED BY <2>1, <1>0, <3>4, <3>5, TablesUnchanged
    <2>6. CASE ReturnError
      <3>2. SelectStillHolds'
        BY <2>6 DEF Return, ReturnError, StepMatchesRequest, SelectStillHolds, RegistSteps,
           LogoutSteps, LoginSteps
      <3>3. ResultIsTrue'
        BY <2>1, <2>2, <2>6 DEF Return, ReturnError, ResultIsTrue, SuccessIsRecorded, UNEXPECT_ERROR
      <3> QED BY <2>1, <1>0, <3>2, <3>3, TablesUnchanged
    <2> QED BY <1>9, <2>4, <2>5, <2>6 DEF ProcessLogout
  <1>10. CASE UpdateLogout
    <2>1. /\ req \in LogoutRequests /\ fuiId \in ActiveIds(req.user)
          /\ response.msg = "(empty)"
          /\ tUserLogin \in Seq(LoginRows)
      BY <1>10 DEF UpdateLogout, StepMatchesRequest, SelectStillHolds, LogoutSteps, ResultIsTrue, TypeOK
    <2>2. PICK u \in Users : u = req.user
      BY <2>1 DEF LogoutRequests
    <2>3. /\ UNCHANGED <<tUserPassword, req, response, fuiId, logoutFd>>
          /\ pc' = "sendMessage"
      BY <1>10 DEF UpdateLogout, Return, ReturnError
    <2>4. \/ errmsg' = "logout success!" /\ errcode' = SUCCESS
             /\ tUserLogin' = LoggedOut(tUserLogin, fuiId)
          \/ errmsg' = UNEXPECT_ERROR /\ errcode' = SYSTEM_ERROR
             /\ (tUserLogin' = LoggedOut(tUserLogin, fuiId) \/ UNCHANGED tUserLogin)
      BY <1>10 DEF UpdateLogout, Return, ReturnError
    <2>5. ASSUME NEW w \in Users, NEW i, tUserLogin' = LoggedOut(tUserLogin, fuiId)
          PROVE  /\ tUserLogin' \in Seq(LoginRows) /\ Len(tUserLogin') = Len(tUserLogin)
                 /\ i \in ActiveIds(w)' <=> i \in ActiveIds(w) /\ i # fuiId
      BY <2>1, <2>2, <2>5, UpdateLogin DEF ActiveIds
    <2>9. SelectStillHolds'
      BY <2>3 DEF StepMatchesRequest, SelectStillHolds, RegistSteps, LogoutSteps, LoginSteps
    <2>10. ResultIsTrue'
      <3>1. ASSUME errmsg' = "logout success!" PROVE ActiveIds(req.user)' = {}
        <4>1. tUserLogin' = LoggedOut(tUserLogin, fuiId)
          BY <2>4, <3>1 DEF UNEXPECT_ERROR
        <4>2. \A i \in ActiveIds(u) : i = fuiId
          BY <2>1, <2>2 DEF SingleLogin
        <4>3. ActiveIds(u)' = {}
          BY <2>2, <2>5, <4>1, <4>2
        <4> QED BY <2>2, <2>3, <4>3 DEF ActiveIds
      <3> QED BY <2>1, <2>3, <2>4, <3>1 DEF ResultIsTrue, SuccessIsRecorded, UNEXPECT_ERROR
    <2>11. SingleLogin'
      <3>1. ASSUME NEW w \in Users, NEW i \in ActiveIds(w)' PROVE i \in ActiveIds(w)
        BY <2>4, <2>5 DEF ActiveIds
      <3> QED BY <3>1 DEF SingleLogin
    <2>12. RegisteredOnce'
      BY <2>3 DEF RegisteredOnce, AccountIds
    <2> QED BY <1>0, <2>9, <2>10, <2>11, <2>12
  <1>11. CASE SendMessage
    <2>1. UNCHANGED <<tables, connected, req>> /\ pc' = "idle" /\ ResetLocals
      BY <1>11 DEF SendMessage
    <2>2. \/ response' = [code |-> errcode, msg |-> errmsg, logoutFd |-> logoutFd]
          \/ response' = response
      BY <1>11 DEF SendMessage
    <2>4. SelectStillHolds'
      BY <2>1 DEF StepMatchesRequest, SelectStillHolds, RegistSteps, LogoutSteps, LoginSteps
    <2>5. ResultIsTrue'
      <3>1. \A u : ActiveIds(u)' = ActiveIds(u)
        BY <2>1, TablesUnchanged
      <3>2. response'.msg \in {response.msg, errmsg}
        BY <2>2
      <3>3. response.msg = "(empty)"
        BY <1>11 DEF SendMessage, ResultIsTrue
      <3>4. SuccessIsRecorded'
        BY <2>1, <3>2, <3>3 DEF SuccessIsRecorded, ResultIsTrue, LoggedInFrom, ActiveIds, tables
      <3> QED BY <2>1, <3>4 DEF ResultIsTrue, ResetLocals
    <2> QED BY <2>1, <1>0, <2>4, <2>5, TablesUnchanged
  <1>12. CASE Crash
    <2>1. /\ UNCHANGED <<tables, req, response>> /\ ResetLocals
          /\ connected' = FALSE /\ pc' = "crashed"
      BY <1>12 DEF Crash
    <2>3. SelectStillHolds'
      BY <2>1 DEF StepMatchesRequest, SelectStillHolds, RegistSteps, LogoutSteps, LoginSteps
    <2>4. ResultIsTrue'
      BY <2>1 DEF ResetLocals, tables, ResultIsTrue, SuccessIsRecorded, ActiveIds
    <2> QED BY <2>1, <1>0, <2>3, <2>4, TablesUnchanged
  <1>13. CASE Restart
    <2>1. /\ UNCHANGED tables /\ ResetLocals
          /\ connected' = TRUE /\ pc' = "idle"
          /\ req' = NoRequest /\ response' = NoResponse
      BY <1>13 DEF Restart
    <2>3. SelectStillHolds'
      BY <2>1 DEF StepMatchesRequest, SelectStillHolds, RegistSteps, LogoutSteps, LoginSteps
    <2>4. ResultIsTrue'
      BY <2>1 DEF ResetLocals, ResultIsTrue, SuccessIsRecorded, NoResponse
    <2> QED BY <2>1, <1>0, <2>3, <2>4, TablesUnchanged
  <1>14. CASE UNCHANGED vars
    <2>2. SelectStillHolds'
      BY <1>14 DEF vars, StepMatchesRequest, SelectStillHolds, ActiveIds, AccountIds, Registered
    <2>3. ResultIsTrue'
      BY <1>14 DEF vars, ResultIsTrue, SuccessIsRecorded, ActiveIds, LoggedInFrom
    <2> QED BY <1>14, <1>0, <2>2, <2>3, TablesUnchanged DEF vars, tables
  <1> QED BY <1>1, <1>2, <1>3, <1>4, <1>5, <1>6, <1>7, <1>8, <1>9, <1>10, <1>11, <1>12, <1>13, <1>14
          DEF Next

--------------------------------------------------------------------------------
(* The theorems. *)

(* The strengthened invariant holds in every reachable state of the login  *)
(* service, whatever fails, as long as no FuiId passes INT_MAX.            *)
THEOREM Invariance == RowsIntact => (Spec => []IInv)
  <1> SUFFICES ASSUME RowsIntact PROVE Spec => []IInv
    OBVIOUS
  <1>1. IInv /\ [Next]_vars => IInv'
    BY IInvNext
  <1> QED BY <1>1, IInvInit, PTL DEF Spec

(* Types and the match of statement and request, whatever a freed row      *)
(* reads as.                                                               *)
LEMMA ShapeInvariance == Spec => [](TypeOK /\ StepMatchesRequest)
  <1>1. Init => TypeOK /\ StepMatchesRequest
    BY IInvInit DEF IInv
  <1>2. (TypeOK /\ StepMatchesRequest) /\ [Next]_vars => (TypeOK /\ StepMatchesRequest)'
    BY ShapeNext
  <1> QED BY <1>1, <1>2, PTL DEF Spec

(* The tables and the variables of dealClientMessage() keep their types,   *)
(* whatever fails and whatever a freed row reads as.                       *)
THEOREM TypeCorrect == Spec => []TypeOK
  BY ShapeInvariance, PTL

(* processLogin() never leaves a user logged in from two devices, whatever *)
(* statement fails, loses its answer or is cut off by a crash.             *)
THEOREM SingleLoginHolds == RowsIntact => (Spec => []SingleLogin)
  <1> SUFFICES ASSUME RowsIntact PROVE Spec => []SingleLogin
    OBVIOUS
  <1>1. IInv => SingleLogin
    BY DEF IInv
  <1> QED BY <1>1, Invariance, PTL

(* processRegist() never gives a user name a second account.               *)
THEOREM RegisteredOnceHolds == RowsIntact => (Spec => []RegisteredOnce)
  <1> SUFFICES ASSUME RowsIntact PROVE Spec => []RegisteredOnce
    OBVIOUS
  <1>1. IInv => RegisteredOnce
    BY DEF IInv
  <1> QED BY <1>1, Invariance, PTL

(* "login success!" and "logout success!" are true of t_user_login when    *)
(* they are written.                                                       *)
THEOREM SuccessIsRecordedHolds == RowsIntact => (Spec => []SuccessIsRecorded)
  <1> SUFFICES ASSUME RowsIntact PROVE Spec => []SuccessIsRecorded
    OBVIOUS
  <1>1. IInv => SuccessIsRecorded
    BY DEF IInv, ResultIsTrue
  <1> QED BY <1>1, Invariance, PTL

--------------------------------------------------------------------------------
(* LoginService implements SessionRegistry.  Four statements move the      *)
(* abstract state: the two inserts and the two updates.                    *)

(* The empty tables map to the initial state of SessionRegistry. *)
LEMMA RegistryInit == Init => Registry!Init
  <1> SUFFICES ASSUME Init PROVE Registry!Init
    OBVIOUS
  <1>1. tUserLogin = << >> /\ tUserPassword = << >>
    BY DEF Init
  <1>2. DOMAIN << >> = {}
    BY EmptySeq
  <1>3. \A u \in Users : ActiveIds(u) = {} /\ AccountIds(u) = {}
    BY <1>1, <1>2 DEF ActiveIds, AccountIds, Active, Accounts
  <1> QED BY <1>3 DEF Registry!Init, accountsOf, sessionsOf

(* A logged-out row closes the session of its user and touches no other.   *)
LEMMA ClosesSession ==
    ASSUME NEW u \in Users, tUserLogin \in Seq(LoginRows), SingleLogin,
           fuiId \in ActiveIds(u), tUserLogin' = LoggedOut(tUserLogin, fuiId),
           UNCHANGED tUserPassword
    PROVE  Registry!Close(u)
  <1>1. ASSUME NEW w \in Users, NEW i
        PROVE  i \in ActiveIds(w)' <=> i \in ActiveIds(w) /\ i # fuiId
    BY UpdateLogin DEF ActiveIds
  <1>2. ASSUME NEW w \in Users, NEW i \in ActiveIds(w)'
        PROVE  tUserLogin'[i].FuiFd = tUserLogin[i].FuiFd
    <2>1. i \in DOMAIN tUserLogin
      BY <1>1, <1>2 DEF ActiveIds, Active
    <2> QED BY <2>1, UpdateLogin DEF ActiveIds
  <1>3. ActiveIds(u)' = {}
    BY <1>1 DEF SingleLogin
  <1>4. ASSUME NEW w \in Users, w # u PROVE ActiveIds(w)' = ActiveIds(w)
    <2>1. fuiId \notin ActiveIds(w)
      BY <1>4 DEF ActiveIds, Active
    <2> QED BY <1>1, <2>1
  <1>5. accountsOf' = accountsOf
    BY DEF accountsOf, AccountIds
  <1>6. sessionsOf' = [sessionsOf EXCEPT ![u] = {}]
    <2>1. ASSUME NEW w \in Users, w # u PROVE sessionsOf'[w] = sessionsOf[w]
      BY <1>2, <1>4, <2>1 DEF sessionsOf
    <2>2. sessionsOf'[u] = {}
      BY <1>3 DEF sessionsOf
    <2> QED BY <2>1, <2>2 DEF sessionsOf
  <1> QED BY <1>5, <1>6 DEF Registry!Close

(* An inserted login row opens the session of a user who has none.         *)
LEMMA OpensSession ==
    ASSUME NEW u \in Users, NEW p \in Passwords, NEW f \in Fds,
           tUserLogin \in Seq(LoginRows), Registered(u, p), ActiveIds(u) = {},
           tUserLogin' = Append(tUserLogin, LoginRow(u, f)),
           UNCHANGED tUserPassword
    PROVE  Registry!Open(u, p, f)
  <1>1. ASSUME NEW w \in Users, NEW i
        PROVE  i \in ActiveIds(w)' <=> i \in ActiveIds(w) \/ (w = u /\ i = Len(tUserLogin) + 1)
    BY InsertLogin DEF ActiveIds
  <1>2. ASSUME NEW w \in Users, NEW i \in ActiveIds(w)
        PROVE  tUserLogin'[i].FuiFd = tUserLogin[i].FuiFd
    <2>1. i \in DOMAIN tUserLogin
      BY <1>2 DEF ActiveIds, Active
    <2> QED BY <2>1, InsertLogin
  <1>3. tUserLogin'[Len(tUserLogin) + 1].FuiFd = f
    <2>1. tUserLogin'[Len(tUserLogin) + 1] = LoginRow(u, f)
      BY InsertLogin
    <2> QED BY <2>1 DEF LoginRow
  <1>4. ActiveIds(u)' = {Len(tUserLogin) + 1}
    BY <1>1
  <1>5. ASSUME NEW w \in Users, w # u PROVE ActiveIds(w)' = ActiveIds(w)
    BY <1>1, <1>5
  <1>6. accountsOf' = accountsOf /\ p \in accountsOf[u]
    BY DEF accountsOf, AccountIds, Registered, Accounts, AccountRow
  <1>7. sessionsOf[u] = {}
    BY DEF sessionsOf
  <1>8. sessionsOf' = [sessionsOf EXCEPT ![u] = {f}]
    <2>1. ASSUME NEW w \in Users, w # u PROVE sessionsOf'[w] = sessionsOf[w]
      BY <1>2, <1>5, <2>1 DEF sessionsOf
    <2>2. sessionsOf'[u] = {f}
      BY <1>3, <1>4 DEF sessionsOf
    <2> QED BY <2>1, <2>2 DEF sessionsOf
  <1> QED BY <1>6, <1>7, <1>8 DEF Registry!Open

(* An inserted account row registers a user who has no account.            *)
LEMMA RegistersUser ==
    ASSUME NEW u \in Users, NEW p \in Passwords,
           tUserPassword \in Seq(AccountRows), AccountIds(u) = {},
           tUserPassword' = Append(tUserPassword, AccountRow(u, p)),
           UNCHANGED tUserLogin
    PROVE  Registry!Register(u, p)
  <1>1. ASSUME NEW w \in Users, NEW i
        PROVE  i \in AccountIds(w)' <=> i \in AccountIds(w) \/ (w = u /\ i = Len(tUserPassword) + 1)
    BY InsertAccount DEF AccountIds
  <1>2. ASSUME NEW w \in Users, NEW i \in AccountIds(w)
        PROVE  tUserPassword'[i].FstrPassWord = tUserPassword[i].FstrPassWord
    <2>1. i \in DOMAIN tUserPassword
      BY <1>2 DEF AccountIds, Accounts
    <2> QED BY <2>1, InsertAccount
  <1>3. tUserPassword'[Len(tUserPassword) + 1].FstrPassWord = p
    <2>1. tUserPassword'[Len(tUserPassword) + 1] = AccountRow(u, p)
      BY InsertAccount
    <2> QED BY <2>1 DEF AccountRow
  <1>4. AccountIds(u)' = {Len(tUserPassword) + 1}
    BY <1>1
  <1>5. ASSUME NEW w \in Users, w # u PROVE AccountIds(w)' = AccountIds(w)
    BY <1>1, <1>5
  <1>6. sessionsOf' = sessionsOf
    BY DEF sessionsOf, ActiveIds
  <1>7. accountsOf[u] = {}
    BY DEF accountsOf
  <1>8. accountsOf' = [accountsOf EXCEPT ![u] = {p}]
    <2>1. ASSUME NEW w \in Users, w # u PROVE accountsOf'[w] = accountsOf[w]
      BY <1>2, <1>5, <2>1 DEF accountsOf
    <2>2. accountsOf'[u] = {p}
      BY <1>3, <1>4 DEF accountsOf
    <2> QED BY <2>1, <2>2 DEF accountsOf
  <1> QED BY <1>6, <1>7, <1>8 DEF Registry!Register

(* Every step maps to a step of SessionRegistry or leaves its state alone. *)
LEMMA RegistryNext ==
    ASSUME IInv, [Next]_vars
    PROVE  [Registry!Next]_(Registry!vars)
  <1> USE DEF IInv
  <1>0. ASSUME UNCHANGED tables PROVE UNCHANGED (Registry!vars)
    BY <1>0 DEF tables, Registry!vars, accountsOf, sessionsOf, ActiveIds, AccountIds
  <1>1. CASE Regist
    <2>1. /\ req \in RegistRequests /\ AccountIds(req.user) = {}
          /\ tUserPassword \in Seq(AccountRows)
      BY <1>1 DEF Regist, StepMatchesRequest, RegistSteps, SelectStillHolds, TypeOK
    <2>2. PICK u \in Users, p \in Passwords : u = req.user /\ p = req.pass
      BY <2>1 DEF RegistRequests
    <2>3. CASE tUserPassword' = Append(tUserPassword, AccountRow(u, p))
      <3>1. Registry!Register(u, p)
        BY <1>1, <2>1, <2>2, <2>3, RegistersUser DEF Regist
      <3> QED BY <3>1 DEF Registry!Next
    <2>4. CASE UNCHANGED tUserPassword
      BY <1>0, <1>1, <2>4 DEF Regist, tables
    <2> QED BY <1>1, <2>2, <2>3, <2>4 DEF Regist
  <1>2. CASE Login
    <2>1. /\ req \in LoginRequests /\ ActiveIds(req.user) = {}
          /\ Registered(req.user, req.pass)
          /\ tUserLogin \in Seq(LoginRows)
      BY <1>2 DEF Login, StepMatchesRequest, LoginSteps, SelectStillHolds, TypeOK
    <2>2. PICK u \in Users, p \in Passwords, f \in Fds : u = req.user /\ p = req.pass /\ f = req.fd
      BY <2>1 DEF LoginRequests
    <2>3. CASE tUserLogin' = Append(tUserLogin, LoginRow(u, f))
      <3>1. Registry!Open(u, p, f)
        BY <1>2, <2>1, <2>2, <2>3, OpensSession DEF Login
      <3> QED BY <3>1 DEF Registry!Next
    <2>4. CASE UNCHANGED tUserLogin
      BY <1>0, <1>2, <2>4 DEF Login, tables
    <2> QED BY <1>2, <2>2, <2>3, <2>4 DEF Login
  <1>3. CASE SetLogoutStatus \/ UpdateLogout
    <2>1. /\ req \in LoginRequests \/ req \in LogoutRequests
          /\ fuiId \in ActiveIds(req.user)
          /\ tUserLogin \in Seq(LoginRows)
      BY <1>3 DEF SetLogoutStatus, UpdateLogout, StepMatchesRequest, LoginSteps, LogoutSteps,
         SelectStillHolds, TypeOK
    <2>2. req.user \in Users
      <3>1. CASE req \in LoginRequests
        BY <3>1 DEF LoginRequests
      <3>2. CASE req \in LogoutRequests
        BY <3>2 DEF LogoutRequests
      <3> QED BY <2>1, <3>1, <3>2
    <2>3. UNCHANGED tUserPassword
      BY <1>3 DEF SetLogoutStatus, UpdateLogout
    <2>4. CASE tUserLogin' = LoggedOut(tUserLogin, fuiId)
      <3>1. PICK u \in Users : u = req.user
        BY <2>2
      <3>2. Registry!Close(u)
        BY <2>1, <2>3, <2>4, <3>1, ClosesSession
      <3> QED BY <3>2 DEF Registry!Next
    <2>5. CASE UNCHANGED tUserLogin
      BY <1>0, <2>3, <2>5 DEF tables
    <2> QED BY <1>3, <2>4, <2>5 DEF SetLogoutStatus, UpdateLogout
  <1>4. CASE \/ \E r \in Requests : Receive(r)
             \/ IsAlreadyRegist \/ IsValidUserNameAndPassWord \/ IsAlreadyLogined
             \/ GetAlreadyLoginedClientFd \/ ProcessLogout
             \/ SendMessage \/ Crash \/ Restart \/ UNCHANGED vars
    <2>1. UNCHANGED tables
      BY <1>4 DEF Receive, IsAlreadyRegist, IsValidUserNameAndPassWord, IsAlreadyLogined,
         GetAlreadyLoginedClientFd, ProcessLogout, SendMessage, Crash, Restart, vars, tables
    <2> QED BY <1>0, <2>1
  <1> QED BY <1>1, <1>2, <1>3, <1>4 DEF Next

(* The login service implements SessionRegistry: whatever fails, accounts  *)
(* and sessions change only by Register, Open and Close.                   *)
THEOREM RefinesRegistry == RowsIntact => (Spec => ImplementsRegistry)
  <1> SUFFICES ASSUME RowsIntact PROVE Spec => ImplementsRegistry
    OBVIOUS
  <1>1. IInv /\ [Next]_vars => [Registry!Next]_(Registry!vars)
    BY RegistryNext
  <1> QED BY <1>1, Invariance, RegistryInit, PTL DEF Spec, ImplementsRegistry, Registry!Spec

--------------------------------------------------------------------------------
(* Whose session a step may end. *)

(* A step that is not one of the two updates keeps every row.              *)
LEMMA OtherStepsKeepRows ==
    ASSUME IInv, [Next]_vars, ~SetLogoutStatus, ~UpdateLogout, NEW i \in DOMAIN tUserLogin
    PROVE  i \in DOMAIN tUserLogin' /\ tUserLogin'[i] = tUserLogin[i]
  <1> USE DEF IInv
  <1>1. CASE Login
    <2>1. req \in LoginRequests /\ tUserLogin \in Seq(LoginRows)
      BY <1>1 DEF Login, StepMatchesRequest, LoginSteps, TypeOK
    <2>2. PICK u \in Users, f \in Fds : u = req.user /\ f = req.fd
      BY <2>1 DEF LoginRequests
    <2>3. CASE tUserLogin' = Append(tUserLogin, LoginRow(u, f))
      BY <2>1, <2>2, <2>3, InsertLogin
    <2>4. CASE UNCHANGED tUserLogin
      BY <2>4
    <2> QED BY <1>1, <2>2, <2>3, <2>4 DEF Login
  <1>2. CASE ~Login
    <2>1. UNCHANGED tUserLogin
      BY <1>2 DEF Next, Receive, IsAlreadyRegist, Regist, IsValidUserNameAndPassWord, IsAlreadyLogined,
         GetAlreadyLoginedClientFd, ProcessLogout, SendMessage, Crash, Restart, vars, tables
    <2> QED BY <2>1
  <1> QED BY <1>1, <1>2

(* An update changes the one row of the user that the request names. *)
LEMMA OwnSessionStep ==
    ASSUME IInv, [Next]_vars, NEW i \in DOMAIN tUserLogin
    PROVE  \/ i \in DOMAIN tUserLogin' /\ tUserLogin'[i] = tUserLogin[i]
           \/ EndsOwnSession(i)
  <1> USE DEF IInv
  <1>1. CASE SetLogoutStatus \/ UpdateLogout
    <2>1. /\ fuiId \in ActiveIds(req.user) /\ tUserLogin \in Seq(LoginRows)
          /\ \/ req \in LoginRequests /\ Registered(req.user, req.pass)
             \/ req \in LogoutRequests
      BY <1>1 DEF SetLogoutStatus, UpdateLogout, StepMatchesRequest, LoginSteps, LogoutSteps,
         SelectStillHolds, TypeOK
    <2>2. /\ fuiId \in DOMAIN tUserLogin
          /\ tUserLogin[fuiId].FstrUserName = req.user
      BY <2>1 DEF ActiveIds, Active
    <2>3. \/ req.op = "LOGIN" /\ Registered(req.user, req.pass)
          \/ req.op = "LOGOUT"
      BY <2>1 DEF LoginRequests, LogoutRequests
    <2>4. \/ UNCHANGED tUserLogin
          \/ tUserLogin' = [tUserLogin EXCEPT ![fuiId].FuiStatus = 2]
      BY <1>1, <2>2 DEF SetLogoutStatus, UpdateLogout, LoggedOut
    <2>5. CASE i = fuiId
      BY <2>2, <2>3, <2>4, <2>5 DEF EndsOwnSession
    <2>6. CASE i # fuiId
      BY <2>1, <2>2, <2>4, <2>6
    <2> QED BY <2>5, <2>6
  <1>2. CASE ~SetLogoutStatus /\ ~UpdateLogout
    BY <1>2, OtherStepsKeepRows
  <1> QED BY <1>1, <1>2

(* A login row is changed only by the two updates of loginer.cpp, from 1   *)
(* to 2, and only for the user a LOGOUT names or a LOGIN authenticates.    *)
THEOREM OnlyOwnSessionHolds == RowsIntact => (Spec => OnlyOwnSession)
  <1> SUFFICES ASSUME RowsIntact PROVE Spec => OnlyOwnSession
    OBVIOUS
  <1>1. IInv /\ [Next]_vars =>
          [\A i \in DOMAIN tUserLogin :
              \/ i \in DOMAIN tUserLogin' /\ tUserLogin'[i] = tUserLogin[i]
              \/ EndsOwnSession(i)]_vars
    BY OwnSessionStep
  <1> QED BY <1>1, Invariance, PTL DEF Spec, OnlyOwnSession

--------------------------------------------------------------------------------
(* When no statement fails.  The process may still be killed anywhere, and *)
(* the write() of a response may still fail.                               *)

StatementsWork == "query" \notin Faults /\ "lost" \notin Faults

(* A device is named for eviction only between the select that found it    *)
(* and the answer, and in the answer only after the insert for the device  *)
(* that replaces it.                                                       *)
Replaced == LoggedInFrom(req.user, req.fd)
EvictionInv ==
    /\ pc # "crashed" => connected = TRUE
    /\ logoutFd > 0 => \/ pc \in {"setLogoutStatusThenLogin", "login"}
                       \/ pc = "sendMessage" /\ Replaced
    /\ response.logoutFd > 0 => pc \in {"idle", "crashed"} /\ Replaced

(* While the statements work every step keeps EvictionInv, even one that   *)
(* reads a freed row.                                                      *)
LEMMA EvictionNext ==
    ASSUME StatementsWork, TypeOK, StepMatchesRequest, EvictionInv, [Next]_vars
    PROVE  EvictionInv'
  <1> USE DEF EvictionInv
  <1>0. pc # "crashed" => ~QueryFails /\ ~AnswerLost
    BY DEF StatementsWork, QueryFails, AnswerLost
  <1>a. ~(-1 > 0)
    OBVIOUS
  <1>1. ASSUME NEW r \in Requests, Receive(r) PROVE EvictionInv'
    <2>1. /\ connected' = TRUE /\ UNCHANGED logoutFd
          /\ response'.logoutFd = -1 /\ pc' # "crashed"
      BY <1>1 DEF Receive, Return, ReturnError, Goto, locals, FirstStatement, NoResponse
    <2>2. ~(logoutFd > 0)
      BY <1>1 DEF Receive
    <2> QED BY <1>a, <2>1, <2>2
  <1>2. CASE \/ IsAlreadyRegist \/ Regist \/ IsValidUserNameAndPassWord \/ IsAlreadyLogined
             \/ ProcessLogout \/ UpdateLogout
    <2>1. pc \notin {"idle", "crashed", "setLogoutStatusThenLogin", "login", "sendMessage"}
      BY <1>2 DEF IsAlreadyRegist, Regist, IsValidUserNameAndPassWord, IsAlreadyLogined,
         ProcessLogout, UpdateLogout
    <2>2. ~QueryFails /\ ~AnswerLost
      BY <1>0, <2>1
    <2>3. UNCHANGED <<connected, logoutFd, response>>
      BY <1>2, <2>2 DEF IsAlreadyRegist, Regist, IsValidUserNameAndPassWord, IsAlreadyLogined,
         ProcessLogout, UpdateLogout, FreedRow, QuerySucceeds, Return, ReturnError, Goto, locals
    <2> QED BY <2>1, <2>3
  <1>3. CASE GetAlreadyLoginedClientFd
    <2>1. pc = "getAlreadyLoginedClientFd" /\ ~QueryFails
      BY <1>0, <1>3 DEF GetAlreadyLoginedClientFd
    <2>2. /\ UNCHANGED <<connected, response>>
          /\ pc' = "setLogoutStatusThenLogin" \/ UNCHANGED logoutFd
      BY <1>3, <2>1 DEF GetAlreadyLoginedClientFd, FreedRow, QuerySucceeds, Goto, locals
    <2> QED BY <2>1, <2>2
  <1>4. CASE SetLogoutStatus
    BY <1>0, <1>4 DEF SetLogoutStatus, QuerySucceeds, Goto, locals
  <1>5. CASE Login
    <2>1. /\ pc = "login" /\ req \in LoginRequests /\ tUserLogin \in Seq(LoginRows)
          /\ ~QueryFails /\ ~AnswerLost
      BY <1>0, <1>5 DEF Login, StepMatchesRequest, LoginSteps, TypeOK
    <2>2. PICK u \in Users, f \in Fds : u = req.user /\ f = req.fd
      BY <2>1 DEF LoginRequests
    <2>3. /\ UNCHANGED <<connected, req, response>> /\ pc' = "sendMessage"
          /\ tUserLogin' = Append(tUserLogin, LoginRow(u, f))
      BY <1>5, <2>1, <2>2 DEF Login, QuerySucceeds, Return
    <2>4. /\ Len(tUserLogin) + 1 \in ActiveIds(u)'
          /\ tUserLogin'[Len(tUserLogin) + 1].FuiFd = f
      BY <2>1, <2>3, InsertLogin DEF ActiveIds, LoginRow
    <2>5. Replaced'
      BY <2>2, <2>3, <2>4 DEF Replaced, LoggedInFrom, ActiveIds
    <2> QED BY <2>1, <2>3, <2>5
  <1>6. CASE SendMessage
    <2>1. /\ pc = "sendMessage" /\ pc' = "idle" /\ logoutFd' = -1
          /\ UNCHANGED <<tUserLogin, connected, req>>
          /\ response'.logoutFd = logoutFd \/ response' = response
      BY <1>6 DEF SendMessage, ResetLocals, tables
    <2>2. Replaced' = Replaced
      BY <2>1 DEF Replaced, LoggedInFrom, ActiveIds
    <2> QED BY <1>a, <2>1, <2>2
  <1>7. CASE Crash
    <2>1. /\ pc' = "crashed" /\ logoutFd' = -1
          /\ UNCHANGED <<tUserLogin, req, response>>
      BY <1>7 DEF Crash, ResetLocals, tables
    <2>2. Replaced' = Replaced
      BY <2>1 DEF Replaced, LoggedInFrom, ActiveIds
    <2> QED BY <1>a, <2>1, <2>2
  <1>8. CASE Restart
    BY <1>a, <1>8 DEF Restart, ResetLocals, NoResponse
  <1>9. CASE UNCHANGED vars
    BY <1>9 DEF vars, Replaced, LoggedInFrom, ActiveIds
  <1> QED BY <1>1, <1>2, <1>3, <1>4, <1>5, <1>6, <1>7, <1>8, <1>9 DEF Next

(* While no statement fails, wherever the process is killed and whatever a *)
(* freed row reads as, a device is told to log out only when the device    *)
(* that replaces it is logged in.                                          *)
THEOREM EvictionHolds == StatementsWork => (Spec => []EvictionMeansReplaced)
  <1> SUFFICES ASSUME StatementsWork PROVE Spec => []EvictionMeansReplaced
    OBVIOUS
  <1>1. Init => EvictionInv
    BY DEF Init, EvictionInv, NoResponse
  <1>2. (TypeOK /\ StepMatchesRequest) /\ EvictionInv /\ [Next]_vars => EvictionInv'
    BY EvictionNext
  <1>3. EvictionInv => EvictionMeansReplaced
    BY DEF EvictionInv, EvictionMeansReplaced, Replaced, LoggedInFrom
  <1> QED BY <1>1, <1>2, <1>3, ShapeInvariance, PTL DEF Spec

(* With intact rows, the connection is up and the select that follows      *)
(* isAlreadyLogined() finds a row.                                         *)
NoFaultInv ==
    /\ pc # "crashed" => connected = TRUE
    /\ pc = "getAlreadyLoginedClientFd" => ActiveIds(req.user) # {}
    /\ pc # "aborted"

(* While the statements work every step keeps NoFaultInv. *)
LEMMA NoFaultNext ==
    ASSUME RowsIntact, StatementsWork, IInv, NoFaultInv, [Next]_vars
    PROVE  NoFaultInv'
  <1> USE DEF NoFaultInv
  <1>0. pc # "crashed" => ~QueryFails /\ ~AnswerLost /\ ~FreedRow
    BY DEF StatementsWork, RowsIntact, QueryFails, AnswerLost, FreedRow
  <1>1. ASSUME NEW r \in Requests, Receive(r) PROVE NoFaultInv'
    BY <1>1 DEF Receive, Return, ReturnError, Goto, FirstStatement
  <1>2. CASE IsAlreadyRegist \/ Regist \/ IsValidUserNameAndPassWord
    <2>1. connected' = TRUE /\ pc' \in {"regist", "isAlreadyLogined", "sendMessage"}
      BY <1>0, <1>2 DEF IsAlreadyRegist, Regist, IsValidUserNameAndPassWord, QuerySucceeds,
         Return, ReturnError, Goto
    <2> QED BY <2>1
  <1>3. CASE IsAlreadyLogined
    BY <1>0, <1>3 DEF IsAlreadyLogined, QuerySucceeds, Goto, tables, ActiveIds
  <1>4. CASE GetAlreadyLoginedClientFd
    <2>1. \A i, j \in ActiveIds(req.user) : i = j
      BY <1>4 DEF GetAlreadyLoginedClientFd, IInv, StepMatchesRequest, LoginSteps, LoginRequests, SingleLogin
    <2>2. \E i \in ActiveIds(req.user) : ActiveIds(req.user) = {i}
      BY <1>4, <2>1 DEF GetAlreadyLoginedClientFd
    <2>3. pc' = "setLogoutStatusThenLogin" /\ connected' = TRUE
      BY <1>0, <1>4, <2>2 DEF GetAlreadyLoginedClientFd, QuerySucceeds
    <2> QED BY <2>3
  <1>5. CASE SetLogoutStatus \/ Login \/ ProcessLogout \/ UpdateLogout
    <2>1. connected' = TRUE /\ pc' \in {"login", "updateLogout", "sendMessage"}
      BY <1>0, <1>5 DEF SetLogoutStatus, Login, ProcessLogout, UpdateLogout, QuerySucceeds, Return, Goto
    <2> QED BY <2>1
  <1>6. CASE SendMessage \/ Crash \/ Restart
    BY <1>6 DEF SendMessage, Crash, Restart
  <1>7. CASE UNCHANGED vars
    BY <1>7 DEF vars, ActiveIds
  <1> QED BY <1>1, <1>2, <1>3, <1>4, <1>5, <1>6, <1>7 DEF Next

(* When no statement fails, wherever the process is killed, the assertion  *)
(* rowsCount == 1 of getAlreadyLoginedClientFd() holds.                    *)
THEOREM NoAssertFailureHolds == RowsIntact /\ StatementsWork => (Spec => []NoAssertFailure)
  <1> SUFFICES ASSUME RowsIntact, StatementsWork PROVE Spec => []NoAssertFailure
    OBVIOUS
  <1>1. IInv /\ NoFaultInv /\ [Next]_vars => NoFaultInv'
    BY NoFaultNext
  <1>2. Init => NoFaultInv
    BY DEF Init, NoFaultInv
  <1>3. NoFaultInv => NoAssertFailure
    BY DEF NoFaultInv, NoAssertFailure
  <1> QED BY <1>1, <1>2, <1>3, Invariance, PTL DEF Spec

(* An error is on its way only when the request deserves one, and nothing  *)
(* is registered between the error and its answer.                         *)
RefusalInv ==
    /\ errmsg = UNEXPECT_ERROR => pc = "sendMessage" /\ Refusable
    /\ RefusedOnlyIfInvalid

(* While the statements work every step keeps RefusalInv. *)
LEMMA RefusalNext ==
    ASSUME RowsIntact, StatementsWork, IInv, NoFaultInv, RefusalInv, [Next]_vars
    PROVE  RefusalInv'
  <1> USE DEF RefusalInv, RefusedOnlyIfInvalid
  <1>0. pc # "crashed" => ~QueryFails /\ ~AnswerLost /\ ~FreedRow
    BY DEF StatementsWork, RowsIntact, QueryFails, AnswerLost, FreedRow, NoFaultInv
  <1>a. "(empty)" # UNEXPECT_ERROR
    BY DEF UNEXPECT_ERROR
  <1>b. ASSUME UNCHANGED <<req, tUserPassword>> PROVE Refusable' = Refusable
    BY <1>b DEF Refusable, HasItems, Registered
  <1>1. ASSUME NEW r \in Requests, Receive(r) PROVE RefusalInv'
    <2>1. response'.msg = "(empty)"
      BY <1>1 DEF Receive, NoResponse
    <2>2. CASE ReturnError /\ ~HasItems(r)
      BY <1>1, <1>a, <2>1, <2>2 DEF Receive, ReturnError, Return, Refusable, HasItems
    <2>3. CASE ~(ReturnError /\ ~HasItems(r))
      <3>1. errmsg' # UNEXPECT_ERROR
        BY <1>1, <2>3 DEF Receive, Return, Goto, locals, UNEXPECT_ERROR
      <3> QED BY <1>a, <2>1, <3>1
    <2> QED BY <2>2, <2>3
  <1>2. ASSUME pc \notin {"idle", "sendMessage", "crashed"}, UNCHANGED response,
               pc' # "idle", errmsg' # UNEXPECT_ERROR
        PROVE  RefusalInv'
    BY <1>2, <1>a DEF IInv, ResultIsTrue
  <1>3. ASSUME errmsg # UNEXPECT_ERROR, NEW m, NEW code, Return(code, m), m # UNEXPECT_ERROR
        PROVE  pc' = "sendMessage" /\ errmsg' # UNEXPECT_ERROR
    BY <1>3 DEF Return
  <1>4. ASSUME errmsg # UNEXPECT_ERROR, NEW l, Goto(l) PROVE pc' = l /\ errmsg' # UNEXPECT_ERROR
    BY <1>4 DEF Goto, locals
  <1>5. CASE IsAlreadyRegist
    <2>1. ~QueryFails /\ ~FreedRow
      BY <1>0, <1>5 DEF IsAlreadyRegist
    <2>2. pc = "isAlreadyRegist" /\ UNCHANGED response
          /\ (Return(ALREADY_REGIST, "already regist!") \/ Goto("regist"))
      BY <1>5, <2>1 DEF IsAlreadyRegist
    <2>3. pc' # "idle" /\ errmsg' # UNEXPECT_ERROR
      BY <2>2 DEF Return, Goto, locals, UNEXPECT_ERROR
    <2> QED BY <1>2, <2>2, <2>3
  <1>6. CASE Regist
    BY <1>0, <1>2, <1>3, <1>6 DEF Regist, UNEXPECT_ERROR
  <1>7. CASE IsValidUserNameAndPassWord
    <2>1. pc = "isValidUserNameAndPassWord" /\ UNCHANGED <<response, req, tUserPassword>>
      BY <1>7 DEF IsValidUserNameAndPassWord, tables
    <2>2. CASE Goto("isAlreadyLogined")
      BY <1>2, <1>4, <2>1, <2>2
    <2>3. CASE ~Registered(req.user, req.pass) /\ ReturnError
      <3>1. req.op = "LOGIN"
        BY <2>1 DEF IInv, StepMatchesRequest, LoginRequests
      <3> QED BY <1>a, <1>b, <2>1, <2>3, <3>1 DEF ReturnError, Return, Refusable
    <2> QED BY <1>0, <1>7, <2>2, <2>3 DEF IsValidUserNameAndPassWord
  <1>8. CASE IsAlreadyLogined
    BY <1>0, <1>2, <1>4, <1>8 DEF IsAlreadyLogined
  <1>9. CASE GetAlreadyLoginedClientFd
    BY <1>0, <1>2, <1>4, <1>9 DEF GetAlreadyLoginedClientFd
  <1>10. CASE SetLogoutStatus
    BY <1>0, <1>2, <1>4, <1>10 DEF SetLogoutStatus
  <1>11. CASE Login
    BY <1>0, <1>2, <1>3, <1>11 DEF Login, UNEXPECT_ERROR
  <1>12. CASE ProcessLogout
    BY <1>0, <1>2, <1>3, <1>12 DEF ProcessLogout, UNEXPECT_ERROR
  <1>13. CASE UpdateLogout
    BY <1>0, <1>2, <1>3, <1>13 DEF UpdateLogout, UNEXPECT_ERROR
  <1>14. CASE SendMessage
    <2>1. pc' = "idle" /\ errmsg' = "(empty)" /\ UNCHANGED <<req, tUserPassword>>
      BY <1>14 DEF SendMessage, ResetLocals, tables
    <2>2. response'.msg = errmsg \/ response' = response
      BY ONLY <1>14 DEF SendMessage
    <2> QED BY <1>a, <1>b, <2>1, <2>2
  <1>15. CASE Crash
    BY <1>15, <1>a, <1>b DEF Crash, ResetLocals, tables
  <1>16. CASE Restart
    BY <1>16, <1>a DEF Restart, ResetLocals, NoResponse
  <1>17. CASE UNCHANGED vars
    BY <1>b, <1>17 DEF vars
  <1> QED BY <1>1, <1>5, <1>6, <1>7, <1>8, <1>9, <1>10, <1>11, <1>12, <1>13, <1>14, <1>15,
             <1>16, <1>17 DEF Next

(* When no statement fails, "occur unexpect error!" means that the request *)
(* lacks an item or the password is not the registered one.                *)
THEOREM RefusalHolds == RowsIntact /\ StatementsWork => (Spec => []RefusedOnlyIfInvalid)
  <1> SUFFICES ASSUME RowsIntact, StatementsWork PROVE Spec => []RefusedOnlyIfInvalid
    OBVIOUS
  <1>1. IInv /\ NoFaultInv /\ [Next]_vars => NoFaultInv'
    BY NoFaultNext
  <1>2. IInv /\ NoFaultInv /\ RefusalInv /\ [Next]_vars => RefusalInv'
    BY RefusalNext
  <1>3. Init => RefusalInv
    BY DEF Init, RefusalInv, RefusedOnlyIfInvalid, NoResponse, UNEXPECT_ERROR
  <1>4. RefusalInv => RefusedOnlyIfInvalid
    BY DEF RefusalInv
  <1>5. Init => NoFaultInv
    BY DEF Init, NoFaultInv
  <1> QED BY <1>1, <1>2, <1>3, <1>4, <1>5, Invariance, PTL DEF Spec
================================================================================
