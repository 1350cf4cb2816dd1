------------------------------ MODULE LoginService ------------------------------
(***************************************************************************)
(* userLoginService, the process behind port 8082: dealClientMessage()     *)
(* (userLoginImpl.cpp) and the Loginer, Register and SqlApi calls it makes. *)
(* It is one thread serving one request at a time, so the grain of the     *)
(* model is one action per SQL statement: between two statements the       *)
(* connection can be lost or the process can die, and only the tables      *)
(* survive.  The request's JSON is a record; `lacks' names the item that   *)
(* the code looks for and does not find.                                   *)
(***************************************************************************)
EXTENDS Integers, Sequences

CONSTANTS Users, Passwords,
          Fds,        \* the receiver's descriptors of its clients
          MaxLogins,  \* bound: rows t_user_login may reach
          MaxAccounts,\* bound: rows of t_user_password when a REGIST arrives
          IntMax,     \* INT_MAX, the largest FuiId an int variable holds
          Faults      \* what may go wrong, see below

(* "query": a statement fails and is not applied; "lost": the connection   *)
(* breaks, before or after the statement was applied; "reply": write() of  *)
(* the response fails; "crash": the process dies (SIGPIPE, SIGSEGV, kill); *)
(* "freed": a row reads as anything, since SqlApi::select() stores pointers *)
(* into a result that it frees before its caller looks at the row.         *)
FaultKinds == {"query", "lost", "reply", "crash", "freed"}

ASSUME FdsAssumption == Fds \subseteq Nat \ {0}
ASSUME BoundsAssumption == MaxLogins \in Nat /\ MaxAccounts \in Nat /\ IntMax \in Nat
ASSUME FaultsAssumption == Faults \subseteq FaultKinds

VARIABLES
    tUserPassword,  \* user.t_user_password, in insertion order
    tUserLogin,     \* user.t_user_login; a row's FuiId is its position
    connected,      \* is SqlApi's connection _mysql usable
    pc,             \* the function whose SQL statement comes next
    req,            \* the request being served, or served last
    fuiId,          \* local fuiId: the row to log out
    logoutFd,       \* local logoutFd: the device to notify
    errcode, errmsg,\* the result so far
    response        \* what was written back for req

tables == <<tUserPassword, tUserLogin>>
locals == <<fuiId, logoutFd, errcode, errmsg>>
vars   == <<tUserPassword, tUserLogin, connected, pc, req,
            fuiId, logoutFd, errcode, errmsg, response>>

--------------------------------------------------------------------------------
(* mylib/enum/code.h, as far as a response can carry it *)
SUCCESS        == 0
SYSTEM_ERROR   == -1
ALREADY_REGIST == -3

(* What a request may carry.  op MISSING: no operateType item; op ILLEGAL:  *)
(* one outside MESSAGE_TYPE.  Only a login's extendInfo.clientFd is read.   *)
LoginRequests  == [op : {"LOGIN"}, user : Users, pass : Passwords, fd : Fds,
                   lacks : {"nothing"}]
RegistRequests == [op : {"REGIST"}, user : Users, pass : Passwords,
                   lacks : {"nothing", "extendInfo"}]
LogoutRequests == [op : {"LOGOUT"}, user : Users, lacks : {"nothing", "extendInfo"}]
BadRequests    == [op : {"LOGIN", "REGIST", "LOGOUT", "ILLEGAL", "MISSING"},
                   lacks : {"message"}]
                  \cup [op : {"LOGIN"}, lacks : {"extendInfo"}]
Requests == LoginRequests \cup RegistRequests \cup LogoutRequests \cup BadRequests
NoRequest  == [op |-> "NONE", lacks |-> "nothing"]
NoResponse == [code |-> SUCCESS, msg |-> "(empty)", logoutFd |-> -1]

(* Mutant of LoginRow: the insert leaves FuiStatus at the column default *)
LoginRowDefault(u, f) == [FstrUserName |-> u, FuiFd |-> f, FuiStatus |-> 0]
(* FuiStatus 1 is logged in, 2 is logged out *)
LoginRow(u, f)   == [FstrUserName |-> u, FuiFd |-> f, FuiStatus |-> 1]
AccountRow(u, p) == [FstrUserName |-> u, FstrPassWord |-> p]

(* where FstrUserName = u and FuiStatus = 1 *)
Active(rows, u) == {i \in DOMAIN rows : rows[i].FstrUserName = u /\ rows[i].FuiStatus = 1}
ActiveIds(u) == Active(tUserLogin, u)
(* where FstrUserName = u *)
Accounts(rows, u) == {i \in DOMAIN rows : rows[i].FstrUserName = u}
AccountIds(u) == Accounts(tUserPassword, u)
(* where FstrUserName = u and FstrPassWord = p *)
Registered(u, p) == \E k \in DOMAIN tUserPassword : tUserPassword[k] = AccountRow(u, p)

(* the unsigned 64-bit FuiId stored into a 32-bit int *)
ToInt(n) == IF n <= IntMax THEN n
            ELSE ((n + IntMax + 1) % (2 * (IntMax + 1))) - (IntMax + 1)

(* update ... set FuiStatus = 2 where FuiId = id; no such row is no error *)
LoggedOut(rows, id) == IF id \in DOMAIN rows
                       THEN [rows EXCEPT ![id].FuiStatus = 2]
                       ELSE rows

--------------------------------------------------------------------------------
(* The outcomes of mysql_query() on the one connection, never reopened *)
QuerySucceeds == connected /\ UNCHANGED connected
QueryFails == \/ /\ ~connected \/ "query" \in Faults
                 /\ UNCHANGED connected
              \/ /\ "lost" \in Faults
                 /\ connected' = FALSE
(* the statement is applied, its answer never arrives *)
AnswerLost == /\ connected
              /\ "lost" \in Faults
              /\ connected' = FALSE

(* the select succeeds; what its row, already freed, reads as is undefined. *)
(* An fd of -1 stands for every value that is no device's.                 *)
FreedRow   == "freed" \in Faults /\ QuerySucceeds
FreedIds   == 0 .. MaxLogins
FreedFds   == Fds \cup {-1}

Goto(label) == pc' = label /\ UNCHANGED locals

(* the result goes to label sendMessage; logoutFd keeps its value *)
Return(code, msg) == /\ pc' = "sendMessage"
                     /\ errcode' = code
                     /\ errmsg' = msg
                     /\ UNCHANGED <<fuiId, logoutFd>>

(* Every failure of processRegist, processLogin and processLogout, a wrong *)
(* password included, is overwritten by the caller.                        *)
UNEXPECT_ERROR == "SYSTEM ERROR: occur unexpect error!"
ReturnError == Return(SYSTEM_ERROR, UNEXPECT_ERROR)

--------------------------------------------------------------------------------
Init == /\ tUserPassword = << >>
        /\ tUserLogin = << >>
        /\ connected = TRUE
        /\ pc = "idle"
        /\ req = NoRequest
        /\ fuiId = 0 /\ logoutFd = -1 /\ errcode = SUCCESS /\ errmsg = "(empty)"
        /\ response = NoResponse

(* The items processRegist, processLogin and processLogout insist on *)
HasItems(r) == /\ r.lacks # "message"
               /\ r.op = "LOGIN" => r.lacks # "extendInfo"

(* Mutant of FirstStatement: a login skips isValidUserNameAndPassWord() *)
FirstStatementUnchecked(op) == CASE op = "REGIST" -> "isAlreadyRegist"
                                 [] op = "LOGIN"  -> "isAlreadyLogined"
                                 [] OTHER         -> "processLogout"
FirstStatement(op) == CASE op = "REGIST" -> "isAlreadyRegist"
                        [] op = "LOGIN"  -> "isValidUserNameAndPassWord"
                        [] OTHER         -> "processLogout"

(* dealClientMessage() up to the first SQL statement *)
Receive(r) ==
    /\ pc = "idle"
    /\ r.op = "LOGIN" => Len(tUserLogin) < MaxLogins
    /\ r.op = "REGIST" => Len(tUserPassword) <= MaxAccounts
    /\ req' = r
    /\ response' = NoResponse
    /\ \/ /\ r.op = "MISSING"
          /\ Return(SUCCESS, "SYSTEM ERROR:Message format error!")
       \/ /\ r.op = "ILLEGAL"
          /\ Return(SYSTEM_ERROR, "SYSTEM ERROR: operateType is illegal!")
       \/ /\ r.op \in {"REGIST", "LOGIN", "LOGOUT"}
          /\ ~HasItems(r)
          /\ ReturnError
       \/ /\ r.op \in {"REGIST", "LOGIN", "LOGOUT"}
          /\ HasItems(r)
          /\ Goto(FirstStatement(r.op))
    /\ UNCHANGED <<tUserPassword, tUserLogin, connected>>

(* Mutant of IsAlreadyRegist: a failed select counts as no account *)
IsAlreadyRegistOnError ==
    /\ pc = "isAlreadyRegist"
    /\ \/ QuerySucceeds /\ AccountIds(req.user) # {} /\ Return(ALREADY_REGIST, "already regist!")
       \/ QuerySucceeds /\ AccountIds(req.user) = {} /\ Goto("regist")
       \/ QueryFails /\ Goto("regist")
    /\ UNCHANGED <<tables, req, response>>

(* Register::isAlreadyRegist() and the test of its result *)
IsAlreadyRegist ==
    /\ pc = "isAlreadyRegist"
    /\ \/ /\ QuerySucceeds
          /\ AccountIds(req.user) # {}
          /\ Return(ALREADY_REGIST, "already regist!")
       \/ /\ QuerySucceeds
          /\ AccountIds(req.user) = {}
          /\ Goto("regist")
       \/ FreedRow /\ (Return(ALREADY_REGIST, "already regist!") \/ Goto("regist"))
       \/ QueryFails /\ ReturnError
    /\ UNCHANGED <<tables, req, response>>

(* Register::regist() *)
Regist ==
    /\ pc = "regist"
    /\ \/ /\ QuerySucceeds
          /\ tUserPassword' = Append(tUserPassword, AccountRow(req.user, req.pass))
          /\ Return(SUCCESS, "regist success!")
       \/ /\ QueryFails
          /\ ReturnError
          /\ UNCHANGED tUserPassword
       \/ /\ AnswerLost
          /\ tUserPassword' = Append(tUserPassword, AccountRow(req.user, req.pass))
          /\ ReturnError
    /\ UNCHANGED <<tUserLogin, req, response>>

(* Mutants of IsValidUserNameAndPassWord: the password is not in the where *)
(* clause; a failed select counts as a valid password                      *)
IsValidUserName ==
    /\ pc = "isValidUserNameAndPassWord"
    /\ \/ QuerySucceeds /\ AccountIds(req.user) # {} /\ Goto("isAlreadyLogined")
       \/ QuerySucceeds /\ AccountIds(req.user) = {} /\ ReturnError
       \/ QueryFails /\ ReturnError
    /\ UNCHANGED <<tables, req, response>>
IsValidOnError ==
    /\ pc = "isValidUserNameAndPassWord"
    /\ \/ QuerySucceeds /\ Registered(req.user, req.pass) /\ Goto("isAlreadyLogined")
       \/ QuerySucceeds /\ ~Registered(req.user, req.pass) /\ ReturnError
       \/ QueryFails /\ Goto("isAlreadyLogined")
    /\ UNCHANGED <<tables, req, response>>

(* Loginer::isValidUserNameAndPassWord() *)
IsValidUserNameAndPassWord ==
    /\ pc = "isValidUserNameAndPassWord"
    /\ \/ /\ QuerySucceeds
          /\ Registered(req.user, req.pass)
          /\ Goto("isAlreadyLogined")
       \/ /\ QuerySucceeds
          /\ ~Registered(req.user, req.pass)
          /\ ReturnError
       \/ FreedRow /\ (Goto("isAlreadyLogined") \/ ReturnError)
       \/ QueryFails /\ ReturnError
    /\ UNCHANGED <<tables, req, response>>

(* Mutants of IsAlreadyLogined: a failed select counts as not logged in;   *)
(* FuiStatus is not in the where clause                                    *)
NotLoginedOnError ==
    /\ pc = "isAlreadyLogined"
    /\ \/ QuerySucceeds /\ ActiveIds(req.user) = {} /\ Goto("login")
       \/ QuerySucceeds /\ ActiveIds(req.user) # {} /\ Goto("getAlreadyLoginedClientFd")
       \/ QueryFails /\ Goto("login")
    /\ UNCHANGED <<tables, req, response>>
EverLogined ==
    /\ pc = "isAlreadyLogined"
    /\ \/ QuerySucceeds /\ Accounts(tUserLogin, req.user) = {} /\ Goto("login")
       \/ QuerySucceeds /\ Accounts(tUserLogin, req.user) # {}
                        /\ Goto("getAlreadyLoginedClientFd")
       \/ QueryFails /\ Goto("getAlreadyLoginedClientFd")
    /\ UNCHANGED <<tables, req, response>>

(* Loginer::isAlreadyLogined(): a failed select returns -1 as a bool, true *)
IsAlreadyLogined ==
    /\ pc = "isAlreadyLogined"
    /\ \/ /\ QuerySucceeds
          /\ ActiveIds(req.user) = {}
          /\ Goto("login")
       \/ /\ QuerySucceeds
          /\ ActiveIds(req.user) # {}
          /\ Goto("getAlreadyLoginedClientFd")
       \/ FreedRow /\ (Goto("login") \/ Goto("getAlreadyLoginedClientFd"))
       \/ QueryFails /\ Goto("getAlreadyLoginedClientFd")
    /\ UNCHANGED <<tables, req, response>>

(* Loginer::getAlreadyLoginedClientFd(): assert(rowsCount == 1) aborts *)
GetAlreadyLoginedClientFd ==
    /\ pc = "getAlreadyLoginedClientFd"
    /\ \/ \E i \in ActiveIds(req.user) :
             /\ QuerySucceeds
             /\ ActiveIds(req.user) = {i}
             /\ fuiId' = ToInt(i)
             /\ logoutFd' = tUserLogin[i].FuiFd
             /\ pc' = "setLogoutStatusThenLogin"
             /\ UNCHANGED <<errcode, errmsg>>
       \/ \E i \in ActiveIds(req.user) :
             /\ FreedRow
             /\ ActiveIds(req.user) = {i}
             /\ fuiId' \in FreedIds
             /\ logoutFd' \in FreedFds
             /\ pc' = "setLogoutStatusThenLogin"
             /\ UNCHANGED <<errcode, errmsg>>
       \/ /\ QuerySucceeds
          /\ \A i \in ActiveIds(req.user) : ActiveIds(req.user) # {i}
          /\ Goto("aborted")
       \/ QueryFails /\ ReturnError
    /\ UNCHANGED <<tables, req, response>>

(* Mutant of SetLogoutStatus: login() is not called after the update *)
SetLogoutStatusOnly ==
    /\ pc = "setLogoutStatusThenLogin"
    /\ QuerySucceeds
    /\ tUserLogin' = LoggedOut(tUserLogin, fuiId)
    /\ Return(SUCCESS, "login success!")
    /\ UNCHANGED <<tUserPassword, req, response>>

(* Loginer::setLogoutStatusThenLogin(), the update; login() is a statement *)
(* of its own: there is no transaction around the two.                     *)
SetLogoutStatus ==
    /\ pc = "setLogoutStatusThenLogin"
    /\ \/ /\ QuerySucceeds
          /\ tUserLogin' = LoggedOut(tUserLogin, fuiId)
          /\ Goto("login")
       \/ /\ QueryFails
          /\ ReturnError
          /\ UNCHANGED tUserLogin
       \/ /\ AnswerLost
          /\ tUserLogin' = LoggedOut(tUserLogin, fuiId)
          /\ ReturnError
    /\ UNCHANGED <<tUserPassword, req, response>>

(* Loginer::login(), whichever of its two callers it returns to *)
Login ==
    /\ pc = "login"
    /\ \/ /\ QuerySucceeds
          /\ tUserLogin' = Append(tUserLogin, LoginRow(req.user, req.fd))
          /\ Return(SUCCESS, "login success!")
       \/ /\ QueryFails
          /\ ReturnError
          /\ UNCHANGED tUserLogin
       \/ /\ AnswerLost
          /\ tUserLogin' = Append(tUserLogin, LoginRow(req.user, req.fd))
          /\ ReturnError
    /\ UNCHANGED <<tUserPassword, req, response>>

(* Mutant of ProcessLogout: nothing to log out is an error *)
ProcessLogoutStrict ==
    /\ pc = "processLogout"
    /\ \/ QuerySucceeds /\ ActiveIds(req.user) = {} /\ ReturnError
       \/ \E i \in ActiveIds(req.user) :
             /\ QuerySucceeds
             /\ fuiId' = ToInt(i)
             /\ pc' = "updateLogout"
             /\ UNCHANGED <<logoutFd, errcode, errmsg>>
    /\ UNCHANGED <<tables, req, response>>

(* Loginer::processLogout(), the select; the first row is taken *)
ProcessLogout ==
    /\ pc = "processLogout"
    /\ \/ /\ QuerySucceeds
          /\ ActiveIds(req.user) = {}
          /\ Return(SUCCESS, "logout success!")
       \/ \E i \in ActiveIds(req.user) :
             /\ QuerySucceeds
             /\ \A j \in ActiveIds(req.user) : i <= j
             /\ fuiId' = ToInt(i)
             /\ pc' = "updateLogout"
             /\ UNCHANGED <<logoutFd, errcode, errmsg>>
       \/ /\ FreedRow
          /\ ActiveIds(req.user) # {}
          /\ fuiId' \in FreedIds
          /\ pc' = "updateLogout"
          /\ UNCHANGED <<logoutFd, errcode, errmsg>>
       \/ QueryFails /\ ReturnError
    /\ UNCHANGED <<tables, req, response>>

(* Mutant of UpdateLogout: the result of the update is not looked at *)
UpdateLogoutUnchecked ==
    /\ pc = "updateLogout"
    /\ \/ QuerySucceeds /\ tUserLogin' = LoggedOut(tUserLogin, fuiId)
       \/ QueryFails /\ UNCHANGED tUserLogin
    /\ Return(SUCCESS, "logout success!")
    /\ UNCHANGED <<tUserPassword, req, response>>

(* Loginer::processLogout(), the update *)
UpdateLogout ==
    /\ pc = "updateLogout"
    /\ \/ /\ QuerySucceeds
          /\ tUserLogin' = LoggedOut(tUserLogin, fuiId)
          /\ Return(SUCCESS, "logout success!")
       \/ /\ QueryFails
          /\ ReturnError
          /\ UNCHANGED tUserLogin
       \/ /\ AnswerLost
          /\ tUserLogin' = LoggedOut(tUserLogin, fuiId)
          /\ ReturnError
    /\ UNCHANGED <<tUserPassword, req, response>>

ResetLocals == fuiId' = 0 /\ logoutFd' = -1 /\ errcode' = SUCCESS /\ errmsg' = "(empty)"

(* getResponseMessage() and write().  Without extendInfo in the request    *)
(* the response string stays empty and nothing is sent.                    *)
SendMessage ==
    /\ pc = "sendMessage"
    /\ pc' = "idle"
    /\ \/ /\ req.lacks # "extendInfo"
          /\ response' = [code |-> errcode, msg |-> errmsg, logoutFd |-> logoutFd]
       \/ /\ req.lacks = "extendInfo" \/ "reply" \in Faults
          /\ UNCHANGED response
    /\ ResetLocals
    /\ UNCHANGED <<tables, connected, req>>

(* The process dies; the server sees the connection close *)
Crash == /\ "crash" \in Faults
         /\ pc \notin {"crashed", "aborted"}
         /\ pc' = "crashed"
         /\ connected' = FALSE
         /\ ResetLocals
         /\ UNCHANGED <<tables, req, response>>

(* main() again: connectMysql() and an empty event loop *)
Restart == /\ pc \in {"crashed", "aborted"}
           /\ pc' = "idle"
           /\ connected' = TRUE
           /\ req' = NoRequest
           /\ response' = NoResponse
           /\ ResetLocals
           /\ UNCHANGED tables

Next == \/ \E r \in Requests : Receive(r)
        \/ IsAlreadyRegist \/ Regist
        \/ IsValidUserNameAndPassWord \/ IsAlreadyLogined
        \/ GetAlreadyLoginedClientFd \/ SetLogoutStatus \/ Login
        \/ ProcessLogout \/ UpdateLogout
        \/ SendMessage
        \/ Crash \/ Restart

Spec == Init /\ [][Next]_vars

--------------------------------------------------------------------------------
(* Properties *)

Labels == {"idle", "isAlreadyRegist", "regist", "isValidUserNameAndPassWord",
           "isAlreadyLogined", "getAlreadyLoginedClientFd",
           "setLogoutStatusThenLogin", "login", "processLogout", "updateLogout",
           "sendMessage", "aborted", "crashed"}

Messages == {"(empty)", "SYSTEM ERROR:Message format error!",
             "SYSTEM ERROR: operateType is illegal!", UNEXPECT_ERROR,
             "already regist!", "regist success!", "login success!",
             "logout success!"}
Codes    == {SUCCESS, SYSTEM_ERROR, ALREADY_REGIST}
LoginRows   == [FstrUserName : Users, FuiFd : Fds, FuiStatus : {1, 2}]
AccountRows == [FstrUserName : Users, FstrPassWord : Passwords]

(* The two tables, the locals of dealClientMessage() and the message it    *)
(* writes have their types, and t_user_login stays within its bound.       *)
TypeOK == /\ tUserPassword \in Seq(AccountRows)
          /\ tUserLogin \in Seq(LoginRows)
          /\ Len(tUserLogin) <= MaxLogins
          /\ connected \in BOOLEAN
          /\ pc \in Labels
          /\ req \in Requests \cup {NoRequest}
          /\ fuiId \in Int
          /\ logoutFd \in Fds \cup {-1}
          /\ errcode \in Codes
          /\ errmsg \in Messages
          /\ response \in [code : Codes, msg : Messages, logoutFd : Fds \cup {-1}]

(* A user is logged in from at most one device: t_user_login never has two *)
(* rows of a user with FuiStatus 1, although processLogin() logs the old   *)
(* device out and the new one in with separate statements, any of which    *)
(* can fail, be applied without an answer, or be cut off by a crash.       *)
SingleLogin == \A u \in Users : \A i, j \in ActiveIds(u) : i = j

(* A user name has one account: processRegist() counts and then inserts,   *)
(* and a retry after a lost answer must not add a second row.              *)
RegisteredOnce == \A u \in Users : \A i, j \in AccountIds(u) : i = j

(* "login success!" is written only when the device that asked is the one  *)
(* logged in; "logout success!" only when the user is logged in nowhere.   *)
SuccessIsRecorded ==
    /\ response.msg = "login success!" =>
          \E i \in ActiveIds(req.user) : tUserLogin[i].FuiFd = req.fd
    /\ response.msg = "logout success!" => ActiveIds(req.user) = {}

(* A row of t_user_login never changes but from 1 to 2, and then because   *)
(* its user was named by a LOGOUT or by a LOGIN with a password registered *)
(* for that user: no request ends a session of somebody else.              *)
EndsOwnSession(i) ==
    /\ tUserLogin[i].FstrUserName = req.user
    /\ tUserLogin' = [tUserLogin EXCEPT ![i].FuiStatus = 2]
    /\ \/ req.op = "LOGOUT"
       \/ /\ req.op = "LOGIN"
          /\ Registered(req.user, req.pass)
OnlyOwnSession ==
    [][\A i \in DOMAIN tUserLogin :
          \/ i \in DOMAIN tUserLogin' /\ tUserLogin'[i] = tUserLogin[i]
          \/ EndsOwnSession(i)]_vars

(* The assertion rowsCount == 1 of getAlreadyLoginedClientFd() never fails. *)
NoAssertFailure == pc # "aborted"

(* A device is told "logged in on another device" (client main.cpp:105)    *)
(* only when the device that asked for the login is now logged in.         *)
EvictionMeansReplaced ==
    response.logoutFd > 0 =>
        \E i \in ActiveIds(req.user) : tUserLogin[i].FuiFd = req.fd

(* "occur unexpect error!" answers many things, a wrong password included  *)
(* (userLoginImpl.cpp:52).  While nothing fails it is that, or a request   *)
(* that lacks an item: every login with the right password gets through,   *)
(* over whatever session, and every logout and registration does.          *)
Refusable == \/ ~HasItems(req)
             \/ req.op = "LOGIN" /\ ~Registered(req.user, req.pass)
RefusedOnlyIfInvalid == response.msg = UNEXPECT_ERROR => Refusable

(* What the service promises to a caller: the tables, read as accounts and *)
(* sessions, change only by SessionRegistry's Register, Open and Close.    *)
accountsOf == [u \in Users |-> {tUserPassword[i].FstrPassWord : i \in AccountIds(u)}]
sessionsOf == [u \in Users |-> {tUserLogin[i].FuiFd : i \in ActiveIds(u)}]
Registry == INSTANCE SessionRegistry WITH accounts <- accountsOf,
                                          sessions <- sessionsOf
ImplementsRegistry == Registry!Spec
================================================================================
