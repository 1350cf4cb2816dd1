# Single-terminal login: verification project

TLA+ models, TLC runs and TLAPS proofs for the login system in `src/`: a user may
be logged in on one device at a time, and a login from a second device logs the
first one out.

## 1. The system

```
 client --:8080--> messageReceiver --:8081--> messageDispatcher --:8082--> userLoginService --> MySQL
 (2 threads)        (epoll daemon)             (epoll daemon)               (epoll daemon)
```

| part | state it keeps | operations | correct when |
|---|---|---|---|
| client (`client/`) | one non-blocking socket read by two threads | `login`, `logout`, `regist`, `exit` commands; `justRecvMessage()` | it ends when, and only when, it is told "logout" |
| messageReceiver | its clients' descriptors, one connection to the dispatcher | adds `extendInfo.clientFd`, forwards, waits, writes `logout` to `logoutFd` and the message to the client | every request is answered to its sender, the notice reaches the evicted device only |
| messageDispatcher | one connection to the login service | adds `operateType`, forwards, waits, forwards back | answers are not mixed up and nobody waits for ever |
| userLoginService (`loginManager/`) | tables `t_user_password`, `t_user_login`; one MySQL connection | regist, login (with takeover), logout | one session per user, one account per name, truthful answers |
| SqlApi (`mylib_sql`) | the connection and the last result | select, insert, update | a failure is reported as one |
| DaemonBase (`mylib_daemon`) | epoll registrations, malloc'ed `eventDataBuf`s | accept, read event, write event | each block is handled once, for its own connection, and freed |
| cJSON, log library | none that matters here | | not modelled |

Each daemon is one thread over level-triggered epoll. A request travels down the
chain by a write and a *blocking* read in each daemon, so at most one request is
inside the login service at any time. What makes the system hard is therefore not
threads but **partial failure** (a login is up to five SQL statements without a
transaction), **stale identifiers** (descriptors are stored in the database and are
reused; row ids and blocks are used after another step), **delivery** (TCP merges
commands, peers leave or reset), and **waiting** (blocking reads in a chain).

`mylib/bazel-*` is generated or third-party; `service/messageReceiver/` also holds
unused earlier copies of `loginer.cpp`, `register.cpp`, `sqlApi.cpp`. The repository
has no documents and no tests; comments, log texts and assertions are its statements
of intent.

## 2. Modules

| module | models |
|---|---|
| `SessionRegistry` | abstract: accounts, sessions, `Register`, `Open`, `Close` |
| `LoginService` | userLoginService: `userLoginImpl.cpp`, `loginer.cpp`, `register.cpp`, `sqlApi.cpp` |
| `LoginServiceProofs` | inductive invariant, theorems and proofs about `LoginService` |
| `MCLoginService` | instance for TLC |
| `DaemonLoop` | `daemon.cpp` and the loops of the three `main()` functions, with TCP clients as environment |
| `DaemonLoopProofs` | inductive invariants, theorems and proofs about `DaemonLoop` |
| `MCDaemonLoop` | instance for TLC |
| `Relay` | the chain of daemons: start, death and restart, the connections between them, the write and blocking read of each `dealClientMessage()` |
| `RelayProofs` | inductive invariant, theorems and proofs about `Relay` |
| `MCRelay` | instance for TLC |
| `SingleTerminal` | the composition: clients with their two threads, receiver, dispatcher and login service |
| `SingleTerminalProofs` | inductive invariant, theorems and proofs about `SingleTerminal` |
| `CarefulProofs` | inductive invariant, theorems and proofs about `SingleTerminal` with careful users |
| `MCSingleTerminal` | instance for TLC |

### LoginService

Variables are the two tables (a row's `FuiId` is its position, as AUTO_INCREMENT
gives it), the state of the MySQL connection, and the locals of
`dealClientMessage()`. `pc` names the function whose SQL statement comes next. One
action is one statement together with everything the code does up to the next one,
because only between statements can the connection break or the process die.
`Receive(r)` is `dealClientMessage()` up to the first statement, with the early
`goto sendMessage` exits; `SendMessage` is the label of that name with
`getResponseMessage()` and `write()`.

A statement has the outcomes the code can meet: it succeeds; it fails and is not
applied; the connection is lost before or after it was applied (`AnswerLost`). The
connection is never reopened, since the code never does. `CONSTANT Faults` chooses
which of these a run admits:

* `query`, `lost`: a statement fails, the connection breaks;
* `reply`: `write()` of the response fails; `crash`: the process dies and is started again;
* `freed`: `SqlApi::select()` stores row pointers, frees the result and returns, so
  every caller reads freed memory. What a row reads as is then a nondeterministic
  choice (`FreedRow`, `FreedIds`, `FreedFds`); the *number* of rows was copied and is right.

Requests are records. Those without the `operateType`, `message` or `extendInfo`
item are included, because the code answers them in different ways; items of the wrong JSON
type, which fail an `assert`, and text that is not JSON are not. User names and passwords are model
values, the concatenation of SQL text is left out. The messages are the code's
own, without the user name and with the three "process ... occur unexpect error!" as one.

### DaemonLoop

Clients connect, send numbered messages and leave. The daemon has descriptors
(`owner`, lowest free number first, as `accept()` does), epoll registrations
(`interest`, `data`), a heap of `eventDataBuf` blocks, and `batch`, the events of the
last `epoll_wait()` still to be handled; the order within a batch is arbitrary. An
`EPOLLOUT` event carries the pointer its registration had when `epoll_wait()`
returned. `dealClientMessage()` is reduced to what the loop sees of it: a reply is
written, or it fails. With `notice` the daemon is the receiver, whose handler may write "logout" to another
descriptor before the reply; that number comes from the table, so it is taken to be anybody's or a closed one. The notice
fails and kills as the reply does. The kernel's part: closing with unread data sends an RST
instead of a FIN; a write to a closed peer draws an RST; after an RST the first
call reports ECONNRESET and a further write raises SIGPIPE, which no daemon ignores because
`daemonInit()` has no caller. A freed block that a registration still points to can be
given to any later `read()`, and the stale event then handles what the block holds by that time. A block used after `free()` may kill
the daemon at once or be handled once more before the second `free()` aborts. Text that is no JSON, which is what a failed `read()` leaves in its block, is a NULL
dereference (`ParseKills`). When every block is
taken `malloc()` returns NULL and `memset()` kills the daemon.

`Pipelining = FALSE` is a user who waits for each answer. The real client does not
force that (its socket is non-blocking, so a command returns at once), hence the
runs with `TRUE`.

### Relay

The three processes as one chain. A connection is named after its initiator (a client, or one run
of a relay) and has two ends; `view` is how the kernel of an end sees it (open, fin, reset, broken),
`chan` what that end has not read. A daemon is a record: `pc` is where its one thread is (in the event
loop, in the blocking `read()`, about to write the answer, in a second `free()`), `fds` what its descriptors refer to, `block` the
messages in the blocks that `EPOLLOUT` registrations point to, `upFd` the *number* of the connection to the
next daemon, which `main()` stores once. That number is looked up in `fds` at every use, because the event
loop closes the connection like any other when the next daemon dies, and `accept()` then gives the number away.

`Start(p)` is `main()` up to its loop: a relay connects to the next daemon or exits, so it can
only be started after it. `bind()` without SO_REUSEADDR may fail for a while after a death; that delays a start,
which is never assumed to happen. `Kill(p)` is an operator or an assertion of the login service.
`Forwards`, `ReadResponse` and `WriteResponse` are the three parts of `dealClientMessage()` of both relays,
with what differs as conjuncts: the dispatcher refuses a message without `messageType` and passes an empty
answer on as nothing; the receiver parses its answer, and the empty one is a NULL dereference. `PassOn` is the write of all three, which
fails and kills whatever it was to pass on.

A handler that fails frees its block and leaves the registration pointing to it: the descriptor is in `freed`. From then on the block can be any later
read's, and when that is handled and freed it still holds that request; `waste` collects descriptor and message of every block freed meanwhile.
`UseAfterFree` is the stale event: the process dies, or handles a member of `waste` as if it had just been read (`doomed`), and aborts in the second
`free()` if it gets there. So a request that was answered can be answered again, which is what `AnswersOwnRequests` excepts for the receiver.
While the block is in use by another read and not yet freed, the stale event does what that read's own event does.
Clients are the environment, as in `DaemonLoop`.

### SingleTerminal

This is the system end to end. A client has a command thread (`thread`: waiting in `fgets`, about
to `read`, about to `exit`) and `justRecvMessage()`, both reading `down`. A read takes
everything there is: connections are to 127.0.0.1, so what was written has arrived.
The receiver is one thread: `Connect`, `DealReadEvent`, `DealClientMessage`,
`NoticeLogout`, `NoticeMessage`. `DealClientMessage(fd)` is the request's way down the
chain and back in one step, since each daemon blocks until it has the answer, and
`NoticeLogout` and `NoticeMessage` are the two writes of `dealServiceResponse()`, between which
clients run. Of the tables, `session[u]` is the descriptor in the user's one active row: that
there is at most one is proved of `LoginService`. The outcomes of `ProcessLogin` and
`ProcessLogout` are those of `LoginService` with statement failures (`sql`), but without freed rows.
The end of a connection (`conn`: open, fin, reset, broken) and SIGPIPE are as in `DaemonLoop`, without the epoll batches and the heap: a
failed handler's freed block keeps its command here until it is handled again or kills the receiver. That the block may be another
client's by then is modelled in `DaemonLoop` and `Relay` only. `Restart` is a
new run of the receiver over the sessions that the table kept from the earlier one: every connection is lost,
and clients that connect now get descriptors from the lowest on. A client whose connection is lost
does not connect again (the program never does).
`MayType` says how people type. With `Careful = FALSE`, which is what the client allows,
anybody types anything at any time.

`inAs`, `cut` and `ever` are history variables: where a user is in use, as far as
anyone was told. The program has no such state; the client does not know who is logged in.

## 3. Runs

Passing:

| run | bounds | shows |
|---|---|---|
| `LoginFaults` | 2 users, 2 passwords, 2 devices, 3 logins, faults query/lost/reply/crash | `SingleLogin`, `RegisteredOnce`, `SuccessIsRecorded`, `OnlyOwnSession`, `IInv`, refinement `ImplementsRegistry` |
| `LoginService` | the same, 4 logins, faults reply/crash (every statement works) | `NoAssertFailure`, `EvictionMeansReplaced`, `RefusedOnlyIfInvalid` |
| `FreedRows` | 1 password, 3 logins, fault freed | `EvictionMeansReplaced` survives even then |
| `DaemonLoop` | 2 clients that wait for replies, 2 descriptors, 3 blocks, 3 messages in all, accept/ADD may fail | `WriterGetsReadersData`, `RepliesToSender`, `OneBlockPerClient`, liveness `EveryMessageAnswered` |
| `DaemonFaults` | 2 pipelining clients, 2 descriptors, 2 blocks, 3 messages in all, notices, handler/MOD/accept may fail | `RepliesInOrder`, liveness `DescriptorReleased`, or the daemon is dead |
| `Terminals` | 3 clients, 2 descriptors, 1 user, 3 commands in all, faults sql, die and restart, anything typed | `OldTerminalIsTold`, `NoticeNotDiverted`, `DivertInv` |
| `CarefulUsers` | the same, careful users, no faults | `CarefulInv`, `NoticeOnlyToUser`, `ExitLogsOut`, liveness `CommandAnswered` |
| `Chain` | 2 clients, 3 descriptors, 2 requests, each daemon started twice, one kill | `AnswersOwnRequests`, `RelayInv`, liveness `NobodyWaitsForever` |

Runs that end in a violation, each a disagreement between the code and what it says
of itself (details under `findings` in `PROJECT.json`):

* `CrossedLogout`: a LOGOUT handled after its sender was replaced ends the session of the
  replacement, which the next login therefore does not tell: one user, two terminals. Careful
  users are enough.
* `MisdirectedNotice`: a session outlives its connection, and the notice goes to the client that
  was given the descriptor next.
* `EvictedStays`: the notice is taken by the command thread or read together with an answer, and
  the evicted client goes on.
* `StaleUpstream`: the dispatcher dies while the receiver is idle; the receiver closes the connection, gives
  its number to the next client, and writes the next request to that client.

`NobodyWaitsForever` names the two ways in which the receiver, which serves nobody meanwhile, waits for ever, and
says there is no third: the login service died under a request, so that the dispatcher "answered" with nothing and
both stay up (`Unanswered`); or the number of the dispatcher's connection is by now a client's.

Others are modelled without a run of their own.

* A failed handler frees its block and leaves the registration pointing to it; the level-triggered `EPOLLOUT`
  hands it out again: `WriterGetsReadersData` fails with `Faults = {"handler"}`. `DaemonFaults` and `Relay` include it. When `malloc()` has given
  the block to another client meanwhile, that client's request is answered twice before the daemon aborts: without its `~running` disjunct `RepliesInOrder` fails in
  `DaemonFaults`, and without `~daemon["receiver"].doomed` `AnswersOwnRequests` fails in `Chain` with three requests (the first
  client resets with an answer unread while its second request is handled).
* `isAlreadyLogined()` returns -1 as a `bool`; the next function's assertion then aborts the
  service: `NoAssertFailure` fails with `Faults = {"query"}`. It also fails with `{"freed"}`, and
  when `IntMax < MaxLogins` (`int id` truncates a FuiId).
* A failed update or insert still has the old device told to leave: `EvictionMeansReplaced` fails
  with `{"query"}`.
* A second login at a terminal makes that terminal exit and leaves its new session behind.
* A client can bring a daemon down: by SIGPIPE, when it leaves before two commands are answered or before a notice and a reply reach it; by the freed block of
  a handler that failed on it; by exhausted memory, one block per reset connection. No property says that the daemon survives. `daemonInit()`, which would
  ignore SIGPIPE ("shield some signals", `daemon.cpp:23`), is called by none of the daemons.
* With `Pipelining = TRUE` the second of two merged commands is never answered (`EveryMessageAnswered` fails).
* A wrong password is answered with a system error (`ReturnError`). A failed `read()` loses its
  block (`ReadFails`).

**Bounds.** A takeover needs two logins and an aftermath a third; a second user
is needed to hit the wrong row, a second password to fail authentication. `MaxLogins`
stops new LOGIN requests, never one in progress. `MaxAccounts` binds only where
`freed` lets accounts multiply. `IntMax` is out of reach in every run. For the daemon, a descriptor is reused
after its client has left; `MaxMessages` counts the messages of all clients together. A leak costs one block per client (`OneBlockPerClientHolds` proves it), so clients + 1
blocks keep memory from running out in `DaemonLoop`, and two blocks make it run out in `DaemonFaults`. In `Relay` a second start of each daemon and
one death give every order of restarts over the connections of the first run; three descriptors are one for the next daemon and one per client,
so that a number is reused. Two requests suffice for one to be answered while the other is on its way, under every kill, and for the failed handlers of dispatcher and receiver. With three the
invariants of `Chain` hold too (672,961 states), but the liveness property then takes too long to be checked routinely; the repeated answer above needs three, so `Chain` does not reach the
exception that `AnswersOwnRequests` makes, and the theorem covers any number. In `SingleTerminal` three commands suffice for a login, its takeover and a third login or an exit;
the commands of all clients are counted together. `epoll_wait()`'s MAXEVENTS (64) exceeds
what an instance can have ready. Symmetry is used in passing runs without liveness, for
users, passwords, clients and blocks; descriptors and ids are ordered and are not permuted.

**Fairness.** `DaemonLoop` assumes weak fairness of the loop alone: `while(1)` over
`epoll_wait()` with a timeout, handling each event of a batch. Nothing is
assumed of clients. `LoginService` has no liveness property: its requests come from the
chain. `EveryMessageAnswered` speaks of connections that are watched: one whose EPOLL_CTL_ADD failed is lost,
and the others are answered all the same. `Relay` assumes that some daemon that can take a step takes one, which is less than
fairness of each; nobody has to kill or start a daemon, and clients owe nothing. `SingleTerminal` assumes that both threads of a client run (weak fairness of their
reads and of `exit(0)` after its LOGOUT), and of the receiver that the two writes follow and that
a descriptor ready again and again is handled (strong fairness per descriptor):
`epoll_wait()` returns every ready descriptor, and each is handled before the next call.
Nobody has to connect or type, and nothing has to fail.

**Deadlock** is checked except where the daemon may be dead for good (no supervisor
exists in the repository).

**Mutants.** Definitions marked "Mutant of X" are X with a plausible bug. Each
property has one that breaks it.

## 4. Proofs

`LoginServiceProofs`: for all sets of users, passwords and devices and all bounds. What is assumed of the
faults is a hypothesis of each theorem: `RowsIntact` is "no `freed`, and no `FuiId` exceeds `INT_MAX`",
`StatementsWork` is "no `query` and no `lost`"; crashes and lost answers are always admitted.

* `TypeCorrect`: whatever fails.
* `SingleLoginHolds`, `RegisteredOnceHolds`, `SuccessIsRecordedHolds`, the action property `OnlyOwnSessionHolds` and the
  refinement `RefinesRegistry` of `SessionRegistry`: under `RowsIntact`.
* `EvictionHolds`: under `StatementsWork`, freed rows included.
* `NoAssertFailureHolds`, `RefusalHolds`: under both. With `query` or `freed` TLC finds the assertion failing.

`SingleLogin` is not inductive: `Login` inserts without looking, relying on a select
or update several statements ago. `IInv` adds the missing links:
`StepMatchesRequest` (each step works on a request of its kind),
`SelectStillHolds` (no account at `regist`, password checked from `isAlreadyLogined`
on, no session at `login`, the row id still active at either update) and
`ResultIsTrue` (the pending and the written success message are true of the
tables). `LoginFaults` checks `IInv` with TLC. The three lemmas `InsertLogin`,
`UpdateLogin`, `InsertAccount` say what the statements that write do to the active
rows of an arbitrary user, and carry both the invariant and the refinement. The others
have invariants of their own: `EvictionInv` (a device is named for eviction only between the select that found it
and the answer, and in the answer only after the insert), `NoFaultInv` (the select and the row count agree) and
`RefusalInv` (what was checked of the password at its select still holds when the answer is written).

`SingleTerminalProofs`: for all sets of clients, users and descriptors, all faults and any way
of typing, `TypeCorrect`, `OldTerminalIsToldHolds` and `NoticeNotDivertedHolds`. The first property speaks of moments when no
answer is pending; between the login and the notice it says nothing, so it is not
inductive. `TerminalInv` says where an untold terminal's session is at every moment: in
the table, on the descriptor the terminal owns, or in `logoutFd` of the pending answer
(`UntoldIsRecorded`). That needs that a descriptor has one owner (`OwnersDistinct`) and that a
request keeps its descriptor open (`RequestsOwned`). `NoticeNotDiverted` is an action property about a stale
descriptor: when the notice reaches a terminal that never was the user's, no terminal was waiting for it. `DivertInv`
adds that the pending answer names the session its login took over (`AnswerNamesOld`), so an untold terminal's
session cannot be on a third descriptor. `Terminals` checks `DivertInv` with TLC, `DivertInvariance` proves it.

`CarefulProofs`: for all sets of clients, users and descriptors and any number of commands, under `CarefulUsers` (`Careful /\ Faults = {}`):
the action properties `NoticeOnlyToUserHolds` and `ExitLogsOutHolds`. Neither holds for other users (`MisdirectedNotice`), with killed clients,
failed statements or a restarted receiver. The invariant `CarefulInv` adds to `DivertInv`, for a receiver that still serves:

* `OneCommand`: a client has at most one command on the way: not read yet, in its block, or answered and not seen.
* `NameKept`: a LOGIN on the way finds its terminal open and not told to leave; a terminal that was told still has the name it logged in with (`mine`), or
  its LOGOUT is on the way. So a notice and a new LOGIN of the same terminal never cross.
* `SessionKept`: a session on a descriptor is the one its client is logged in to, or a LOGOUT for it is on the way and not handled. That gives
  `ExitLogsOut`, because a descriptor is closed only when no command of it is left (`NothingLeft`).
* `SessionsOwned`: a descriptor in the table or in `logoutFd` is that of a client where the user has logged in. It survives `Connect` only because of
  `ExitLogsOut`; the two properties need each other.

Even with careful users a block can be freed early: the notice goes to a client that has exited with messages unread, its `write()` fails, and the LOGIN that
caused it is handled again. Nothing but `BlocksKept` and `SessionsOwned` is claimed of such a descriptor: it stays open until the receiver dies of it.
`CarefulUsers` checks `CarefulInv` with TLC.

`DaemonLoopProofs`: for all sets of clients, descriptors and blocks.

* `TypeCorrect`: under all faults. The events of a batch and the registrations must be typed with it.
* `HandoverHolds`: `WriterGetsReadersData`, `RepliesToSender` and `RepliesInOrder`, for clients that wait for their replies
  and faults `accept` and `add` (`Steady`; with the others the code does not have them). `SteadyInv` is what makes them inductive: a
  registration for EPOLLOUT points to an allocated block with that descriptor and its owner's one unanswered
  message (`BlockHandedOver`); the events of a batch are still true when their turn comes (`BatchFits`); a connection has one descriptor
  (`OneDescriptor`); replies and messages are in step (`RepliesInStep`).
* `OneBlockPerClientHolds`: under `Steady` a client costs the daemon at most one block, for good: the allocated blocks map one to one into the clients. It is not a
  theorem that the daemon lives. The map must be carried along: `MemoryInv` charges every allocated block, leaked ones included, to a client of its own: a block in use to the client whose message it holds,
  a leaked one to the client whose reset made `read()` fail.

`RelayProofs`: for all sets of clients and descriptors, any number of requests, starts and kills, whichever daemons may be killed:
`TypeCorrect` and `AnswersOwnRequestsHolds`. No message says which request it answers, so the property rests on where every request
is, through deaths, restarts and reused descriptors. `RelayInv` says so, in parts:

* `ProcessOK`, `ResponseOK`, `ViewOK`, `TrafficOK`: a handler at work has the block it works on, which holds a request of an open connection; a
  connection has one descriptor; an end is seen open only while the other end's process runs.
* `ExchangeOK`: while a relay and the daemon above it are in touch (`InTouch`) there is at most one request or answer between
  them, in the connection, in the daemon's block or on its way back, and it belongs to the block the relay waits for an answer to. The
  blocking `read()` of `dealClientMessage()` gives that.
* `Sound`: the number in `upFd` still means the connection it was stored for. A relay that has lost it never gets it back, because `main()` stores it
  once. From then on it may read its own clients' requests as answers, or have requests sent back to it (that is `StaleUpstream`), but it has no
  answer to pass on. This is why the property survives the disagreement that `StaleUpstream` shows.
* `ClientOK`: the numbers of a client's requests are in order: answered, on the way to it, in the receiver's block, just written. It is claimed of clients the
  receiver has not failed yet (`Trusted`): once it handles a freed block, nothing is said of what its clients read before it aborts.
* `FreedOK`, `ResetOK` (`LossInv`): why freed blocks of the *other* daemons do no harm, though they may hold any request handled since. The dispatcher's handler
  fails only after its connection to the service is lost, so what it does with a freed block brings no answer, and the service's handler never fails. Neither fails because the daemon below has
  died: one that died with an answer unread has no request left above it.

`CoreInv` is all of it but the last item, `RelayInv` is `CoreInv /\ LossInv`. The two are proved together, since a step that handles a freed block preserves
`ExchangeOK` only by `FreedOK`.

`Chain` checks `RelayInv` with TLC. The proof has one lemma per action; `ForwardEffect`, `ReadEffect` and the like say what an action does to
one process field by field, and the frame lemmas (`ExchangeFrame`, `ClientFrame`) what that leaves alone.

Assumptions: `FdsAssumption` (descriptors are positive: 0 is stdin),
`BoundsAssumption`, `FaultsAssumption`, `ClientsAssumption` (`NoClient` is no client; in `Relay`, a client
is no daemon), `NoLinkAssumption`.

Only model-checked: all liveness (`EveryMessageAnswered`, `DescriptorReleased`, `CommandAnswered`, `NobodyWaitsForever`), since
liveness under fairness and ENABLED are outside the prover. Every other property of a passing run has a theorem; that of `RepliesInOrder` is for clients that wait for
their replies, while with pipelining and failing handlers it is checked by `DaemonFaults` alone.

## 5. Not modelled, and the plan

* cJSON (third-party) and its failures on text that is not JSON, except the empty answer and the block of a failed `read()`; items of the wrong JSON type, on
  which `assert` ends the process (in `Relay` that is a `Kill`).
* The log library and the name map `_fdName`: nothing reads them but log lines.
* The unused functions `noticeLogout`, `daemonInit`, `closeMysql`; the stale copies in `service/messageReceiver/`
  (`loginer.cpp`, `register.cpp`, `sqlApi.cpp`, `logrecord.c`), which the receiver's code never calls; generated trees.
* Lengths: a message of exactly 10240 bytes, for which `dealReadEvent()` and the two `response[ret]` write one byte too far, and the write to
  `message[-1]` in `justRecvMessage()`. What such a byte overwrites is not a state of the protocol.
* In `SingleTerminal`: passwords, freed rows, and a freed block that becomes another client's. In `Relay`: the notice, and commands merged in one read.

What is left:

1. Proofs: the steps of the liveness arguments that are safety (what each helpful action changes, and that nothing else undoes it) as theorems beside
   `EveryMessageAnswered` and `CommandAnswered`.
2. `SingleTerminal` with two users in every run.
