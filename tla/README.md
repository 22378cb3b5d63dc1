# Formal models of the NeL network library and shard services

NeL (Nevrax Library) is the C++ library behind an online role playing game: 3D
engine, sound, geometry, and the network library with which the servers of a
shard talk to one another and to the players; nelns holds the servers that every
shard has.  This directory holds TLA+ models of the network library and of these
servers, TLC configurations that check them, and TLAPS proofs.  The models follow
the Unix build (`NL_OS_UNIX`), release mode.

    tlc -workers 2 -config Unified_shard.cfg MCUnified.tla
    tlapm Naming_proofs.tla

`PROJECT.json` lists the runs, and for every definition that models code the
lines it stands for.

## 1. Inventory

### 1.1 The layers of the network library (nel/src/net)

| Part | State | Operations | Interacts with |
|---|---|---|---|
| Layer 0, `CSock`, `CTcpSock`, `CListenSock` | descriptor, `_Connected` | connect, accept, send, receive, shutdown | the system |
| Ring buffer, `CBufFIFO` (nel/misc) | byte array, head, tail, rewinder, empty flag | push, front, pop, clear, resize | one in each direction of a connection |
| Framing, `CBufSock`, `CNonBlockingBufSock` | send queue, `_ReadyToSendBuffer` and index, triggers; length and block being received; physical, logical and advertised connection state | pushBuffer, update, flush, receivePart, connect, disconnect, advertise(Dis)Connection | main thread sends, a network thread receives |
| Receive queue, `CBufNetBase` | fifo under a mutex, volatile flag, data available pipe | pushMessageIntoReceiveQueue, the flag, the pipe | network threads push, the main thread takes |
| Server, `CBufServer`, `CListenTask`, `CServerReceiveTask` | pool of receive threads, per thread a set of connections, a set to remove and a wake-up pipe; connected clients | accept, dispatchNewSocket, the loops of the threads, update, disconnect, dataAvailable, receive, destructor | listen thread, receive threads, main thread |
| Client, `CBufClient`, `CClientReceiveTask` | one socket object, receive thread | connect, disconnect, send, update, dataAvailable, receive, destructor | main thread, receive thread |
| Layer 3, `CCallbackServer`, `CCallbackClient` | callback array, default callback, authorised key, message numbers | update, baseUpdate, processOneMessage, authorizeOnly, send | layer 1; callbacks into the application |
| Message recorder | file of messages, queue to replay | record, replay | layer 3 |
| Naming client, `CNamingClient` | list of registered services, own id, callbacks | registerService, resendRegisteration, the callbacks for RG, RGB, UNB | naming service; calls layer 5 |
| Layer 5, `CUnifiedNetwork` | `_IdCnx` by service id, `_NamedCnx` by name, appIds of the connections accepted, callbacks up and down | init, connect, addService, uncbServiceIdentification, uncbDisconnection, the broadcasts, update, autoReconnect, send, sleep | layer 3, naming client |
| Login on the front end, `CLoginServer`, `CLoginClient` | `PendingUsers` with times, `UserIdSockAssociations` | cbWSChooseShard, cbShardValidation, refreshPendingList, clientDisconnected, cbWSDisconnectClient | welcome service, application |
| Modules, `CModuleManager`, gateways | proxies, plugs, routes, distances | plug, unplug, open, close, broadcast | layers 3 and 5 |
| Frame, `IService`; admin; layer 4 | state of the service, counters, requests | main loop, commands | everything above |

### 1.2 The servers (nelns)

| Part | State | Operations | Interacts with |
|---|---|---|---|
| naming_service | `RegisteredServices`: id, connection, name, addresses, whether it waits to leave and on whose acknowledgements | cbRegister, cbResendRegisteration, doRemove, cbDisconnect, cbACKUnregistration, timeout, command kill | naming clients, by RG, RRG, RGB, UNB, ACK_UNI |
| login_service | data base of users and shards, temporary cookies | checks for the web pages, cbWSIdentification, cbWSDisconnection, cbWSClientConnected, cbWSShardChooseShard | web pages, welcome services |
| welcome_service | `FESList` with the counters of each front end, `UserIdSockAssociations` | lsChooseShard, disconnectClient, cbFESClientConnected, cbFESRemovedPendingCookie, cbFESConnection, cbFESDisconnection | login service, front ends, layer 5 |
| admin_service, admin_executor_service | requests, states of services | requests with time-outs, restarts | layer 5, processes |

### 1.3 The rest

nel/misc (threads, mutexes, tasks, streams, files, configuration), nel/memory,
nel/3d, sound, georges, pacs, ligo, ai, logic; snowballs2, samples, tools, web.
Numbers and content rather than protocols; see section 7.

### 1.4 What is hard, and what makes it correct

Layer 1 is where the threads are.  Everything above runs in the main thread of
a service and sees the world through the receive queue; there the difficulty is
that messages of several connections come in any order, and that services end.

* **Receive queue.**  The push of a message and the write of its byte are two
  steps, the test of the flag, the look at the front, the read of the byte and
  the pop are four, and several objects share one pipe.  Correct: the blocking
  read waits for a moment only; the message popped is the one looked at; the
  flag loses no wake-up; messages of a thread stay in order, none is lost.
* **Server.**  A connection object is reached from three kinds of threads
  under three kinds of mutexes.  Correct: connection event first, disconnection
  event once; in one thread's set and deleted once, by that thread, after the
  application has heard; no set holds a deleted object; pool and sets within
  their limits; every closed connection is deleted; the destructor ends and
  leaves nothing.
* **Client.**  One socket object lives through several connections, with three
  states (connected physically, known to be, told to be) that change in
  different places, and cancelled threads of former connections.  Correct: the
  end of a connection is told once, and not when the application made it
  itself; it is told in the end; nothing received belongs to a former connection.
* **Framing.**  send() takes and recv() gives parts.  Correct: blocks come out
  whole, once and in order, and none stays behind.
* **Ring buffer.**  Three pointers and a flag, blocks that never wrap, growth.
  Correct: no block is overwritten; empty and full are told apart; size is exact;
  it grows only when it must.
* **Naming.**  An id is given again when its owner is gone, while others still
  take it for the old one.  Each removal is broadcast, acknowledged, and can
  overlap with others, with the death of those who should acknowledge, with a
  timeout and with the loss of the naming service itself.  Correct: an id has
  one owner at a time, and is not given again before everybody has forgotten the
  old owner; nobody is waited for who cannot answer; all lists agree in the end.
* **Layer 5.**  A service learns of another from the naming service, from the
  identification on a new connection and from the disconnection event, in any
  order.  Correct: a message is attributed to its sender; up and down callbacks
  alternate; every service is told in the end of exactly the others that run.
* **Login.**  A cookie goes from the web over login service, welcome service and
  front end to a client and back over a new connection, while cookies expire or
  are replaced, users are kicked, front ends end.  Correct: a cookie lets in one
  connection; the counters by which the welcome service chooses the front end
  are true; login and welcome service agree on who is there; nobody stays
  Online who is not connected.

The hazards, each at its line, are in `PROJECT.json`, with the properties that
would catch them or the reason why none does.  Smaller ones not listed there:
sleepUntilDataAvailable ignores the time that has gone by (buf_server.cpp:517);
`_BufferSize * 2` overflows at 2^31 bytes (buf_fifo.cpp:101);
getSendQueueSize(InvalidSockId) assigns to its total (buf_server.cpp:654); the
destructor closes the listen socket while the thread may select() on it
(buf_server.cpp:178); counters of threads without a mutex (buf_server.cpp:1014).

## 2. Modules

| Module | Models | Main correspondence |
|---|---|---|
| `Streams` | abstract: what a receive queue promises | numbered streams per producer, produce, consume, discard |
| `RecvQueue` | `CBufNetBase` and the parts of `CBufServer` and `CBufClient` that use it | `Push`/`WriteByte` = pushMessageIntoReceiveQueue in its two halves; `TestFlag`, `Front`, `ReadPipe`, `CallbackReturns`, `ExtractEvent`, `Receive` = dataAvailable and receive, one step per critical section or blocking call; `CallSleep`, `Select` = sleepUntilDataAvailable; `MainPush` = events the main thread pushes itself; `Clear` = CBufClient::disconnect |
| `BufFifo` | `CBufFIFO` | one action per outcome of canFit() in push (`PushIntoEmpty`, `PushAfter`, `PushBefore`, `PushBetween`, `PushGrown`), `Pop`, `Clear`, `Resize` |
| `Channel` | abstract: an ordered channel that may lose its end | |
| `BufSock` | one direction of a connection | `PushBuffer`, `Update`, `CallFlush` around `Flush`; `TimeElapses`; `ReceiveLength`, `ReceivePayload` = the halves of receivePart; `Close` |
| `Sessions` | abstract: the life of a connection for the application | pending, connected, closed, freed |
| `BufServer` | `CBufServer` with its threads | `Accept` to `AddNewThread` = CListenTask::run and dispatchNewSocket; `BeginLoop` to `EndLoop` = CServerReceiveTask::run; `BeginWalk` to `EndThread` = update and disconnect(all); `HandleConnection` to `WakeOwner` = dataAvailable; `BeginDestroy` to `DeleteAll` = the destructor |
| `BufClient` | `CBufClient` with its threads | `Connect`, `ReplaceThread`; `Update`, `SendFails`; `HandleDisconnection`, `Receive`; `Disconnect`, `Clear`; `BeginDestroy`, `Join`; `TestConnected` to `PushBlock` = CClientReceiveTask::run; `Cancel` |
| `Directory` | abstract: what the naming service promises about ids | an id is granted, learnt, withdrawn, forgotten, and released when nobody who is informed takes it for the old owner's |
| `Naming` | the naming service, and `CNamingClient` in each service | `NsRegister` = cbRegister and cbResendRegisteration; `NsDisconnect`, `Kill` = cbDisconnect and the command, both through `DoRemove` = doRemove; `NsAck`, `NsCheck`, `NsTimeout` = the acknowledgements; `NsRestart`; `Start`, `ReadAnswer` = registerService in its two halves; `ReadRegistration`, `ReadUnregistration` = the client's callbacks; `Reconnect` = resendRegisteration; `Die`, `Leave` |
| `Unified` | `CUnifiedNetwork` over `Naming` | `Registered`, `Connect` = init and connect; `Announced`, `Unannounced` = the broadcast callbacks, joined with the step of the naming client that calls them; `Identified`, `Disconnected` = the callbacks of the connections accepted; `Ended` |
| `Login` | web, login service, welcome service, front ends, clients | `WebCheck`, `LsAsk`, `LsKick`, `WebKicked` = a page of the web and what LS does for it; `LsReads`, `LinkLost`, `LinkBack` = LS; `WsReadsLs`, `WsReadsFes`, `FrontUp`, `FrontDown` = WS; `FesReads`, `RefreshPendingList`, `ShardValidation`, `ClientDisconnected` = the front end; `ConnectToShard`, `ClientLeaves`, `FrontDies` = the world |
| `MCRecvQueue`, `MCBufServer`, `MCUnified` | the instances TLC checks | |
| `RecvQueue_proofs`, `BufFifo_proofs`, `BufSock_proofs`, `BufServer_proofs`, `BufClient_proofs`, `Naming_proofs` (with `Directory`), `Unified_proofs`, `Login_proofs` | theorems about them | section 4 |

**Grain.**  In layer 1, a critical section that takes no second mutex and does
not block is one step.  A section in which a second mutex is taken is split where
it is taken, and the two mutexes are read off the program counters (`PoolFree`,
`ConnFree`, `RemoveFree` of `BufServer`).  Everything that blocks (read and
write on a pipe, select, wait for a thread) is a step with a guard.  Statements
between that touch only the locals of a thread join the step before or after.
Above layer 1 a service has one thread: the handling of one message or event is
one step, whatever it sends.

**Data.**  A message is its producer and number (`RecvQueue`), its connection and
event type (`BufServer`, `BufClient`), its length and number (`BufSock`), its
size and number modulo `Ids` (`BufFifo`).  In `BufSock` and `BufFifo` a byte is
the block it belongs to and its position in it, so that a byte at a wrong place
shows.  In `BufFifo` what has been removed becomes `Junk`: the program leaves
the old bytes there, and a read of them shows in the model.  In `Naming`, `inst`
is a run of a process: it stands for connection, address and name, so that two
runs of one service, or two owners of an id, are told apart even where the
program only compares ids.  A cookie is its user and a key.

**History.**  Variables that the code does not have record what a property has
to know of the past; no guard reads them.  `hurried` (`Naming`): the naming
service has lost its list, dropped an entry after the timeout, or accepted an
id that was used.  `doubtful` (`Naming`): `hurried`, or an acknowledgement was
counted that is not of a registered service.  `late`, `up`, `upTwice` (`Unified`): a service was identified
after the naming service had said it is gone; whom the application takes to be
up.  `replaced`, `forgotten`, `kicked`, `disturbed`, `lost`, `entered`
(`Login`): cookies replaced; users the web has set Offline; users kicked, or
reported in twice; the link was lost; who was let in.  `failed`, and `ended` of
a connection (`BufClient`): a flush has failed; who has ended it.

**How they fit together.**  `BufServer` and `BufClient` use the receive queue as
a sequence, which `RecvQueue` justifies: it implements `Streams`, whose messages
come out in the order of each producer.  `RecvQueue` and `BufSock` use their
fifos as sequences, which `BufFifo` justifies with `BlocksIntact`.  In
`BufServer` and `BufClient` a block arrives in one step or, with `Partial`, in
two; that it arrives whole is `BufSock`.  `Naming` and `Login` have a sequence
of messages per connection with the disconnection event at its end, which is
what `Channel` and `Sessions` say a connection is; they do not depend on more.
`Unified` EXTENDS `Naming`: each of its steps is a step of `Naming` with what the
callbacks of layer 5 add, or leaves `Naming` alone, so that what is proved of
`Naming` holds in `Unified` (`ImplementsNaming`).

**Slips.**  A definition `Slip_X` before `X` is `X` with a mistake that a change
of the code could make.  No action uses one.  Put in the place of `X`, it makes
TLC find a violation of the property it is listed with in `PROJECT.json`.

## 3. Runs

| Run | Instance | Distinct states | What it shows |
|---|---|---|---|
| `RecvQueue_shared` | a server and a client on one pipe of 8 bytes, 3 messages per thread, 1 event per object pushed by the main thread, at most 2 messages thrown away before the last disconnect | 212 000 | `Ledger`: every byte written, still to be written or in hand stands for one message; `ReadNeverStuck`, `FrontIsStable`, `FlagIsExact`; the queues implement `Streams` |
| `RecvQueue_server` | a server with listen and receive thread, the blocking scheme, a pipe of 2 bytes | 2 900 | two pushers into one queue: `QueueOrder`; `EverythingDelivered` although the writers wait for room |
| `BufFifo_ring` | blocks of 1, 2 and 4 bytes, headers of 1, arrays up to 20 bytes, calls of resize(0) and resize(9) | 143 500 | `BlocksIntact`, `PointersAreExact` (empty() and size()), `GrowsInProportion` (few bytes are free when the array grows, and it at most doubles what it must hold) |
| `BufSock_stream` | blocks of 1, 3 and 5 bytes of which 5 is refused, TCP holds 3 bytes | 53 200 | `BytesAreWhole`, implements `Channel`; `EverythingArrives` |
| `BufServer_fill` | 2 connections, `FillThreads`, 2 threads of 1 socket, 1 message, failing flushes, select() that fails, 2 calls of disconnect | 4.6 million (symmetry) | `Ownership` (one owner, no deleted object in a set), `EventOrder`, `HandlerAsserts`, `SocketsPerThread` |
| `BufServer_spread` | 2 connections, `SpreadSockets`, 1 thread, 1 message each, only peers close and no flush fails, the destructor at any time | 174 000 (symmetry) | `PoolBounded`, `NoAccessAfterDelete`; implements `Sessions`; `EverythingSettles`: closed connections are deleted, the destructor ends and leaves nothing |
| `BufServer_late` | as `fill` with one thread of two sockets, and disconnect | violated | finding 1 below |
| `BufClient_reconnect` | 3 connections, 1 message each, 2 disconnects, partial reads, failing sends, the destructor | 824 000 | `ToldInOrder`, `ActiveDisconnectIsSilent`, `PhysicalImpliesLogical`, `AllReadBeforeDisconnection`; `ConnectionLossIsNoticed`, `DestructorEnds` |
| `BufClient_disconnect` | 2 connections, 1 disconnect | violated | finding 2 |
| `Unified_shard` | 3 runs of services under two names, ids 1 to 3, 2 faults (deaths, timeouts, losses of the naming service, a kill as the first of them) | 410 000 | `IdsAreUnique`, `AwaitedAreThere`, `Attribution`, `UpAndDown`; implements `Directory`; `EverybodyIsTold` |
| `Unified_ghost` | 2 services, 1 fault | violated | finding 3 |
| `Login_shard` | 2 users, 2 front ends, 2 connections, 2 cookies, a second front end opened at 1 user, at most 2 users, 1 fault | 731 000 | `LetIn`, `UsersCounted`, `PendingCounted`, `OnlineIsTracked`; `StatesSettle` |

### Bounds, and why they are enough

* Messages (`MaxPush`, `MaxMessages`, `MaxBlocks`, `MaxEvents`).  Code and
  properties treat messages alike, and look at the first of a queue and at pairs
  of one producer.  Two per producer show order, three a push between the two.
* Two connections of a server are two threads with one, or one thread with two;
  three connections of a client are a present one, one whose thread has just
  been cancelled and one whose thread may still run.
* `MaxThreads`, `MaxSockets` are 1 or 2: the limits are reached.
* `PipeCap`: 8 in `shared`, which is as many as there are messages, so that
  nobody waits for room; 2 in `server`, where they wait.
* `MaxDisconnects`, `MaxStale` bound calls the application makes; they are
  budgets in guards, not assumptions about the code.
* `BufFifo`: `MaxSize = 20` bytes is four blocks of the largest size, so that a
  wrapped buffer holds blocks on both sides; growth goes 4, 8, 16, with 9 and 18
  for the other parity.  In the arrays of 8 and more a rewind can leave as many bytes
  behind the rewinder as `GrowsInProportion` has to exclude.  `Ids = 10` is more than
  the blocks that fit.
* `BufSock`: a block of 3 bytes and its length (5) do not fit in the TCP buffer
  of 3, so that every block and every length is cut at every place;
  `BigBuffer = 5` makes flush compact its buffer.
* `Unified_shard`: three runs of processes are a pair that talks and a third who
  takes the id of one of them, or whose acknowledgement is awaited; one more
  fault than needed for an id to be free, so that a removal overlaps another.
  With ids 1 to 3 an id is given again only when its owner has left.
  `MaxFaults` bounds deaths, timeouts and losses of the naming service together,
  `MaxKills` after how many of them the administrator kills nobody any more; each service starts once, so that
  a restart is another run with the same name.
* `Login_shard`: two cookies are two users, or one user who asks twice;
  two connections are two with one cookie, or one with each; `Threshold = 1`
  opens the second front end as soon as one user is counted, `PlayerLimit = 2`
  refuses when the counters drift.  `MaxFaults` bounds ends of front ends and
  losses of the link of LS and WS.

### Fairness, and why the code justifies it

* Threads run: a step of a thread that stays possible is taken (WF).  Where a
  mutex may be taken by others again and again it is SF: pthread mutexes are
  handed on, and the other side holds them for a bounded time.
* The main thread goes on inside a call (WF or SF of `MainStep`).
* The application calls update() and polls dataAvailable() again and again
  (SF of `CallDataAvailable`, `CallSleep`, `Poll`, `BeginWalk("update")`,
  `Update`): this is the main loop of layers 3 and 5, and of every service.
* Time goes by (`TimeElapses`).
* A service handles what it has received, in its main loop: `NsServes` and
  `Serves(s)` in `Unified`, `LsReads`, `WsServes`, `FesServes(f)` in `Login`.
  `Serves` includes the attempt to reach the naming service again, made every
  5 seconds, and that a service told to leave does.
* No fairness for the peer, for disconnect, destruction, sends or failures, for
  the start or death of a service, for timeouts, for users, clients and web.

`Unified_shard`, `Unified_ghost` and `Login_shard` have CHECK_DEADLOCK FALSE: the
processes, cookies and faults are bounded, and once all are used and everything
is handled nothing more needs to happen.

### Findings

1. `BufServer_late`, `NoAccessAfterDelete`.  A block read by a receive thread
   while update() advertises the disconnection, or after disconnect() has shut
   the socket down, is queued behind the disconnection event.  The main thread
   handles the event, the receive thread deletes the object, and receive() then
   counts in it (buf_server.cpp:553).  It does not happen when the peer closes first
   and no flush fails (`BufServer_spread`).
2. `BufClient_disconnect`, `DisconnectIsFinal`, violated in two ways.
   disconnect() on a connection that is lost but not yet advertised leaves
   `_KnowConnected` set; the next update() pushes the event and the callback is
   called, although "The disconnection callback will *not* be called."
   (buf_client.h:113).  And disconnect() empties the queue while the receive
   thread may still read or hold a block, which the application then receives on
   the next connection; in the same way, as connect() does not reset the state of
   receivePart, a block half read is completed with bytes of the next connection.
3. `Unified_ghost`, `DownIsCalled`.  A service that dies just after it has
   connected: UNB may be read before UN_SIDENT, as they come on different
   connections.  uncbServiceIdentification then makes an entry for a service the
   naming service has already forgotten, calls the up callback, and nobody calls
   the down callback: uncbDisconnection leaves that to the naming service.

Met while modelling, without a run, because the runs cannot show them or the
source does not say what it should be:

* The count of RG and RGB is written as a byte (naming_service.cpp:583, 626) and
  read as two (naming_client.cpp:126).  With the binary messages no registration
  is understood; the models are of the text format (`StringMsgFormat`), where
  the width does not show.
* An id that a service brings is accepted although it is used: ok is set to
  FALSE and then to TRUE (naming_service.cpp:566).  `hurried` records it.
* cbACKUnregistration knows the sender by the appId of its connection
  (naming_service.cpp:707).  A service the administrator has killed keeps its
  connection until it leaves, and its id may be given again by then: its late
  acknowledgement is counted for the new owner of its id, and the id that is
  waited for may be released before that owner has read the end ("if everybody
  didn't answer before the time out, we remove it", :386, is then not the only
  way).  The proof of `Directory` stopped at this step; it takes 4 services and
  3 faults, one kill and two ends, and `doubtful` records it.
* doRemove awaits the acknowledgement of services on other sub nets, to which
  UNB is not sent (naming_service.cpp:407): with two nets every id waits for the
  timeout.
* registerService waits for the answer for ever when the connection is lost.
* The down callback may be called for a service that was not up (`UpAndDown`
  says nothing of it); the connection of two services that both run may break,
  and then neither callback is called and nobody connects again.
* Login: a replaced cookie stays counted in NbPendingUsers (login_server.cpp:143);
  NbPlayers of a shard stays too large after a kick, as the CC is ignored; for a
  user who is reported in twice `insert()` keeps the first connection and front
  end; after a loss of the link of LS and WS the users who are connected stay
  Offline; an unknown shard is looked up at index -1 (connection_ws.cpp:446-453);
  the sample front end (frontend_service.cpp:79) reports clients it refused.

Where a checked property holds only under a condition, the condition is a
constant of the run or a history variable, and dropping it shows why:

* `PhysicalImpliesLogical` leaves out connections on which a flush has failed:
  send() advertises the disconnection without closing the socket, so that the
  assertion of the destructor (buf_client.cpp:384) fails if the event is handled
  before an update().
* `ConnectionLossIsNoticed` leaves out connections on which disconnect() was
  called when the event was already queued: it throws the event away and leaves
  connected() true for ever.
* `RecvQueue_server` deadlocks with `MaxEvents = 1`: on a full pipe the main
  thread waits for room in its own push.  The pipe has 64 KB.
* `EverythingArrives` fails in `BufSock_stream` with `ByTime = FALSE`: the size trigger
  looks at the send queue and not at what a send has left behind.
* `PoolBounded` fails with `Fill = TRUE` in `BufServer_spread`: `FillThreads`
  warns and adds a thread.
* `EverythingSettles` fails in `BufServer_spread` with `SelectFails = TRUE`:
  nobody deletes the connections of a receive thread whose select() failed.
* `IdsAreUnique` holds as long as the naming service was not `hurried`;
  `DirectorySpec`, `Attribution`, `UpAndDown`, `EverybodyIsTold` as long as it is
  not in doubt (`doubtful`), the last three also exclude `late` (finding 3).  After a restart of the naming service services bring their old
  ids, one of which may have been given again.
* `OnlineIsTracked` and `StatesSettle` leave out the users who were kicked or
  reported in twice, and a lost link, as in the list above; `PendingCounted` counts
  the replaced cookies.

## 4. Proofs

The theorems hold for every value of the constants, from the assumption each
module states (`ConstantsAssumption`) alone: any number of objects, threads,
services, ids, users, front ends, cookies, and any bound.

`RecvQueue_proofs` (the assumption says who owns which queue, that the main
thread is not one of the network threads, and that the blocking scheme is used on
a pipe of one's own):

| Theorem | Inductive invariant | Argument |
|---|---|---|
| `TypeCorrect` | `TypeOK` | each step, with `PushFacts` and `PopFacts` on what a push and a pop do to the sequences |
| `FlagStaysExact`, `FrontStays` | `FrontInv` = types, `FlagIsExact`, `FrontIsStable` | only the main thread removes messages, and others append (`PushKeepsHead`): what it saw at the front stays there through the read and the callback.  The flag is needed to know, at the look at the front, that the queue is not empty |
| `LedgerHolds` | `LedgerInv` = `FrontInv`, finiteness, `Ledger` | a push adds a message and a writer, a write turns a writer into a byte, a read turns a byte into the byte in hand, a pop takes it with the message; `Cells` counts messages as a finite set (`PushCells`, `PopCells`, `ClearCells`).  `FrontInv` says that a message is there when one is popped |
| `ReadNeverBlocksForGood` | `LedgerInv` | at the read a message is queued and nothing is in hand, so by the ledger the pipe or a writer has a byte, and the writer is not the main thread |
| `OrderIsKept` | `OrderInv` = `FrontInv`, `QueueOrder` | the numbers of a producer in a queue are exactly those after the last handed over, increasing; so the head is the next of its producer (`HeadIsNext`) |
| `ImplementsStreams` | `OrderInv` | a push is `Produce`, a pop is `Consume` of the next number, a clear is `Discard`, all else stutters |

`Ledger` alone is not inductive (a pop from an empty queue would break it), nor
is `FrontIsStable` (at the label "front" it needs the exactness of the flag).

`BufServer_proofs`, with both thread strategies and every fault allowed.  All of it
rests on one inductive invariant, `IInv`, which says for each program counter what
the thread that is there may count on:

| Part of `IInv` | What it says |
|---|---|
| `LockInv` | who holds the mutex of the pool, and which threads have ended at each stage of the destructor |
| `TaskInv` | the sockets of a task are alive and have it as their owner; those to be deleted are among them, closed for the application, out of its list and without a disconnection to come; the copy a receive thread works on is part of its sockets |
| `ListenInv` | the connection being dispatched is alive, advertised and without an owner |
| `SockInv` | which combinations of deleted, known, owned, heard of and listed a connection goes through |
| `EventInv`, `HandlingInv` | the connection event is the first of its connection, there is at most one disconnection event, and one is in the queue as long as the application has not heard of the connection |
| `PoolInv` | there are never more threads than connections that were given to one |

| Theorem | Argument |
|---|---|
| `OwnershipHolds` | `IInv` is inductive (`NextKeeps`, a lemma per action): `NoDangling` and `OneOwner` are read off `TaskInv`, `SockInv` and `LockInv` |
| `EventOrderHolds`, `HandlerAssertsHold` | from `EventInv` and `SockInv` |
| `SocketsPerThreadHolds` | `FillInv`, relative to `IInv`: the room the listen thread found is still there when it adds the socket, for others only take sockets out (`OthersAddNone`) |
| `PoolBoundedHolds` | `SpreadInv`, relative to `IInv`: after the first thread has been looked at there is one to fall back on, and a new one is only asked for below the maximum |
| `ImplementsSessions` | six actions are steps of `Sessions` (`SessionsStep`): the advertisement, the two handlers, the deletion by the receive thread, the end of the threads and the deletion by the destructor; all others stutter (`OthersKeepStages`) |
| `NoAccessAfterDeleteHolds` | `OrderInv`, relative to `IInv`, with flushes that do not fail and no `disconnect()`: a disconnection is only queued for a connection no thread reads from any more, so it is the last event about it, and only the event about to be extracted may be about a deleted object |

Neither `NoDangling` nor `OneOwner` is inductive: that a socket in a remove set is
closed needs that its disconnection is not still to come, which needs the events.

`BufClient_proofs`: `ToldInOrderHolds`, `DisconnectIsSilent`, `AssertionsHold` and
`ReadBeforeTheEnd`, all from one inductive invariant.  Its centre is `EventInv`: at
most one end of a connection is in the queue, it is about the present connection,
and this one is still up for the application until the callback.  `QuietInv` adds
for the first connection that once its end is in the queue nothing is left to be
read or pushed.

`BufFifo_proofs`.  `FifoInv` says that there is a layout of the blocks: a function t,
t[i] the bytes of the first i blocks, and a number k, the blocks before the
rewinder (`EndsOf`, `LaidOut`), so that every byte of every block is at its place
in the array (`AllHeld`), and the block at the beginning was too large for the room
behind the rewinder (`NoRoomBehind`).  The three pointers and the flag say where head and tail are
in terms of t[k] and t[n].

| Theorem | Argument |
|---|---|
| `FifoInvHolds` | each way to push, pop, clear and resize maps the layout to a layout: a pop drops the first end and moves k (`First` is the place of the first block, wherever the rewinder is), a push adds an end behind the head or, with the rewinder set, before the tail; a resize and a growing push put everything behind place 0.  A write disturbs only what it overlaps (`BlockWritten`) |
| `PointersHold`, `BlocksStayIntact` | from the layout.  `Total` and `Places` of the properties are recursive functions; the witness t satisfies the recursion of `Total`, so CHOOSE has something to choose, and two functions that satisfy it agree: else there is a first place where they do not (`NoFirst`, by well-founded induction on a set of numbers) |
| `GrowthIsBounded` | the free bytes are the gap between head and tail and those behind the rewinder.  `Fits` bounds the first by the new block; the second are bounded by the block at the beginning of the array, for which they were not enough when it was pushed (`NoRoomBehind`, a part of the layout that pushes and pops preserve: `FewBytesFree`).  The array before the last one of the loop did not hold the blocks and the new one (`GrownSize`); that the loop's sequence of sizes exists is by the least number of sizes for which it would not (`ArraysExist`) |

`PointersAreExact` and `BlocksIntact` are not inductive by themselves: that the
blocks up to the rewinder end exactly there is in neither of them.

`BufSock_proofs`.  `SockInv` is `TypeOK`, `StreamIsWhole`, and that a failed send means a
peer that is gone, that no more is received than sent, and `PartIsPart`: between two
calls of receivePart a length or a block is never complete, without which the next
call would ask for no bytes.

| Theorem | Argument |
|---|---|
| `SockInvHolds` | the bytes under way are `Begun`, what is read of the first pending block, and `Behind`, the rest.  flush() moves bytes from `_ReadyToSendBuffer` to the wire and keeps their order, for each of the three ways it treats its index (`SentKeeps`); a push appends the bytes of the block on both sides (`EncodeMore`); a receive moves a cut (`ReceivedIs`), and when the cut is at the end of a length or of a block, both sides are cut at the same place and are equal piece by piece (`SameCut`, `WholeLength`, `WholeBlock`) |
| `StreamHolds` | a part of `SockInv` |
| `ChannelHolds` | from `SockInv`: pushBuffer is `Send`, the last byte of a block is `Receive` of the next block sent, a length that is refused and `Close` are `Break`, all else stutters; `Broken` changes in no other step, for a send fails only once the peer is gone |

What `EncodeAll` (a flattening, defined by recursion in the community modules) makes of
a sequence is told by the sequence of its prefixes: it exists, it is the function
that `FlattenSeq` chooses (`FirstBytesExist`, `EncodeAllIs`), again by the first place
where it would not, and the facts about an append and a first block are read off it
(`EncodeMore`, `EncodeFirst`).

`Naming_proofs`, first part, the list of the naming service:

| Theorem | Inductive invariant | Argument |
|---|---|---|
| `NamingInvHolds`, `NamingTypes` | `NamingInv` = types, finiteness of the list, `IdsAreUnique`, `AwaitedAreThere` | the choices of the code (first entry, smallest free id, last place) are those of `First`, `Min` and `Max` over finite sets of numbers, which have a least and a greatest element (`Least`, `Greatest`, by the least cardinality of a set without one) |
| `IdsStayUnique` | `NamingInv` | a new entry gets an id that is not in the list (`WantedIsFree`) or `hurried` is set; every other step keeps or removes entries, or changes what they await (`DoRemoveKeeps`, `NsAckKeeps`) |
| `AwaitedStayThere` | `NamingInv` | a removal takes the id of the entry out of everything awaited, and awaits the ids of other entries that are registered; an entry that is dropped was no longer registered (`FewerAwaited`) |

`Naming_proofs`, second part: what the acknowledgements are for.  The inductive invariant
`KnowInv` is `NamingInv` and, until the naming service is in doubt, `Knowledge`:

| Part of `Knowledge` | What it says |
|---|---|
| `Lives(s)`, `Asks(s)`, `HasSid(s)` | where a service is in its life: it asks once and first of all, has one id, and what it lists and is told are owners of their ids |
| `Shape(s)` | what it will still read about an id: the owner once, when its list has none, and after that only the end of the owner |
| `Knows(s)` | for a registered service: whom it takes for the owner of an id, in its list or in a message it has not read, is in the list of the naming service; it will be told when the owner is on its way out; and the ends it has still to read or to acknowledge are no more than the naming service awaits of it (a cardinality of places in two queues against the bag `acks`) |

| Theorem | Argument |
|---|---|
| `ImplementsNaming` | every step of `Unified` is one of `Naming` or leaves it alone (`StepIsNaming`) |
| `KnowledgeHolds` | `KnowInductive`, a lemma per handler of the naming service and of the client; messages are counted by position (`AppendAt`, `TailAt`), so that no induction over queues is needed |
| `NamingImplementsDirectory`, `ImplementsDirectory` | from `KnowInv` before and after a step: a registration is a grant, an entry dropped because all have acknowledged is a release that nobody lists any more (`ReleaseStep`, from `Knows`), reading is learning or forgetting (`NamingRefines`) |

`Unified_proofs`: `Steady` holds whatever happens (types, no connections before
the main loop, ids of answers); `Layer` adds for an orderly run (neither
`doubtful` nor `late`) that every entry by id has the name of the service on its
connection, and what was announced to the application is what the tables have.
`UnifiedInv` is `KnowInv`, `Steady` and `Layer` together: whether a connection that
is already there is that of the id that RGB announces is only known from
`Knowledge`.

| Theorem | Argument |
|---|---|
| `LayerHolds` | `UnifiedInductive`: the callbacks of `CNamingClient` and of the connections, each with a lemma on what it does to the tables (`...Does`) and one on the invariant (`...Layer`) |
| `AttributionHolds`, `UpAndDownHolds` | read off `Layer` and `Steady` |
| `UnifiedIdsAreUnique`, `UnifiedAwaitedAreThere` | `ImplementsNaming` and the theorems of `Naming_proofs`: the two invariants for the specification that the runs check |

`Login_proofs`, first part: `CookiesAreInOnePlace` and `LetInOnce`.  The inductive invariant
`LetInInv` says that a cookie has been generated (`Generated`) and is in one place
(`InOnePlace`): in one message to the welcome service, in one message to one front
end, in the list of one front end, or with a connection that was let in; and that
the connection a front end has for a user is his and is in (`His`).
Each step moves a cookie on (`WsReadsLsStep`, `FesReadsStep`,
`ShardValidationStep`), makes a new one (`LsAskStep`) or loses some (`Fewer`).
`LetIn` alone is not inductive: a cookie twice in the lists could let in twice.
Messages are counted by position (`EachOnce`), so that `HeadTaken` and `OneMore`
are all that is needed about sequences.

`Login_proofs`, second part: what the welcome and the login service count and call
Online.

| Theorem | Inductive invariant | Argument |
|---|---|---|
| `NumbersAgree` | `AllTypes` (with NbPlayers = the users Online and those set Offline by the web) and `CountInv` = `Listed`, `InsEntered`, `Ended`, `Fresh`, `Balanced` | `Number(q, T)` is the cardinality of the places of a queue with a message of T; an append and a read change it by one or nothing (`NumberAppend`, `NumberTail`).  `LetInInv` says that a cookie a front end reads is not yet in its list, so that the list grows by one |
| `UsersAreCounted`, `PendingAreCounted` | `CountInv` | counters and messages are those of `BalanceOf` |
| `LsAndWsAgree` | `AgreeInv`: the last CC about a user on its way to LS, or LS when there is none, says of him what WS has | a CC is appended at the same step as WS changes `where`; the reader takes from the front, so that the last one stays the last |
| `OnlineTracked` | `AllTypes`, `AgreeInv` | `OnlineAfter` by the greatest position |

The counters alone are not inductive: WS takes 1 from NbUser only when it is not
0, and an equation between counter and messages would not say that it is not.
`Guarded` does: in every prefix of what a front end has still to be heard of, the
reports that somebody went are at most NbUser and the reports that somebody came.
That one report of coming is sent before each of going, and that both stay in
order, makes this inductive, so that the guard of the code is never what saves it.

Only model-checked:

* Liveness, and what depends on ENABLED, is out of reach of the prover:
  `EverythingDelivered`, `EverythingArrives`, `EverythingSettles`,
  `ConnectionLossIsNoticed`, `DestructorEnds`, `EverybodyIsTold` and `StatesSettle`,
  and that no module deadlocks.  They are all the properties of passing runs that
  no theorem states.
* The three violations (`NoAccessAfterDelete` in `BufServer_late`,
  `DisconnectIsFinal`, `DownIsCalled`) are counterexamples of TLC.

## 5. Assumptions of the models

* TCP delivers in order and without loss until the connection ends; a send that
  has failed for another reason than "would block" never succeeds again.
* `CTcpSock::disconnect` is a shutdown: what had arrived can still be read.
* A flush can fail once the peer has closed, not before.
* send() takes all that TCP has room for, and recv() gives all that is there, up
  to what was asked; the room is any number from nothing to `WireSize`, so that a
  block is cut at every place.  The receiver may close at any time (`Close`), of
  which the end that recv() reports (sock.cpp:505) is one case.
* A pthread mutex is handed on to everyone who waits.
* `volatile` reads and writes of the flag are atomic and ordered with the
  mutex, as on the processors the code was written for.
* The application calls receive() after dataAvailable() has returned true,
  connect() when not connected, and disconnect() when connected, as the
  assertions demand.  Callbacks may call disconnect(hostid) (`BufServer`) and
  cause events (`RecvQueue`).
* Above layer 1: messages and events of one connection are handled in order,
  those of different connections in any order; messages are in the text format; a
  connection between two services ends with one of them (but that to the naming
  service, and that of LS and WS, may also be lost).
* `Login`: front ends are on TCP, and their application calls
  clientDisconnected for the clients that were let in, as snowballs does.

## 6. Plan

Done: receive queue; ring buffer; framing; server; client; naming service and
clients; layer 5; login; and the proofs of the safety properties of all of them.

Next, the most important first:

1. `Callbacks` (layer 3, callback_net_base.cpp): the callback array, default
   and disallowed messages, `authorizeOnly`, baseUpdate and baseUpdate2 with
   their limits, over the queue of layer 1 as `Streams`/`Sessions` promise it.
2. The module gateways: routes and distances when gateways are plugged,
   unplugged and lost.
3. The admin services: requests with time-outs, restarts of services.
4. Small modules for the reader-writer lock, the task manager and the
   coroutines of nel/misc.
5. External services and several addresses in `Unified`; UDP mode, several shards
   and restarts of the welcome service in `Login`.

Theorems to prove next: every safety property of the runs is a theorem; what is left is to
prove of compositions what is now said of each part (the fifos of `RecvQueue` and
`BufSock` are those of `BufFifo`), and whatever new modules promise.

## 7. Not modelled

* Layer 1: replay mode (no sockets), statistics, the counters of threads,
  throughput; the Windows variants; the version of push with two buffers
  (it differs in a limit of 10 MB); the mutex of the receive queue in
  `BufClient`, which a cancelled thread may hold when it dies.
* Naming: QP (allocation of ports), UNI (no service sends it; `Kill` does the
  same), restrictions per machine, lookups by name, the binary format.  Denied
  registrations (`Unique`) and ids given by the configuration (`Given`) are in
  the model and in the theorems; the runs have none.  Several sub nets (`Net`)
  likewise.
* Layer 5: external services, that reconnect by themselves; several addresses
  and networks of a service; sending and the choice of a connection; the
  callbacks of messages; autoCheck.  A connection of two services that breaks
  while both run.
* Login: privileges, closed shards, several shards and several requests of one
  user at a time; UDP mode, `AcceptInvalidCookie`; FEPA and the statistics
  (NBPLAYERS, NbPlayers in the data base); patch mode; restarts of the welcome
  service, two of them for one shard; its module interface.
* Layer 3, modules, admin services: planned.
* Layer 4 (superseded by layer 5), the service frame, commands, configuration:
  loops, formatting and parsing around the parts above.
* nel/misc apart from the ring buffer, nel/memory: data structures; mutexes and
  threads are what the models are built on.
* nel/3d, sound, georges, pacs, ligo, ai, logic, snowballs2, samples, tools, web:
  graphics, geometry and content.
