----------------------------- MODULE BufServer -----------------------------
(***************************************************************************)
(* The life of a connection in CBufServer.  The listen thread accepts it,  *)
(* advertises it and dispatches it to a receive thread of the pool; that   *)
(* thread reads from it and pushes what it reads into the receive queue;   *)
(* the main thread, in update(), notices that it is closed and advertises  *)
(* the disconnection, and in dataAvailable() handles the two events and    *)
(* gives the object back to its receive thread, which deletes it.          *)
(*                                                                         *)
(* The mutexes are not variables: who holds one is read off the program    *)
(* counters (PoolFree, ConnFree, RemoveFree).  Critical sections that take *)
(* no second mutex are one step.  The pipe of the receive queue is left to *)
(* RecvQueue; a block read by receivePart is one message (see BufSock).    *)
(***************************************************************************)
EXTENDS Naturals, Sequences, FiniteSetsExt

CONSTANTS Socks,           \* CServerBufSock objects, each accepted at most once
          InvalidSockId,   \* the null TSockId
          Fill,            \* _ThreadStrategy is FillThreads, else SpreadSockets
          MaxThreads,      \* _MaxThreads
          MaxSockets,      \* _MaxSocketsPerThread
          MaxMessages,     \* bound: messages the peers send in all
          MaxDisconnects,  \* bound: connections the application disconnects
          FlushFails,      \* flush() may fail once the peer has closed
          SelectFails,     \* select() may fail in a receive thread (a signal)
          Stops            \* the application may destroy the server

ASSUME ConstantsAssumption ==
    /\ IsFiniteSet(Socks) /\ InvalidSockId \notin Socks
    /\ MaxThreads \in Nat \ {0} /\ MaxSockets \in Nat \ {0}
    /\ MaxMessages \in Nat /\ MaxDisconnects \in Nat
    /\ {Fill, FlushFails, SelectFails, Stops} \subseteq BOOLEAN

(* a receive thread and its task are added for a socket, so there are never *)
(* more of them than sockets                                                *)
Tasks == 1 .. Cardinality(Socks)
NULL == 0

VARIABLES sock,        \* the CServerBufSock objects and the peers behind them
          task,        \* the receive tasks and where their threads are
          pool,        \* size of _ThreadPool: tasks 1 .. pool exist
          listen,      \* the listen thread
          main,        \* the main thread
          clients,     \* _ConnectedClients
          queue        \* _RecvFifo

vars == <<sock, task, pool, listen, main, clients, queue>>

SockStates == [obj : {"none", "alive", "deleted"},
               phys : BOOLEAN,          \* Sock->connected()
               know : BOOLEAN,          \* _KnowConnected
               logical : BOOLEAN,       \* _ConnectedState
               owner : Tasks \cup {NULL},
               open : BOOLEAN,          \* the peer has not closed
               inbox : Nat,             \* sent by the peer, not received
               sent : Nat,              \* bound: sent by the peer
               view : {"none", "connected", "closed"}]  \* history: callbacks

TaskStates == [pc : {"none", "clear", "erase", "copy", "select", "receive",
                     "push", "dead"},
               conns : SUBSET Socks,    \* _Connections
               remove : SUBSET Socks,   \* _RemoveSet
               wake : Nat,              \* bytes in the wake-up pipe
               exit : BOOLEAN,          \* exitRequired()
               copy : SUBSET Socks,     \* connections_copy
               ready : SUBSET Socks,    \* those of copy still to be read
               skip : BOOLEAN,
               woken : BOOLEAN,         \* select() saw the wake-up pipe
               cur : Socks \cup {InvalidSockId}]   \* the socket being received from

ListenStates == [pc : {"accept", "advertise", "lock", "scan", "add", "wake", "done"},
                 sock : Socks \cup {InvalidSockId},
                 i : Nat,                     \* next thread to look at
                 best : Tasks \cup {NULL},    \* iptmin, or NULL for a new thread
                 lo : Nat, hi : Nat,          \* min and max
                 exit : BOOLEAN]

MainStates == [pc : {"idle", "threads", "visit", "callback", "remove", "wake",
                     "joinListen", "lockPool", "stop", "join", "delete", "destroyed"},
               op : {"update", "disconnect"},
               task : Nat,
               todo : SUBSET Socks,
               budget : 0 .. MaxDisconnects]

EventTypes == {"User", "Connection", "Disconnection"}
Events == [sock : Socks, type : EventTypes]

TypeOK ==
    /\ sock \in [Socks -> SockStates]
    /\ task \in [Tasks -> TaskStates]
    /\ pool \in 0 .. Cardinality(Socks)
    /\ listen \in ListenStates
    /\ main \in MainStates
    /\ clients \subseteq Socks
    /\ queue \in Seq(Events)

(* Between two connections the locals of the listen thread mean nothing,    *)
(* nor do those of the main thread between two calls and those of a receive *)
(* thread between two turns: they go back to fixed values.                  *)
ListenIdle(exit) ==
    [pc |-> "accept", sock |-> InvalidSockId, i |-> 1, best |-> NULL,
     lo |-> 0, hi |-> 0, exit |-> exit]

MainIdle(budget) ==
    [pc |-> "idle", op |-> "update", task |-> 1, todo |-> {}, budget |-> budget]

Init ==
    /\ sock = [s \in Socks |->
                  [obj |-> "none", phys |-> FALSE, know |-> FALSE, logical |-> FALSE,
                   owner |-> NULL, open |-> FALSE, inbox |-> 0,
                   sent |-> 0, view |-> "none"]]
    /\ task = [t \in Tasks |->
                  [pc |-> "none", conns |-> {}, remove |-> {}, wake |-> 0,
                   exit |-> FALSE, copy |-> {}, ready |-> {}, skip |-> FALSE,
                   woken |-> FALSE, cur |-> InvalidSockId]]
    /\ listen = ListenIdle(FALSE)
    /\ pool = 0
    /\ main = MainIdle(MaxDisconnects)
    /\ clients = {}
    /\ queue = <<>>

----------------------------------------------------------------------------
(* Slip_X is a variant of X with a mistake that a change of the code could  *)
(* make; no action uses it.  The slips show that the properties notice.     *)

(* The mutexes: _ThreadPool, and _Connections and _RemoveSet of a task *)

PoolFree ==
    /\ listen.pc \notin {"scan", "add", "wake"}
    /\ main.pc \notin {"threads", "visit", "stop", "join", "delete"}

ConnFree(t) == ~ (main.pc = "visit" /\ main.task = t)

RemoveFree(t) == task[t].pc # "erase"

Push(s, ty) == queue' = Append(queue, [sock |-> s, type |-> ty])

----------------------------------------------------------------------------
(* The peer, at the other end of the connection *)

PeerSends(s) ==
    /\ sock[s].open
    /\ MapThenSumSet(LAMBDA r : sock[r].sent, Socks) < MaxMessages
    /\ sock' = [sock EXCEPT ![s].inbox = @ + 1, ![s].sent = @ + 1]
    /\ UNCHANGED <<task, pool, listen, main, clients, queue>>

PeerCloses(s) ==
    /\ sock[s].open
    /\ sock' = [sock EXCEPT ![s].open = FALSE]
    /\ UNCHANGED <<task, pool, listen, main, clients, queue>>

----------------------------------------------------------------------------
(* Listen thread: CListenTask::run and dispatchNewSocket *)

(* a new object: which one does not matter *)
Accept ==
    LET new == {r \in Socks : sock[r].obj = "none"}
        s == CHOOSE r \in new : TRUE
    IN
    /\ listen.pc = "accept" /\ ~listen.exit
    /\ new # {}
    /\ sock' = [sock EXCEPT ![s].obj = "alive", ![s].phys = TRUE, ![s].open = TRUE]
    /\ listen' = [listen EXCEPT !.pc = "advertise", !.sock = s]
    /\ UNCHANGED <<task, pool, main, clients, queue>>

ListenExits ==
    /\ listen.pc = "accept" /\ listen.exit
    /\ listen' = [listen EXCEPT !.pc = "done"]
    /\ UNCHANGED <<sock, task, pool, main, clients, queue>>

AdvertiseConnection ==
    LET s == listen.sock IN
    /\ listen.pc = "advertise"
    /\ ~sock[s].know
    /\ Push(s, "Connection")
    /\ sock' = [sock EXCEPT ![s].know = TRUE]
    /\ listen' = [listen EXCEPT !.pc = "lock"]
    /\ UNCHANGED <<task, pool, main, clients>>

LockPool ==
    /\ listen.pc = "lock" /\ PoolFree
    /\ listen' = [listen EXCEPT !.pc = "scan", !.i = 1, !.best = NULL,
                                !.lo = Cardinality(Socks) + 1, !.hi = 0]
    /\ UNCHANGED <<sock, task, pool, main, clients, queue>>

(* slip: room for one socket too many *)
Slip_ScanFill ==
    LET noc == Cardinality(task[listen.i].conns) IN
    /\ Fill /\ listen.pc = "scan"
    /\ IF listen.i > pool
       THEN listen' = [listen EXCEPT !.pc = "add"]
       ELSE /\ ConnFree(listen.i)
            /\ listen' = IF noc <= MaxSockets
                         THEN [listen EXCEPT !.pc = "add", !.best = listen.i]
                         ELSE [listen EXCEPT !.i = @ + 1]
    /\ UNCHANGED <<sock, task, pool, main, clients, queue>>

(* FillThreads: the first thread with room for a socket *)
ScanFill ==
    LET noc == Cardinality(task[listen.i].conns) IN
    /\ Fill /\ listen.pc = "scan"
    /\ IF listen.i > pool
       THEN listen' = [listen EXCEPT !.pc = "add"]
       ELSE /\ ConnFree(listen.i)
            /\ listen' = IF noc < MaxSockets
                         THEN [listen EXCEPT !.pc = "add", !.best = listen.i]
                         ELSE [listen EXCEPT !.i = @ + 1]
    /\ UNCHANGED <<sock, task, pool, main, clients, queue>>

(* slip: one thread too many *)
Slip_ScanSpread ==
    LET noc == Cardinality(task[listen.i].conns)
        grow == pool = 0 \/ (listen.lo = listen.hi /\ pool <= MaxThreads)
    IN
    /\ ~Fill /\ listen.pc = "scan"
    /\ IF listen.i > pool
       THEN listen' = [listen EXCEPT !.pc = "add", !.best = IF grow THEN NULL ELSE @]
       ELSE /\ ConnFree(listen.i)
            /\ listen' = [listen EXCEPT !.i = @ + 1,
                              !.lo = IF noc < @ THEN noc ELSE @,
                              !.hi = IF noc > @ THEN noc ELSE @,
                              !.best = IF noc < listen.lo THEN listen.i ELSE @]
    /\ UNCHANGED <<sock, task, pool, main, clients, queue>>

(* SpreadSockets: the thread with the fewest sockets, or a new one when     *)
(* all have the same number and one more is allowed                         *)
ScanSpread ==
    LET noc == Cardinality(task[listen.i].conns)
        grow == pool = 0 \/ (listen.lo = listen.hi /\ pool < MaxThreads)
    IN
    /\ ~Fill /\ listen.pc = "scan"
    /\ IF listen.i > pool
       THEN listen' = [listen EXCEPT !.pc = "add", !.best = IF grow THEN NULL ELSE @]
       ELSE /\ ConnFree(listen.i)
            /\ listen' = [listen EXCEPT !.i = @ + 1,
                              !.lo = IF noc < @ THEN noc ELSE @,
                              !.hi = IF noc > @ THEN noc ELSE @,
                              !.best = IF noc < listen.lo THEN listen.i ELSE @]
    /\ UNCHANGED <<sock, task, pool, main, clients, queue>>

(* setOwnerTask and addNewSocket, to the thread that was found *)
AddToThread ==
    LET t == listen.best IN
    /\ listen.pc = "add" /\ t # NULL
    /\ ConnFree(t)
    /\ sock' = [sock EXCEPT ![listen.sock].owner = t]
    /\ task' = [task EXCEPT ![t].conns = @ \cup {listen.sock}]
    /\ listen' = [listen EXCEPT !.pc = "wake"]
    /\ UNCHANGED <<pool, main, clients, queue>>

WakeThread ==
    /\ listen.pc = "wake"
    /\ task' = [task EXCEPT ![listen.best].wake = @ + 1]
    /\ listen' = ListenIdle(listen.exit)
    /\ UNCHANGED <<sock, pool, main, clients, queue>>

(* slip: setOwnerTask is forgotten *)
Slip_AddNewThread ==
    LET t == pool + 1 IN
    /\ listen.pc = "add" /\ listen.best = NULL
    /\ pool' = t
    /\ task' = [task EXCEPT ![t].pc = "clear", ![t].conns = {listen.sock}]
    /\ listen' = ListenIdle(listen.exit)
    /\ UNCHANGED <<sock, main, clients, queue>>

(* addNewThread: a new task with its first socket, and its thread started *)
AddNewThread ==
    LET t == pool + 1 IN
    /\ listen.pc = "add" /\ listen.best = NULL
    /\ pool' = t
    /\ sock' = [sock EXCEPT ![listen.sock].owner = t]
    /\ task' = [task EXCEPT ![t].pc = "clear", ![t].conns = {listen.sock}]
    /\ listen' = ListenIdle(listen.exit)
    /\ UNCHANGED <<main, clients, queue>>

----------------------------------------------------------------------------
(* Receive threads: CServerReceiveTask::run *)

(* the head of the loop: exitRequired(), then clearClosedConnections() *)
BeginLoop(t) ==
    /\ task[t].pc = "clear"
    /\ task' = [task EXCEPT ![t].pc = IF task[t].exit THEN "dead"
                                      ELSE IF task[t].remove # {} THEN "erase"
                                      ELSE "copy"]
    /\ UNCHANGED <<sock, pool, listen, main, clients, queue>>

(* slip: all disconnected sockets are deleted, closed for the application or not *)
Slip_EraseDisconnected(t) ==
    /\ task[t].pc = "erase" /\ ConnFree(t)
    /\ task' = [task EXCEPT ![t].conns = {s \in @ : sock[s].phys},
                            ![t].remove = {}, ![t].pc = "copy"]
    /\ sock' = [s \in Socks |-> IF s \in task[t].conns /\ ~sock[s].phys
                                THEN [sock[s] EXCEPT !.obj = "deleted"] ELSE sock[s]]
    /\ UNCHANGED <<pool, listen, main, clients, queue>>

(* slip: the deleted sockets stay in _Connections *)
Slip_EraseKeepsConnection(t) ==
    /\ task[t].pc = "erase" /\ ConnFree(t)
    /\ task' = [task EXCEPT ![t].remove = {}, ![t].pc = "copy"]
    /\ sock' = [s \in Socks |-> IF s \in task[t].remove
                                THEN [sock[s] EXCEPT !.obj = "deleted"] ELSE sock[s]]
    /\ UNCHANGED <<pool, listen, main, clients, queue>>

(* holding _RemoveSet, with _Connections: delete the closed connections *)
Erase(t) ==
    /\ task[t].pc = "erase" /\ ConnFree(t)
    /\ task' = [task EXCEPT ![t].conns = @ \ task[t].remove,
                            ![t].remove = {}, ![t].pc = "copy"]
    /\ sock' = [s \in Socks |-> IF s \in task[t].remove
                                THEN [sock[s] EXCEPT !.obj = "deleted"] ELSE sock[s]]
    /\ UNCHANGED <<pool, listen, main, clients, queue>>

(* slip: disconnected sockets are selected too *)
Slip_CopyAll(t) ==
    /\ task[t].pc = "copy" /\ ConnFree(t)
    /\ task' = [task EXCEPT ![t].copy = task[t].conns,
                            ![t].skip = task[t].conns = {},
                            ![t].pc = "select"]
    /\ UNCHANGED <<sock, pool, listen, main, clients, queue>>

CopyConnections(t) ==
    /\ task[t].pc = "copy" /\ ConnFree(t)
    /\ task' = [task EXCEPT ![t].copy = {s \in task[t].conns : sock[s].phys},
                            ![t].skip = task[t].conns = {},
                            ![t].pc = "select"]
    /\ UNCHANGED <<sock, pool, listen, main, clients, queue>>

(* data, an end of file, or the shutdown by disconnect() *)
Readable(s) == sock[s].inbox > 0 \/ ~sock[s].open \/ ~sock[s].phys

Select(t) ==
    LET ready == {s \in task[t].copy : Readable(s)} IN
    /\ task[t].pc = "select"
    /\ ready # {} \/ task[t].wake > 0
    /\ task' = [task EXCEPT ![t].ready = ready, ![t].woken = task[t].wake > 0,
                            ![t].pc = "receive"]
    /\ UNCHANGED <<sock, pool, listen, main, clients, queue>>

(* select() returns -1, for instance when a signal interrupts it *)
SelectError(t) ==
    /\ SelectFails
    /\ task[t].pc = "select"
    /\ task' = [task EXCEPT ![t].pc = "dead"]
    /\ UNCHANGED <<sock, pool, listen, main, clients, queue>>

(* slip: an empty read counts as a block *)
Slip_ReceiveAnything(t, s) ==
    /\ task[t].pc = "receive" /\ s \in task[t].ready
    /\ sock' = [sock EXCEPT ![s].inbox = @ - 1]
    /\ task' = [task EXCEPT ![t].ready = @ \ {s}, ![t].cur = s, ![t].pc = "push"]
    /\ UNCHANGED <<pool, listen, main, clients, queue>>

(* receivePart completes a block *)
ReceiveBlock(t, s) ==
    /\ task[t].pc = "receive" /\ s \in task[t].ready
    /\ sock[s].inbox > 0
    /\ sock' = [sock EXCEPT ![s].inbox = @ - 1]
    /\ task' = [task EXCEPT ![t].ready = @ \ {s}, ![t].cur = s, ![t].pc = "push"]
    /\ UNCHANGED <<pool, listen, main, clients, queue>>

(* receivePart meets the end of the stream, or an error, or a block it      *)
(* refuses for its length                                                   *)
ReceiveEnd(t, s) ==
    /\ task[t].pc = "receive" /\ s \in task[t].ready
    /\ sock' = [sock EXCEPT ![s].phys = FALSE]
    /\ task' = [task EXCEPT ![t].ready = @ \ {s}]
    /\ UNCHANGED <<pool, listen, main, clients, queue>>

PushUser(t) ==
    /\ task[t].pc = "push"
    /\ Push(task[t].cur, "User")
    /\ task' = [task EXCEPT ![t].pc = "receive", ![t].cur = InvalidSockId]
    /\ UNCHANGED <<sock, pool, listen, main, clients>>

(* the last part of the loop reads the wake-up pipe, unless skip *)
EndLoop(t) ==
    /\ task[t].pc = "receive" /\ task[t].ready = {}
    /\ task' = [task EXCEPT ![t].wake = IF ~task[t].skip /\ task[t].woken
                                        THEN @ - 1 ELSE @,
                            ![t].pc = "clear", ![t].copy = {},
                            ![t].skip = FALSE, ![t].woken = FALSE]
    /\ UNCHANGED <<sock, pool, listen, main, clients, queue>>

----------------------------------------------------------------------------
(* Main thread: update(), and disconnect(InvalidSockId), which walk over    *)
(* all connections with the two mutexes held                                *)

BeginWalk(op) ==
    /\ main.pc = "idle" /\ PoolFree
    /\ op = "disconnect" => main.budget > 0
    /\ main' = [main EXCEPT !.pc = "threads", !.op = op, !.task = 1,
                            !.budget = IF op = "disconnect" THEN @ - 1 ELSE @]
    /\ UNCHANGED <<sock, task, pool, listen, clients, queue>>

NextThread ==
    /\ main.pc = "threads"
    /\ main' = IF main.task > pool THEN MainIdle(main.budget)
               ELSE [main EXCEPT !.pc = "visit", !.todo = task[main.task].conns]
    /\ UNCHANGED <<sock, task, pool, listen, clients, queue>>

(* not connected any more, or the flush in CBufSock::update has failed *)
Broken(s) == ~sock[s].phys \/ (FlushFails /\ ~sock[s].open)

(* slip: _KnowConnected is not reset *)
Slip_VisitBroken(s) ==
    /\ main.pc = "visit" /\ main.op = "update" /\ s \in main.todo
    /\ Broken(s)
    /\ main' = [main EXCEPT !.todo = @ \ {s}]
    /\ Push(s, "Disconnection")
    /\ UNCHANGED <<sock, task, pool, listen, clients>>

(* advertiseDisconnection, once per connection *)
VisitBroken(s) ==
    /\ main.pc = "visit" /\ main.op = "update" /\ s \in main.todo
    /\ Broken(s)
    /\ main' = [main EXCEPT !.todo = @ \ {s}]
    /\ IF sock[s].know
       THEN Push(s, "Disconnection") /\ sock' = [sock EXCEPT ![s].know = FALSE]
       ELSE UNCHANGED <<queue, sock>>
    /\ UNCHANGED <<task, pool, listen, clients>>

VisitSound(s) ==
    /\ main.pc = "visit" /\ main.op = "update" /\ s \in main.todo
    /\ sock[s].phys
    /\ main' = [main EXCEPT !.todo = @ \ {s}]
    /\ UNCHANGED <<sock, task, pool, listen, clients, queue>>

VisitDisconnect(s) ==
    /\ main.pc = "visit" /\ main.op = "disconnect" /\ s \in main.todo
    /\ main' = [main EXCEPT !.todo = @ \ {s}]
    /\ sock' = [sock EXCEPT ![s].phys = FALSE]
    /\ UNCHANGED <<task, pool, listen, clients, queue>>

EndThread ==
    /\ main.pc = "visit" /\ main.todo = {}
    /\ main' = [main EXCEPT !.pc = "threads", !.task = @ + 1]
    /\ UNCHANGED <<sock, task, pool, listen, clients, queue>>

(* disconnect(hostid), also from inside a callback *)
DisconnectHost(s) ==
    /\ main.pc \in {"idle", "callback"} /\ main.budget > 0
    /\ s \in clients /\ sock[s].phys
    /\ sock' = [sock EXCEPT ![s].phys = FALSE]
    /\ main' = [main EXCEPT !.budget = @ - 1]
    /\ UNCHANGED <<task, pool, listen, clients, queue>>

----------------------------------------------------------------------------
(* Main thread: dataAvailable() and receive() *)

Pop == queue' = Tail(queue)

HeadIs(ty) == queue # <<>> /\ Head(queue).type = ty

(* slip: the connection is not entered in _ConnectedClients *)
Slip_HandleConnection ==
    LET s == Head(queue).sock IN
    /\ main.pc = "idle" /\ HeadIs("Connection")
    /\ sock' = [sock EXCEPT ![s].logical = TRUE, ![s].view = "connected"]
    /\ main' = [main EXCEPT !.pc = "callback"]
    /\ UNCHANGED <<task, pool, listen, clients, queue>>

HandleConnection ==
    LET s == Head(queue).sock IN
    /\ main.pc = "idle" /\ HeadIs("Connection")
    /\ clients' = clients \cup {s}
    /\ sock' = [sock EXCEPT ![s].logical = TRUE, ![s].view = "connected"]
    /\ main' = [main EXCEPT !.pc = "callback"]
    /\ UNCHANGED <<task, pool, listen, queue>>

ConnectionHandled ==
    /\ main.pc = "callback" /\ HeadIs("Connection")
    /\ Pop
    /\ main' = MainIdle(main.budget)
    /\ UNCHANGED <<sock, task, pool, listen, clients>>

HandleDisconnection ==
    LET s == Head(queue).sock IN
    /\ main.pc = "idle" /\ HeadIs("Disconnection")
    /\ sock' = [sock EXCEPT ![s].logical = FALSE, ![s].view = "closed"]
    /\ main' = [main EXCEPT !.pc = "callback"]
    /\ UNCHANGED <<task, pool, listen, clients, queue>>

DisconnectionHandled ==
    /\ main.pc = "callback" /\ HeadIs("Disconnection")
    /\ clients' = clients \ {Head(queue).sock}
    /\ main' = [main EXCEPT !.pc = "remove"]
    /\ UNCHANGED <<sock, task, pool, listen, queue>>

(* addToRemoveSet of the owner task *)
AddToRemoveSet ==
    LET t == sock[Head(queue).sock].owner IN
    /\ main.pc = "remove" /\ RemoveFree(t)
    /\ task' = [task EXCEPT ![t].remove = @ \cup {Head(queue).sock}]
    /\ main' = [main EXCEPT !.pc = "wake", !.task = t]
    /\ UNCHANGED <<sock, pool, listen, clients, queue>>

(* slip: the receive thread is not woken *)
Slip_WakeOwner ==
    /\ main.pc = "wake"
    /\ Pop
    /\ main' = MainIdle(main.budget)
    /\ UNCHANGED <<sock, task, pool, listen, clients>>

(* its wakeUp(), and the extraction of the event *)
WakeOwner ==
    /\ main.pc = "wake"
    /\ task' = [task EXCEPT ![main.task].wake = @ + 1]
    /\ Pop
    /\ main' = MainIdle(main.budget)
    /\ UNCHANGED <<sock, pool, listen, clients>>

(* receive(), which reads and counts in the object of the connection *)
ReceiveUser ==
    /\ main.pc = "idle" /\ HeadIs("User")
    /\ Pop
    /\ UNCHANGED <<sock, task, pool, listen, main, clients>>

----------------------------------------------------------------------------
(* Main thread: the destructor *)

BeginDestroy ==
    /\ Stops /\ main.pc = "idle"
    /\ listen' = [listen EXCEPT !.exit = TRUE]
    /\ main' = [main EXCEPT !.pc = "joinListen"]
    /\ UNCHANGED <<sock, task, pool, clients, queue>>

JoinListen ==
    /\ main.pc = "joinListen" /\ listen.pc = "done"
    /\ main' = [main EXCEPT !.pc = "stop", !.task = 1]
    /\ UNCHANGED <<sock, task, pool, listen, clients, queue>>

(* requireExit() and wakeUp() for each thread *)
StopThread ==
    /\ main.pc = "stop"
    /\ IF main.task > pool
       THEN main' = [main EXCEPT !.pc = "join"] /\ UNCHANGED task
       ELSE /\ main' = [main EXCEPT !.task = @ + 1]
            /\ task' = [task EXCEPT ![main.task].exit = TRUE,
                                    ![main.task].wake = @ + 1]
    /\ UNCHANGED <<sock, pool, listen, clients, queue>>

JoinThreads ==
    /\ main.pc = "join" /\ \A t \in 1 .. pool : task[t].pc = "dead"
    /\ main' = [main EXCEPT !.pc = "delete"]
    /\ UNCHANGED <<sock, task, pool, listen, clients, queue>>

(* the sockets that are left, then the tasks and the server with its sets   *)
DeleteAll ==
    LET left == UNION {task[t].conns : t \in 1 .. pool} IN
    /\ main.pc = "delete"
    /\ sock' = [s \in Socks |-> IF s \in left
                                THEN [sock[s] EXCEPT !.obj = "deleted"] ELSE sock[s]]
    /\ main' = [main EXCEPT !.pc = "destroyed"]
    /\ task' = [t \in Tasks |-> [task[t] EXCEPT !.conns = {}, !.remove = {}]]
    /\ clients' = {}
    /\ queue' = <<>>
    /\ UNCHANGED <<pool, listen>>

Destroyed == main.pc = "destroyed" /\ UNCHANGED vars

----------------------------------------------------------------------------
Peer == \E s \in Socks : PeerSends(s) \/ PeerCloses(s)

ListenStep ==
    \/ ListenExits \/ AdvertiseConnection \/ LockPool \/ ScanFill \/ ScanSpread
    \/ AddToThread \/ WakeThread \/ AddNewThread

ReceiveStep(t) ==
    \/ BeginLoop(t) \/ Erase(t) \/ CopyConnections(t) \/ Select(t)
    \/ \E s \in Socks : ReceiveBlock(t, s) \/ ReceiveEnd(t, s)
    \/ PushUser(t) \/ EndLoop(t)

(* what the main thread goes on with once it has begun *)
MainStep ==
    \/ NextThread \/ EndThread
    \/ \E s \in Socks : VisitBroken(s) \/ VisitSound(s) \/ VisitDisconnect(s)
    \/ ConnectionHandled \/ DisconnectionHandled \/ AddToRemoveSet \/ WakeOwner
    \/ JoinListen \/ StopThread \/ JoinThreads \/ DeleteAll

Poll == HandleConnection \/ HandleDisconnection \/ ReceiveUser

Next ==
    \/ Peer
    \/ \E s \in Socks : DisconnectHost(s)
    \/ Accept \/ ListenStep
    \/ \E t \in Tasks : ReceiveStep(t) \/ SelectError(t)
    \/ MainStep \/ Poll
    \/ BeginWalk("update") \/ BeginWalk("disconnect")
    \/ BeginDestroy \/ Destroyed

Spec == Init /\ [][Next]_vars

(* The threads run, a mutex goes to everyone who waits for it, and the      *)
(* application calls update() and polls again and again.                    *)
Fairness ==
    /\ SF_vars(ListenStep)
    /\ \A t \in Tasks : SF_vars(ReceiveStep(t))
    /\ SF_vars(MainStep)
    /\ SF_vars(Poll)
    /\ SF_vars(BeginWalk("update"))

FairSpec == Spec /\ Fairness

----------------------------------------------------------------------------
(* Properties *)

Alive == {s \in Socks : sock[s].obj = "alive"}

(* Whatever the order in which the threads run, the first thing the         *)
(* application hears of a connection is its connection event, and it hears  *)
(* of each connection and disconnection once: the listen thread advertises  *)
(* the connection before a receive thread can read from it                  *)
(* (buf_server.cpp:859 and 862).                                            *)
EventOrder ==
    /\ \A i, j \in 1 .. Len(queue) :
          i < j /\ queue[i].sock = queue[j].sock =>
              /\ queue[j].type # "Connection"
              /\ ~ (queue[i].type = "Disconnection" /\ queue[j].type = "Disconnection")
    /\ \A i \in 1 .. Len(queue) :
          queue[i].type # "Connection" /\ sock[queue[i].sock].view = "none" =>
              \E j \in 1 .. i - 1 : queue[j] = [sock |-> queue[i].sock, type |-> "Connection"]

(* The assertions of the two event handlers hold: the insertion into and    *)
(* the removal from _ConnectedClients succeed (buf_server.cpp:458 and 443), *)
(* and the object is alive and has an owner task that has not been told to  *)
(* delete it yet (:447).                                                    *)
HandlerAsserts ==
    /\ main.pc = "idle" /\ HeadIs("Connection") =>
          Head(queue).sock \in Alive \ clients
    /\ main.pc \in {"idle", "callback", "remove"} /\ HeadIs("Disconnection") =>
          LET s == Head(queue).sock IN
          /\ s \in Alive
          /\ main.pc # "remove" => s \in clients
          /\ sock[s].owner # NULL
          /\ s \notin task[sock[s].owner].remove

(* No set a thread walks over without holding a mutex all the time holds a  *)
(* deleted object: the copy of a receive thread, the walk of the main       *)
(* thread and its list of clients.                                          *)
NoDangling ==
    /\ clients \subseteq Alive
    /\ main.pc = "visit" => main.todo \subseteq Alive
    /\ \A t \in Tasks :
          /\ task[t].conns \subseteq Alive
          /\ task[t].remove \subseteq task[t].conns
          /\ task[t].pc \in {"select", "receive", "push"} => task[t].copy \subseteq Alive

(* A connection that has an owner is in the set of that task and of no      *)
(* other until it is deleted, and only sockets the main thread has given    *)
(* back are deleted.                                                        *)
OneOwner ==
    \A s \in Socks :
        /\ \A t \in Tasks : s \in task[t].conns => sock[s].owner = t
        /\ s \in Alive /\ sock[s].owner # NULL => s \in task[sock[s].owner].conns
        /\ \A t \in Tasks : s \in task[t].remove => sock[s].view = "closed"

(* The objects are owned soundly. *)
Ownership == TypeOK /\ NoDangling /\ OneOwner

(* "Max number of sockets handled by one thread" (buf_server.h:349) holds   *)
(* with FillThreads, although the sizes of the threads are read one after   *)
(* the other while receive threads delete.                                  *)
SocketsPerThread == \A t \in Tasks : Cardinality(task[t].conns) <= MaxSockets

(* "Max number of threads" (buf_server.h:346). *)
PoolBounded == pool <= MaxThreads

(* "destroy the structur to be sure that other people will not access to    *)
(* this anymore" (buf_sock.cpp:88): what the main thread takes from the     *)
(* receive queue belongs to an object that has not been deleted.            *)
NoAccessAfterDelete ==
    main.pc = "idle" /\ queue # <<>> => Head(queue).sock \in Alive

(* Refinement: a connection is announced, closed and freed in this order. *)
Stage(s) ==
    IF sock[s].obj = "deleted" THEN "freed"
    ELSE IF sock[s].view # "none" THEN sock[s].view
    ELSE IF sock[s].know \/ sock[s].owner # NULL THEN "pending"
    ELSE "absent"

Life == INSTANCE Sessions WITH
            stage <- [s \in Socks |-> Stage(s)],
            down <- main.pc \in {"delete", "destroyed"}

SessionsSpec == Life!Spec

(* Every connection the peer has closed is deleted in the end, and a         *)
(* destructor that has begun comes to its end and leaves nothing behind:    *)
(* neither the wake-ups of the receive threads nor the events get lost, and *)
(* nobody holds a mutex that another waits for.  (A closed connection stays *)
(* one until it is deleted, and a destructor does not stop half way: to see *)
(* everything settled again and again is to see each of them settled.)      *)
EverythingSettles ==
    []<>(/\ \A s \in Alive : sock[s].open
         /\ listen.exit => main.pc = "destroyed" /\ Alive = {})
=============================================================================
