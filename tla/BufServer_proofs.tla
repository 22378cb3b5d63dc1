-------------------------- MODULE BufServer_proofs --------------------------
(***************************************************************************)
(* Proofs about BufServer, for every number of connections, threads,       *)
(* messages and calls of disconnect(), both thread strategies, and with    *)
(* every fault switched on or off.                                         *)
(***************************************************************************)
EXTENDS BufServer, FiniteSetTheorems, SequenceTheorems, TLAPS

Positions == 1 .. Len(queue)
Is(i, s, ty) == queue[i].sock = s /\ queue[i].type = ty

(* The sockets that belong to a task *)
Owned == {s \in Socks : sock[s].owner # NULL}

(* The listen thread has told of a connection, or given it to a task *)
Known(s) == sock[s].know \/ sock[s].owner # NULL

(* The mutex of _ThreadPool; while the main thread visits a task, it holds  *)
(* the mutex of its _Connections too.                                       *)
LockInv ==
    /\ listen.pc \in {"scan", "add", "wake"} =>
          main.pc \notin {"threads", "visit", "stop", "join", "delete", "destroyed"}
    /\ main.pc \in {"stop", "join", "delete", "destroyed"} => listen.pc = "done"
    /\ main.pc \in {"threads", "visit", "stop"} => main.task >= 1
    /\ main.pc = "visit" => main.task <= pool /\ main.todo \subseteq task[main.task].conns
    /\ main.pc = "wake" => main.task \in Tasks
    /\ main.pc \in {"delete", "destroyed"} => \A t \in Tasks : task[t].pc \in {"none", "dead"}

(* What a receive task holds *)
TaskGood(t) ==
    /\ t > pool => task[t].pc = "none" /\ task[t].conns = {}
    /\ \A s \in task[t].conns : sock[s].obj = "alive" /\ sock[s].owner = t
    /\ task[t].remove \subseteq task[t].conns
    /\ \A s \in task[t].remove :
          sock[s].view = "closed" /\ ~sock[s].know /\ s \notin clients
    /\ task[t].pc \in {"select", "receive", "push"} =>
          task[t].copy \subseteq task[t].conns
    /\ task[t].pc \in {"receive", "push"} =>
          /\ task[t].ready \subseteq task[t].copy
          /\ task[t].woken => task[t].wake > 0
    /\ task[t].pc = "push" => task[t].cur \in task[t].copy

TaskInv == \A t \in Tasks : TaskGood(t)

(* The connection the listen thread is dispatching, and where to *)
ListenInv ==
    /\ listen.pc \in {"advertise", "lock", "scan", "add"} =>
          /\ listen.sock \in Socks
          /\ sock[listen.sock].obj = "alive" /\ sock[listen.sock].owner = NULL
          /\ sock[listen.sock].know = (listen.pc # "advertise")
    /\ listen.pc = "scan" => listen.i \in 1 .. pool + 1
    /\ listen.pc \in {"scan", "add"} /\ listen.best # NULL => listen.best \in 1 .. pool
    /\ listen.pc = "wake" => listen.best \in 1 .. pool

(* The life of a connection *)
SockGood(s) ==
    /\ sock[s].obj = "none" => ~Known(s) /\ sock[s].view = "none"
    /\ sock[s].obj = "deleted" /\ main.pc # "destroyed" =>
          sock[s].view = "closed" /\ sock[s].owner # NULL
    /\ sock[s].obj = "alive" /\ sock[s].owner # NULL =>
          s \in task[sock[s].owner].conns
    /\ sock[s].view # "none" => sock[s].owner # NULL \/ sock[s].know
    /\ sock[s].view = "closed" => ~sock[s].know /\ sock[s].owner # NULL
    /\ sock[s].view = "connected" /\ main.pc # "destroyed" => s \in clients
    /\ s \in clients =>
          /\ sock[s].obj = "alive"
          /\ \/ sock[s].view = "connected"
             \/ /\ sock[s].view = "closed" /\ main.pc = "callback"
                /\ queue # <<>> /\ Is(1, s, "Disconnection")

SockInv == \A s \in Socks : SockGood(s)

(* The event the main thread is handling *)
HandlingInv ==
    /\ main.pc = "callback" =>
          /\ queue # <<>>
          /\ queue[1].type = "Connection" => sock[queue[1].sock].view = "connected"
          /\ queue[1].type \in {"Connection", "Disconnection"}
    /\ main.pc \in {"remove", "wake"} => queue # <<>> /\ queue[1].type = "Disconnection"
    /\ main.pc = "destroyed" => queue = <<>>

(* The events in the queue *)
EventGood(i) ==
    LET s == queue[i].sock IN
    /\ Known(s)
    /\ queue[i].type # "Connection" => sock[s].owner # NULL
    /\ queue[i].type = "Connection" =>
          /\ \A j \in Positions : queue[j].sock = s => i <= j
          /\ sock[s].view = "none" \/ (i = 1 /\ main.pc = "callback")
    /\ queue[i].type = "Disconnection" =>
          /\ ~sock[s].know
          /\ \A j \in Positions : Is(j, s, "Disconnection") => i = j
          /\ \/ sock[s].view # "closed"
             \/ i = 1 /\ main.pc \in {"callback", "remove", "wake"}
          /\ i = 1 /\ main.pc \in {"callback", "remove", "wake"} => sock[s].view = "closed"
          /\ i = 1 /\ main.pc = "callback" => s \in clients
          /\ i = 1 /\ main.pc \in {"callback", "remove"} =>
                /\ sock[s].obj = "alive"
                /\ \A t \in Tasks : s \notin task[t].remove

Awaited(s) ==
    sock[s].view = "none" /\ Known(s) /\ main.pc # "destroyed" =>
        \E i \in Positions : Is(i, s, "Connection")

EventInv == /\ \A i \in Positions : EventGood(i)
            /\ \A s \in Socks : Awaited(s)

(* There is a task for each thread of the pool. *)
PoolInv == pool <= Cardinality(Owned)

IInv == /\ TypeOK /\ LockInv /\ TaskInv /\ ListenInv /\ SockInv
        /\ HandlingInv /\ EventInv /\ PoolInv

----------------------------------------------------------------------------
(* What the changes of the queue do *)

LEMMA Pushed ==
    ASSUME TypeOK, NEW s \in Socks, NEW ty \in EventTypes, Push(s, ty)
    PROVE  /\ queue' \in Seq(Events)
           /\ Len(queue) \in Nat /\ Len(queue') = Len(queue) + 1
           /\ queue'[Len(queue) + 1].sock = s /\ queue'[Len(queue) + 1].type = ty
           /\ \A i \in 1 .. Len(queue) : queue'[i] = queue[i]
<1> DEFINE e == [sock |-> s, type |-> ty]
<1>1. e \in Events /\ e.sock = s /\ e.type = ty /\ queue' = Append(queue, e)
  BY DEF Events, Push
<1> HIDE DEF e
<1> QED BY <1>1, AppendProperties DEF TypeOK

LEMMA Popped ==
    ASSUME TypeOK, queue # <<>>, Pop
    PROVE  /\ Head(queue) = queue[1] /\ queue[1] \in Events
           /\ queue' \in Seq(Events)
           /\ Len(queue) \in Nat \ {0} /\ Len(queue') = Len(queue) - 1
           /\ \A i \in 1 .. Len(queue') : queue'[i] = queue[i + 1]
BY HeadTailProperties, EmptySeq DEF TypeOK, Pop

LEMMA HeadFacts ==
    ASSUME TypeOK, queue # <<>>
    PROVE  /\ Head(queue) = queue[1] /\ queue[1] \in Events
           /\ queue[1].sock \in Socks
           /\ Len(queue) \in Nat /\ 1 \in Positions
<1>1. /\ Head(queue) = queue[1] /\ queue[1] \in Events
      /\ Len(queue) \in Nat /\ Len(queue) >= 1
  BY HeadTailProperties, EmptySeq DEF TypeOK
<1> QED BY <1>1 DEF Events, Positions

LEMMA EventFacts ==
    ASSUME TypeOK
    PROVE  /\ Len(queue) \in Nat
           /\ \A i \in Positions : queue[i].sock \in Socks /\ queue[i].type \in EventTypes
<1>1. Len(queue) \in Nat /\ \A i \in 1 .. Len(queue) : queue[i] \in Events
  BY DEF TypeOK
<1> QED BY <1>1 DEF Positions, Events

LEMMA FiniteFacts ==
    /\ IsFiniteSet(Socks) /\ Cardinality(Socks) \in Nat
    /\ \A S \in SUBSET Socks : /\ IsFiniteSet(S) /\ Cardinality(S) \in Nat
                               /\ Cardinality(S) <= Cardinality(Socks)
    /\ NULL \notin Tasks /\ Tasks \subseteq Nat
BY ConstantsAssumption, FS_CardinalityType, FS_Subset DEF Tasks, NULL

LEMMA NatFacts ==
    /\ Cardinality(Socks) \in Nat
    /\ NULL \notin Tasks /\ Tasks \subseteq Nat
BY FiniteFacts

----------------------------------------------------------------------------
(* Most steps change neither the stage of a connection nor what a task owns *)

SameSock == \A s \in Socks :
    /\ sock'[s].obj = sock[s].obj /\ sock'[s].know = sock[s].know
    /\ sock'[s].owner = sock[s].owner /\ sock'[s].view = sock[s].view

SameTask == \A t \in Tasks :
    task'[t].conns = task[t].conns /\ task'[t].remove = task[t].remove

Calm == main.pc \notin {"callback", "remove", "wake", "destroyed"}

LEMMA Frame ==
    ASSUME IInv, SameSock, SameTask, UNCHANGED <<pool, clients, queue>>,
           main'.pc = main.pc \/ (Calm /\ Calm')
    PROVE  SockInv' /\ HandlingInv' /\ EventInv' /\ PoolInv'
<1>1. SockInv'
  <2>1. \A s \in Socks : sock[s].owner \in Tasks \cup {NULL}
    BY DEF IInv, TypeOK, SockStates
  <2> SUFFICES ASSUME NEW s \in Socks
               PROVE  SockGood(s)'
    BY DEF SockInv
  <2> SockGood(s)
    BY DEF IInv, SockInv
  <2> QED BY <2>1 DEF SockGood, SameSock, SameTask, Known, Is, Calm
<1>2. HandlingInv'
  BY HeadFacts DEF IInv, HandlingInv, SameSock, Calm
<1>3. EventInv'
  BY EventFacts
     DEF IInv, EventInv, EventGood, Awaited, SameSock, SameTask, Known, Is,
         Positions, Calm
<1>4. PoolInv'
  BY DEF IInv, PoolInv, SameSock, Owned
<1> QED BY <1>1, <1>2, <1>3, <1>4

LEMMA TaskFrame ==
    ASSUME IInv, SameSock, UNCHANGED <<task, pool, clients>>
    PROVE  TaskInv'
<1> SUFFICES ASSUME NEW t \in Tasks
             PROVE  TaskGood(t)'
  BY DEF TaskInv
<1>1. /\ TaskGood(t)
      /\ task[t].conns \subseteq Socks /\ task[t].remove \subseteq Socks
  BY DEF IInv, TaskInv, TypeOK, TaskStates
<1> QED BY <1>1 DEF TaskGood, SameSock

(* Somebody wakes a task up. *)
Woken(t) ==
    /\ task'[t].pc = task[t].pc /\ task'[t].conns = task[t].conns
    /\ task'[t].remove = task[t].remove /\ task'[t].copy = task[t].copy
    /\ task'[t].ready = task[t].ready /\ task'[t].cur = task[t].cur
    /\ task'[t].woken = task[t].woken
    /\ task[t].wake > 0 => task'[t].wake > 0

LEMMA WokenFrame ==
    ASSUME IInv, SameSock, UNCHANGED <<pool, clients>>, \A t \in Tasks : Woken(t)
    PROVE  TaskInv'
<1> SUFFICES ASSUME NEW t \in Tasks
             PROVE  TaskGood(t)'
  BY DEF TaskInv
<1>1. /\ TaskGood(t) /\ Woken(t)
      /\ task[t].conns \subseteq Socks /\ task[t].remove \subseteq Socks
  BY DEF IInv, TaskInv, TypeOK, TaskStates
<1> QED BY <1>1 DEF TaskGood, SameSock, Woken

(* One task goes on. *)
OneTask(t) ==
    /\ task[t].pc \notin {"none", "dead"}
    /\ \A u \in Tasks \ {t} : task'[u] = task[u]

LEMMA TaskMoves ==
    ASSUME IInv, NEW t \in Tasks, OneTask(t), SameSock, SameTask, TaskGood(t)',
           UNCHANGED <<pool, listen, main, clients>>
    PROVE  LockInv' /\ TaskInv'
<1>1. LockInv'
  <2>1. /\ main.pc \notin {"delete", "destroyed"}
        /\ main.pc = "visit" => main.task \in Tasks
    <3>1. /\ pool \in Nat /\ pool <= Cardinality(Socks) /\ main.task \in Nat
          /\ main.pc = "visit" => main.task >= 1 /\ main.task <= pool
          /\ main.pc \notin {"delete", "destroyed"}
      BY NatFacts DEF IInv, LockInv, OneTask, TypeOK, MainStates
    <3> QED BY <3>1, NatFacts DEF Tasks
  <2> QED BY <2>1 DEF IInv, LockInv, SameTask
<1>2. TaskInv'
  <2> SUFFICES ASSUME NEW u \in Tasks, u # t
               PROVE  TaskGood(u)'
    BY DEF TaskInv
  <2>1. /\ TaskGood(u) /\ task'[u] = task[u]
        /\ task[u].conns \subseteq Socks /\ task[u].remove \subseteq Socks
    BY DEF IInv, TaskInv, TypeOK, TaskStates, OneTask
  <2> QED BY <2>1 DEF TaskGood, SameSock
<1> QED BY <1>1, <1>2

LEMMA ListenFrame ==
    ASSUME IInv, SameSock, UNCHANGED <<listen, pool>>
    PROVE  ListenInv'
BY DEF IInv, ListenInv, SameSock

(* When the disconnection of a connection is the next event, the            *)
(* application knows the connection, and nobody has been told to delete it. *)
LEMMA DisconnectionAtHead ==
    ASSUME IInv, main.pc = "idle", queue # <<>>, queue[1].type = "Disconnection"
    PROVE  LET s == queue[1].sock IN
           /\ s \in Socks /\ s \in clients /\ sock[s].owner \in Tasks
           /\ sock[s].view = "connected" /\ sock[s].obj = "alive"
           /\ \A t \in Tasks : s \notin task[t].remove
<1> DEFINE s == queue[1].sock
<1>1. s \in Socks /\ 1 \in Positions
  BY HeadFacts DEF IInv
<1>2. EventGood(1) /\ SockGood(s) /\ Awaited(s) /\ sock[s] \in SockStates
  BY <1>1 DEF IInv, EventInv, SockInv, TypeOK
<1>3. sock[s].view # "closed" /\ sock[s].owner \in Tasks
  BY <1>2 DEF EventGood, SockStates
<1>4. sock[s].view # "none"
  <2> SUFFICES ASSUME sock[s].view = "none"
               PROVE  FALSE
    OBVIOUS
  <2>1. PICK i \in Positions : Is(i, s, "Connection")
    BY <1>2 DEF Awaited, EventGood
  <2>2. EventGood(i) /\ i \in Nat /\ i >= 1
    BY HeadFacts DEF IInv, EventInv, Positions
  <2>3. i = 1
    BY <1>1, <2>1, <2>2 DEF EventGood, Is
  <2> QED BY <2>1, <2>3 DEF Is
<1>5. sock[s].view = "connected"
  BY <1>2, <1>3, <1>4 DEF SockStates
<1>6. \A t \in Tasks : TaskGood(t)
  BY DEF IInv, TaskInv
<1> QED BY <1>1, <1>2, <1>3, <1>5, <1>6 DEF SockGood, TaskGood

----------------------------------------------------------------------------
(* Every action keeps the invariant *)

LEMMA PeerSendsKeeps ==
    ASSUME IInv, NEW s \in Socks, PeerSends(s)
    PROVE  IInv'
<1>1. s \in Socks
  BY DEF PeerSends
<1>2. sock[s].inbox + 1 \in Nat /\ sock[s].sent + 1 \in Nat
  BY DEF IInv, TypeOK, SockStates
<1>3. /\ sock' \in [Socks -> SockStates]
      /\ sock'[s].obj = sock[s].obj
      /\ sock'[s].know = sock[s].know
      /\ sock'[s].owner = sock[s].owner
      /\ sock'[s].view = sock[s].view
      /\ sock'[s].phys = sock[s].phys
      /\ \A r \in Socks \ {s} : sock'[r] = sock[r]
  <2> DEFINE new == [sock[s] EXCEPT !.inbox = @ + 1, !.sent = @ + 1]
  <2>1. s \in Socks /\ sock \in [Socks -> SockStates] /\ sock[s] \in SockStates
    BY <1>1, <1>2, NatFacts DEF IInv, TypeOK
  <2>2. /\ new \in SockStates
        /\ new.obj = sock[s].obj
        /\ new.know = sock[s].know
        /\ new.owner = sock[s].owner
        /\ new.view = sock[s].view
        /\ new.phys = sock[s].phys
    BY <1>1, <1>2, <2>1 DEF SockStates
  <2>3. sock' = [sock EXCEPT ![s] = new]
    BY <1>1, <1>2, <2>1 DEF PeerSends
  <2> HIDE DEF new
  <2> QED BY <2>1, <2>2, <2>3
<1>4. UNCHANGED <<task, pool, listen, main, clients, queue>>
  BY DEF PeerSends
<1>5. TypeOK'
  BY <1>3, <1>4 DEF IInv, TypeOK
<1>6. SameSock /\ SameTask
  BY <1>1, <1>2, <1>3, <1>4 DEF SameSock, SameTask
<1>7. LockInv'
  BY <1>1, <1>2, <1>3, <1>4 DEF IInv, LockInv
<1>8. TaskInv'
  BY <1>6, <1>4, TaskFrame
<1>9. ListenInv'
  BY <1>6, <1>4, ListenFrame DEF SameSock
<1>10. SockInv' /\ HandlingInv' /\ EventInv' /\ PoolInv'
  BY <1>6, <1>4, Frame
<1> QED BY <1>5, <1>7, <1>8, <1>9, <1>10 DEF IInv

LEMMA PeerClosesKeeps ==
    ASSUME IInv, NEW s \in Socks, PeerCloses(s)
    PROVE  IInv'
<1>1. s \in Socks
  BY DEF PeerCloses
<1>2. /\ sock' \in [Socks -> SockStates]
      /\ sock'[s].obj = sock[s].obj
      /\ sock'[s].know = sock[s].know
      /\ sock'[s].owner = sock[s].owner
      /\ sock'[s].view = sock[s].view
      /\ sock'[s].phys = sock[s].phys
      /\ \A r \in Socks \ {s} : sock'[r] = sock[r]
  <2> DEFINE new == [sock[s] EXCEPT !.open = FALSE]
  <2>1. s \in Socks /\ sock \in [Socks -> SockStates] /\ sock[s] \in SockStates
    BY <1>1, NatFacts DEF IInv, TypeOK
  <2>2. /\ new \in SockStates
        /\ new.obj = sock[s].obj
        /\ new.know = sock[s].know
        /\ new.owner = sock[s].owner
        /\ new.view = sock[s].view
        /\ new.phys = sock[s].phys
    BY <1>1, <2>1 DEF SockStates
  <2>3. sock' = [sock EXCEPT ![s] = new]
    BY <1>1, <2>1 DEF PeerCloses
  <2> HIDE DEF new
  <2> QED BY <2>1, <2>2, <2>3
<1>3. UNCHANGED <<task, pool, listen, main, clients, queue>>
  BY DEF PeerCloses
<1>4. TypeOK'
  BY <1>1, <1>2, <1>3, NatFacts DEF IInv, TypeOK
<1>5. SameSock /\ SameTask
  BY <1>1, <1>2, <1>3 DEF SameSock, SameTask
<1>6. LockInv'
  BY <1>1, <1>2, <1>3 DEF IInv, LockInv
<1>7. TaskInv'
  BY <1>5, <1>3, TaskFrame
<1>8. ListenInv'
  BY <1>5, <1>3, ListenFrame DEF SameSock
<1>9. SockInv' /\ HandlingInv' /\ EventInv' /\ PoolInv'
  BY <1>5, <1>1, <1>2, <1>3, Frame DEF Calm
<1> QED BY <1>4, <1>6, <1>7, <1>8, <1>9 DEF IInv

LEMMA ListenExitsKeeps ==
    ASSUME IInv, ListenExits
    PROVE  IInv'
<1>1. listen.pc = "accept"
  BY DEF ListenExits
<1>2. /\ listen' \in ListenStates
      /\ listen'.pc = "done"
      /\ listen'.sock = listen.sock
      /\ listen'.i = listen.i
      /\ listen'.best = listen.best
      /\ listen'.lo = listen.lo
      /\ listen'.hi = listen.hi
      /\ listen'.exit = listen.exit
  BY DEF IInv, TypeOK, ListenStates, ListenExits
<1>3. UNCHANGED <<sock, task, pool, main, clients, queue>>
  BY DEF ListenExits
<1>4. TypeOK'
  BY <1>1, <1>2, <1>3, NatFacts DEF IInv, TypeOK
<1>5. SameSock /\ SameTask
  BY <1>1, <1>2, <1>3 DEF SameSock, SameTask
<1>6. LockInv'
  BY <1>1, <1>2, <1>3 DEF IInv, LockInv
<1>7. TaskInv'
  BY <1>5, <1>3, TaskFrame
<1>8. ListenInv'
  BY <1>1, <1>2, <1>3 DEF IInv, ListenInv
<1>9. SockInv' /\ HandlingInv' /\ EventInv' /\ PoolInv'
  BY <1>5, <1>1, <1>2, <1>3, Frame DEF Calm
<1> QED BY <1>4, <1>6, <1>7, <1>8, <1>9 DEF IInv

LEMMA LockPoolKeeps ==
    ASSUME IInv, LockPool
    PROVE  IInv'
<1>1. /\ listen.pc = "lock"
      /\ main.pc \notin {"threads", "visit", "stop", "join", "delete"}
  BY DEF LockPool, PoolFree
<1>2. Cardinality(Socks) + 1 \in Nat /\ pool \in Nat /\ 1 \in 1 .. pool + 1
  BY NatFacts DEF IInv, TypeOK
<1>3. /\ listen' \in ListenStates
      /\ listen'.pc = "scan"
      /\ listen'.sock = listen.sock
      /\ listen'.i = 1
      /\ listen'.best = NULL
      /\ listen'.lo = Cardinality(Socks) + 1
      /\ listen'.hi = 0
      /\ listen'.exit = listen.exit
  BY <1>2 DEF IInv, TypeOK, ListenStates, LockPool
<1>4. UNCHANGED <<sock, task, pool, main, clients, queue>>
  BY DEF LockPool
<1>5. TypeOK'
  BY <1>3, <1>4 DEF IInv, TypeOK
<1>6. SameSock /\ SameTask
  BY <1>1, <1>2, <1>3, <1>4 DEF SameSock, SameTask
<1>7. LockInv'
  BY <1>1, <1>2, <1>3, <1>4 DEF IInv, LockInv
<1>8. TaskInv'
  BY <1>6, <1>4, TaskFrame
<1>9. ListenInv'
  BY <1>1, <1>2, <1>3, <1>4 DEF IInv, ListenInv
<1>10. SockInv' /\ HandlingInv' /\ EventInv' /\ PoolInv'
  BY <1>6, <1>4, Frame
<1> QED BY <1>5, <1>7, <1>8, <1>9, <1>10 DEF IInv

LEMMA ScanFillKeeps ==
    ASSUME IInv, ScanFill
    PROVE  IInv'
<1>1. listen.pc = "scan"
  BY DEF ScanFill
<1>2. listen.i \in 1 .. pool + 1 /\ pool \in Nat /\ pool <= Cardinality(Socks)
  BY <1>1 DEF IInv, TypeOK, ListenInv
<1>3. listen.i <= pool => listen.i \in Tasks /\ Cardinality(task[listen.i].conns) \in Nat
  BY <1>2, FiniteFacts DEF IInv, TypeOK, TaskStates, Tasks
<1>4. /\ listen' \in ListenStates /\ listen'.pc \in {"scan", "add"}
      /\ listen'.sock = listen.sock
      /\ listen'.pc = "scan" => listen'.i \in 1 .. pool + 1
      /\ listen'.best \in {listen.best, NULL} \cup 1 .. pool
  <2>1. CASE listen.i > pool
    <3>1. PICK b \in {listen.best, NULL} : listen' = [listen EXCEPT !.pc = "add", !.best = b]
      BY <2>1 DEF IInv, TypeOK, ListenStates, ScanFill
    <3> QED BY <3>1 DEF IInv, TypeOK, ListenStates
  <2>2. CASE listen.i <= pool
    <3>1. \/ listen' = [listen EXCEPT !.pc = "add", !.best = listen.i]
          \/ listen' = [listen EXCEPT !.i = @ + 1]
      BY <2>2, <1>1, <1>2, <1>3 DEF ScanFill
    <3>2. /\ listen \in ListenStates /\ listen.i \in Tasks
          /\ listen.i + 1 \in Nat /\ listen.i + 1 \in 1 .. pool + 1 /\ listen.i \in 1 .. pool
      BY <2>2, <1>1, <1>2, <1>3 DEF IInv, TypeOK
    <3> QED BY <3>1, <3>2, <1>1, <1>2, <1>3 DEF ListenStates
  <2> QED BY <2>1, <2>2, <1>2
<1>5. UNCHANGED <<sock, task, pool, main, clients, queue>>
  BY DEF ScanFill
<1>6. TypeOK'
  BY <1>4, <1>5 DEF IInv, TypeOK
<1>7. SameSock /\ SameTask
  BY <1>5 DEF SameSock, SameTask
<1>8. LockInv'
  BY <1>1, <1>5 DEF IInv, LockInv
<1>9. TaskInv'
  BY <1>7, <1>5, TaskFrame
<1>10. ListenInv'
  BY <1>1, <1>4, <1>5 DEF IInv, ListenInv
<1>11. SockInv' /\ HandlingInv' /\ EventInv' /\ PoolInv'
  BY <1>7, <1>5, Frame
<1> QED BY <1>6, <1>8, <1>9, <1>10, <1>11 DEF IInv

LEMMA ScanSpreadKeeps ==
    ASSUME IInv, ScanSpread
    PROVE  IInv'
<1>1. listen.pc = "scan"
  BY DEF ScanSpread
<1>2. listen.i \in 1 .. pool + 1 /\ pool \in Nat /\ pool <= Cardinality(Socks)
  BY <1>1 DEF IInv, TypeOK, ListenInv
<1>3. listen.i <= pool => listen.i \in Tasks /\ Cardinality(task[listen.i].conns) \in Nat
  BY <1>2, FiniteFacts DEF IInv, TypeOK, TaskStates, Tasks
<1>4. /\ listen' \in ListenStates /\ listen'.pc \in {"scan", "add"}
      /\ listen'.sock = listen.sock
      /\ listen'.pc = "scan" => listen'.i \in 1 .. pool + 1
      /\ listen'.best \in {listen.best, NULL} \cup 1 .. pool
  <2>1. CASE listen.i > pool
    <3>1. PICK b \in {listen.best, NULL} : listen' = [listen EXCEPT !.pc = "add", !.best = b]
      BY <2>1 DEF IInv, TypeOK, ListenStates, ScanSpread
    <3> QED BY <3>1 DEF IInv, TypeOK, ListenStates
  <2>2. CASE listen.i <= pool
    <3> DEFINE noc == Cardinality(task[listen.i].conns)
    <3>1. \E lo \in {noc, listen.lo}, hi \in {noc, listen.hi}, b \in {listen.i, listen.best} :
              listen' = [listen EXCEPT !.i = @ + 1, !.lo = lo, !.hi = hi, !.best = b]
      <4> DEFINE lo == IF noc < listen.lo THEN noc ELSE listen.lo
                 hi == IF noc > listen.hi THEN noc ELSE listen.hi
                 b == IF noc < listen.lo THEN listen.i ELSE listen.best
      <4>1. listen' = [listen EXCEPT !.i = @ + 1, !.lo = lo, !.hi = hi, !.best = b]
        BY <2>2, <1>1, <1>2, <1>3 DEF ScanSpread
      <4>2. lo \in {noc, listen.lo} /\ hi \in {noc, listen.hi} /\ b \in {listen.i, listen.best}
        OBVIOUS
      <4> QED BY <4>1, <4>2
    <3>2. /\ noc \in Nat /\ listen \in ListenStates /\ listen.i \in Tasks
          /\ listen.i + 1 \in Nat /\ listen.i + 1 \in 1 .. pool + 1 /\ listen.i \in 1 .. pool
      BY <2>2, <1>1, <1>2, <1>3 DEF IInv, TypeOK
    <3> HIDE DEF noc
    <3>3. PICK lo \in {noc, listen.lo}, hi \in {noc, listen.hi}, b \in {listen.i, listen.best} :
              listen' = [listen EXCEPT !.i = @ + 1, !.lo = lo, !.hi = hi, !.best = b]
      BY <3>1
    <3>4. /\ lo \in Nat /\ hi \in Nat /\ b \in Tasks \cup {NULL}
      BY <3>2 DEF ListenStates
    <3> QED BY <3>2, <3>3, <1>1 DEF ListenStates
  <2> QED BY <2>1, <2>2, <1>2
<1>5. UNCHANGED <<sock, task, pool, main, clients, queue>>
  BY DEF ScanSpread
<1>6. TypeOK'
  BY <1>4, <1>5 DEF IInv, TypeOK
<1>7. SameSock /\ SameTask
  BY <1>5 DEF SameSock, SameTask
<1>8. LockInv'
  BY <1>1, <1>5 DEF IInv, LockInv
<1>9. TaskInv'
  BY <1>7, <1>5, TaskFrame
<1>10. ListenInv'
  BY <1>1, <1>4, <1>5 DEF IInv, ListenInv
<1>11. SockInv' /\ HandlingInv' /\ EventInv' /\ PoolInv'
  BY <1>7, <1>5, Frame
<1> QED BY <1>6, <1>8, <1>9, <1>10, <1>11 DEF IInv

LEMMA WakeThreadKeeps ==
    ASSUME IInv, WakeThread
    PROVE  IInv'
<1>1. listen.pc = "wake"
  BY DEF WakeThread
<1>2. listen.best \in Tasks /\ task[listen.best].wake \in Nat
  BY <1>1, NatFacts DEF IInv, TypeOK, TaskStates, ListenInv, Tasks
<1>3. /\ task' \in [Tasks -> TaskStates]
      /\ task'[listen.best].pc = task[listen.best].pc
      /\ task'[listen.best].conns = task[listen.best].conns
      /\ task'[listen.best].remove = task[listen.best].remove
      /\ task'[listen.best].copy = task[listen.best].copy
      /\ task'[listen.best].ready = task[listen.best].ready
      /\ task'[listen.best].woken = task[listen.best].woken
      /\ task'[listen.best].wake = task[listen.best].wake + 1
      /\ task'[listen.best].cur = task[listen.best].cur
      /\ \A u \in Tasks \ {listen.best} : task'[u] = task[u]
  <2> DEFINE new == [task[listen.best] EXCEPT !.wake = @ + 1]
  <2>1. listen.best \in Tasks /\ task \in [Tasks -> TaskStates] /\ task[listen.best] \in TaskStates
    BY <1>1, <1>2, NatFacts DEF IInv, TypeOK
  <2>2. /\ new \in TaskStates
        /\ new.pc = task[listen.best].pc
        /\ new.conns = task[listen.best].conns
        /\ new.remove = task[listen.best].remove
        /\ new.copy = task[listen.best].copy
        /\ new.ready = task[listen.best].ready
        /\ new.woken = task[listen.best].woken
        /\ new.wake = task[listen.best].wake + 1
        /\ new.cur = task[listen.best].cur
    BY <1>1, <1>2, <2>1 DEF TaskStates
  <2>3. task' = [task EXCEPT ![listen.best] = new]
    BY <1>1, <1>2, <2>1 DEF WakeThread
  <2> HIDE DEF new
  <2> QED BY <2>1, <2>2, <2>3
<1>4. /\ listen' \in ListenStates
      /\ listen'.pc = "accept"
      /\ listen'.sock = InvalidSockId
      /\ listen'.i = 1
      /\ listen'.best = NULL
      /\ listen'.lo = 0
      /\ listen'.hi = 0
      /\ listen'.exit = listen.exit
  BY DEF IInv, TypeOK, ListenStates, ListenIdle, WakeThread
<1>5. UNCHANGED <<sock, pool, main, clients, queue>>
  BY DEF WakeThread
<1>6. TypeOK'
  BY <1>3, <1>4, <1>5 DEF IInv, TypeOK
<1>7. SameSock /\ SameTask
  BY <1>3, <1>5 DEF SameSock, SameTask
<1>8. \A u \in Tasks : Woken(u)
  BY <1>1, <1>2, <1>3, <1>4, <1>5 DEF Woken
<1>9. TaskInv'
  BY <1>7, <1>5, <1>8, WokenFrame
<1>10. LockInv'
  BY <1>1, <1>5 DEF IInv, LockInv
<1>11. ListenInv'
  BY <1>4 DEF ListenInv
<1>12. SockInv' /\ HandlingInv' /\ EventInv' /\ PoolInv'
  BY <1>7, <1>5, Frame
<1> QED BY <1>6, <1>9, <1>10, <1>11, <1>12 DEF IInv

LEMMA BeginLoopKeeps ==
    ASSUME IInv, NEW t \in Tasks, BeginLoop(t)
    PROVE  IInv'
<1>1. /\ t \in Tasks
      /\ task[t].pc = "clear"
  BY DEF BeginLoop
<1>2. PICK pc \in {"dead", "erase", "copy"} : task' = [task EXCEPT ![t].pc = pc]
  BY DEF BeginLoop
<1>3. /\ task' \in [Tasks -> TaskStates]
      /\ task'[t].pc = pc
      /\ task'[t].conns = task[t].conns
      /\ task'[t].remove = task[t].remove
      /\ task'[t].copy = task[t].copy
      /\ task'[t].ready = task[t].ready
      /\ task'[t].woken = task[t].woken
      /\ task'[t].wake = task[t].wake
      /\ task'[t].cur = task[t].cur
      /\ \A u \in Tasks \ {t} : task'[u] = task[u]
  <2> DEFINE new == [task[t] EXCEPT !.pc = pc]
  <2>1. t \in Tasks /\ task \in [Tasks -> TaskStates] /\ task[t] \in TaskStates
    BY <1>1, <1>2, NatFacts DEF IInv, TypeOK
  <2>2. /\ new \in TaskStates
        /\ new.pc = pc
        /\ new.conns = task[t].conns
        /\ new.remove = task[t].remove
        /\ new.copy = task[t].copy
        /\ new.ready = task[t].ready
        /\ new.woken = task[t].woken
        /\ new.wake = task[t].wake
        /\ new.cur = task[t].cur
    BY <1>1, <1>2, <2>1 DEF TaskStates
  <2>3. task' = [task EXCEPT ![t] = new]
    BY <1>1, <1>2, <2>1 DEF BeginLoop
  <2> HIDE DEF new
  <2> QED BY <2>1, <2>2, <2>3
<1>4. UNCHANGED <<sock, pool, listen, main, clients, queue>>
  BY DEF BeginLoop
<1>5. TypeOK'
  BY <1>3, <1>4 DEF IInv, TypeOK
<1>6. SameSock /\ SameTask
  BY <1>1, <1>2, <1>3, <1>4 DEF SameSock, SameTask
<1>7. TaskGood(t)'
  <2>1. TaskGood(t) /\ task[t] \in TaskStates
    BY <1>1 DEF IInv, TaskInv, TypeOK
  <2> QED BY <2>1, <1>1, <1>3, <1>4 DEF TaskGood
<1>8. LockInv' /\ TaskInv'
  BY <1>1, <1>3, <1>4, <1>6, <1>7, TaskMoves DEF OneTask
<1>9. ListenInv'
  BY <1>6, <1>4, ListenFrame DEF SameSock
<1>10. SockInv' /\ HandlingInv' /\ EventInv' /\ PoolInv'
  BY <1>6, <1>4, Frame
<1> QED BY <1>5, <1>8, <1>9, <1>10 DEF IInv

LEMMA CopyConnectionsKeeps ==
    ASSUME IInv, NEW t \in Tasks, CopyConnections(t)
    PROVE  IInv'
<1>1. /\ t \in Tasks
      /\ task[t].pc = "copy"
  BY DEF CopyConnections
<1>2. /\ task' \in [Tasks -> TaskStates]
      /\ task'[t].pc = "select"
      /\ task'[t].conns = task[t].conns
      /\ task'[t].remove = task[t].remove
      /\ task'[t].copy = {s \in task[t].conns : sock[s].phys}
      /\ task'[t].ready = task[t].ready
      /\ task'[t].woken = task[t].woken
      /\ task'[t].wake = task[t].wake
      /\ task'[t].cur = task[t].cur
      /\ \A u \in Tasks \ {t} : task'[u] = task[u]
  <2> DEFINE new == [task[t] EXCEPT !.copy = {s \in task[t].conns : sock[s].phys}, !.skip = (task[t].conns = {}), !.pc = "select"]
  <2>1. t \in Tasks /\ task \in [Tasks -> TaskStates] /\ task[t] \in TaskStates
    BY <1>1, NatFacts DEF IInv, TypeOK
  <2>2. /\ new \in TaskStates
        /\ new.pc = "select"
        /\ new.conns = task[t].conns
        /\ new.remove = task[t].remove
        /\ new.copy = {s \in task[t].conns : sock[s].phys}
        /\ new.ready = task[t].ready
        /\ new.woken = task[t].woken
        /\ new.wake = task[t].wake
        /\ new.cur = task[t].cur
    BY <1>1, <2>1 DEF TaskStates
  <2>3. task' = [task EXCEPT ![t] = new]
    BY <1>1, <2>1 DEF CopyConnections
  <2> HIDE DEF new
  <2> QED BY <2>1, <2>2, <2>3
<1>3. UNCHANGED <<sock, pool, listen, main, clients, queue>>
  BY DEF CopyConnections
<1>4. TypeOK'
  BY <1>1, <1>2, <1>3, NatFacts DEF IInv, TypeOK
<1>5. SameSock /\ SameTask
  BY <1>1, <1>2, <1>3 DEF SameSock, SameTask
<1>6. TaskGood(t)'
  <2>1. TaskGood(t) /\ task[t] \in TaskStates
    BY <1>1 DEF IInv, TaskInv, TypeOK
  <2> QED BY <2>1, <1>1, <1>2, <1>3 DEF TaskGood, TaskStates
<1>7. LockInv' /\ TaskInv'
  BY <1>1, <1>2, <1>3, <1>5, <1>6, TaskMoves DEF OneTask
<1>8. ListenInv'
  BY <1>5, <1>3, ListenFrame DEF SameSock
<1>9. SockInv' /\ HandlingInv' /\ EventInv' /\ PoolInv'
  BY <1>5, <1>1, <1>2, <1>3, Frame DEF Calm
<1> QED BY <1>4, <1>7, <1>8, <1>9 DEF IInv

LEMMA SelectKeeps ==
    ASSUME IInv, NEW t \in Tasks, Select(t)
    PROVE  IInv'
<1>1. /\ t \in Tasks
      /\ task[t].pc = "select"
  BY DEF Select
<1>2. {s \in task[t].copy : Readable(s)} \in SUBSET Socks /\ (task[t].wake > 0) \in BOOLEAN
  BY <1>1 DEF IInv, TypeOK, TaskStates
<1>3. /\ task' \in [Tasks -> TaskStates]
      /\ task'[t].pc = "receive"
      /\ task'[t].conns = task[t].conns
      /\ task'[t].remove = task[t].remove
      /\ task'[t].copy = task[t].copy
      /\ task'[t].ready = {s \in task[t].copy : Readable(s)}
      /\ task'[t].woken = (task[t].wake > 0)
      /\ task'[t].wake = task[t].wake
      /\ task'[t].cur = task[t].cur
      /\ \A u \in Tasks \ {t} : task'[u] = task[u]
  <2> DEFINE new == [task[t] EXCEPT !.ready = {s \in task[t].copy : Readable(s)}, !.woken = (task[t].wake > 0), !.pc = "receive"]
  <2>1. t \in Tasks /\ task \in [Tasks -> TaskStates] /\ task[t] \in TaskStates
    BY <1>1, <1>2, NatFacts DEF IInv, TypeOK
  <2>2. /\ new \in TaskStates
        /\ new.pc = "receive"
        /\ new.conns = task[t].conns
        /\ new.remove = task[t].remove
        /\ new.copy = task[t].copy
        /\ new.ready = {s \in task[t].copy : Readable(s)}
        /\ new.woken = (task[t].wake > 0)
        /\ new.wake = task[t].wake
        /\ new.cur = task[t].cur
    BY <1>1, <1>2, <2>1 DEF TaskStates
  <2>3. task' = [task EXCEPT ![t] = new]
    BY <1>1, <1>2, <2>1 DEF Select
  <2> HIDE DEF new
  <2> QED BY <2>1, <2>2, <2>3
<1>4. UNCHANGED <<sock, pool, listen, main, clients, queue>>
  BY DEF Select
<1>5. TypeOK'
  BY <1>3, <1>4 DEF IInv, TypeOK
<1>6. SameSock /\ SameTask
  BY <1>1, <1>2, <1>3, <1>4 DEF SameSock, SameTask
<1>7. TaskGood(t)'
  <2>1. TaskGood(t) /\ task[t] \in TaskStates
    BY <1>1 DEF IInv, TaskInv, TypeOK
  <2> QED BY <2>1, <1>1, <1>3, <1>4 DEF TaskGood
<1>8. LockInv' /\ TaskInv'
  BY <1>1, <1>3, <1>4, <1>6, <1>7, TaskMoves DEF OneTask
<1>9. ListenInv'
  BY <1>6, <1>4, ListenFrame DEF SameSock
<1>10. SockInv' /\ HandlingInv' /\ EventInv' /\ PoolInv'
  BY <1>6, <1>4, Frame
<1> QED BY <1>5, <1>8, <1>9, <1>10 DEF IInv

LEMMA SelectErrorKeeps ==
    ASSUME IInv, NEW t \in Tasks, SelectError(t)
    PROVE  IInv'
<1>1. /\ t \in Tasks
      /\ task[t].pc = "select"
  BY DEF SelectError
<1>2. /\ task' \in [Tasks -> TaskStates]
      /\ task'[t].pc = "dead"
      /\ task'[t].conns = task[t].conns
      /\ task'[t].remove = task[t].remove
      /\ task'[t].copy = task[t].copy
      /\ task'[t].ready = task[t].ready
      /\ task'[t].woken = task[t].woken
      /\ task'[t].wake = task[t].wake
      /\ task'[t].cur = task[t].cur
      /\ \A u \in Tasks \ {t} : task'[u] = task[u]
  <2> DEFINE new == [task[t] EXCEPT !.pc = "dead"]
  <2>1. t \in Tasks /\ task \in [Tasks -> TaskStates] /\ task[t] \in TaskStates
    BY <1>1, NatFacts DEF IInv, TypeOK
  <2>2. /\ new \in TaskStates
        /\ new.pc = "dead"
        /\ new.conns = task[t].conns
        /\ new.remove = task[t].remove
        /\ new.copy = task[t].copy
        /\ new.ready = task[t].ready
        /\ new.woken = task[t].woken
        /\ new.wake = task[t].wake
        /\ new.cur = task[t].cur
    BY <1>1, <2>1 DEF TaskStates
  <2>3. task' = [task EXCEPT ![t] = new]
    BY <1>1, <2>1 DEF SelectError
  <2> HIDE DEF new
  <2> QED BY <2>1, <2>2, <2>3
<1>3. UNCHANGED <<sock, pool, listen, main, clients, queue>>
  BY DEF SelectError
<1>4. TypeOK'
  BY <1>1, <1>2, <1>3, NatFacts DEF IInv, TypeOK
<1>5. SameSock /\ SameTask
  BY <1>1, <1>2, <1>3 DEF SameSock, SameTask
<1>6. TaskGood(t)'
  <2>1. TaskGood(t) /\ task[t] \in TaskStates
    BY <1>1 DEF IInv, TaskInv, TypeOK
  <2> QED BY <2>1, <1>1, <1>2, <1>3 DEF TaskGood, TaskStates
<1>7. LockInv' /\ TaskInv'
  BY <1>1, <1>2, <1>3, <1>5, <1>6, TaskMoves DEF OneTask
<1>8. ListenInv'
  BY <1>5, <1>3, ListenFrame DEF SameSock
<1>9. SockInv' /\ HandlingInv' /\ EventInv' /\ PoolInv'
  BY <1>5, <1>1, <1>2, <1>3, Frame DEF Calm
<1> QED BY <1>4, <1>7, <1>8, <1>9 DEF IInv

LEMMA ReceiveBlockKeeps ==
    ASSUME IInv, NEW t \in Tasks, NEW s \in Socks, ReceiveBlock(t, s)
    PROVE  IInv'
<1>1. /\ t \in Tasks /\ s \in Socks
      /\ task[t].pc = "receive"
      /\ s \in task[t].ready
      /\ sock[s].inbox > 0
  BY DEF ReceiveBlock
<1>2. /\ sock' \in [Socks -> SockStates]
      /\ sock'[s].obj = sock[s].obj
      /\ sock'[s].know = sock[s].know
      /\ sock'[s].owner = sock[s].owner
      /\ sock'[s].view = sock[s].view
      /\ sock'[s].phys = sock[s].phys
      /\ \A r \in Socks \ {s} : sock'[r] = sock[r]
  <2> DEFINE new == [sock[s] EXCEPT !.inbox = @ - 1]
  <2>1. s \in Socks /\ sock \in [Socks -> SockStates] /\ sock[s] \in SockStates
    BY <1>1, NatFacts DEF IInv, TypeOK
  <2>2. /\ new \in SockStates
        /\ new.obj = sock[s].obj
        /\ new.know = sock[s].know
        /\ new.owner = sock[s].owner
        /\ new.view = sock[s].view
        /\ new.phys = sock[s].phys
    BY <1>1, <2>1 DEF SockStates
  <2>3. sock' = [sock EXCEPT ![s] = new]
    BY <1>1, <2>1 DEF ReceiveBlock
  <2> HIDE DEF new
  <2> QED BY <2>1, <2>2, <2>3
<1>3. /\ task' \in [Tasks -> TaskStates]
      /\ task'[t].pc = "push"
      /\ task'[t].conns = task[t].conns
      /\ task'[t].remove = task[t].remove
      /\ task'[t].copy = task[t].copy
      /\ task'[t].ready = task[t].ready \ {s}
      /\ task'[t].woken = task[t].woken
      /\ task'[t].wake = task[t].wake
      /\ task'[t].cur = s
      /\ \A u \in Tasks \ {t} : task'[u] = task[u]
  <2> DEFINE new == [task[t] EXCEPT !.ready = @ \ {s}, !.cur = s, !.pc = "push"]
  <2>1. t \in Tasks /\ task \in [Tasks -> TaskStates] /\ task[t] \in TaskStates
    BY <1>1, NatFacts DEF IInv, TypeOK
  <2>2. /\ new \in TaskStates
        /\ new.pc = "push"
        /\ new.conns = task[t].conns
        /\ new.remove = task[t].remove
        /\ new.copy = task[t].copy
        /\ new.ready = task[t].ready \ {s}
        /\ new.woken = task[t].woken
        /\ new.wake = task[t].wake
        /\ new.cur = s
    BY <1>1, <2>1 DEF TaskStates
  <2>3. task' = [task EXCEPT ![t] = new]
    BY <1>1, <2>1 DEF ReceiveBlock
  <2> HIDE DEF new
  <2> QED BY <2>1, <2>2, <2>3
<1>4. UNCHANGED <<pool, listen, main, clients, queue>>
  BY DEF ReceiveBlock
<1>5. TypeOK'
  BY <1>2, <1>3, <1>4 DEF IInv, TypeOK
<1>6. SameSock /\ SameTask
  BY <1>1, <1>2, <1>3, <1>4 DEF SameSock, SameTask
<1>7. TaskGood(t)'
  <2>1. TaskGood(t) /\ task[t] \in TaskStates
    BY <1>1 DEF IInv, TaskInv, TypeOK
  <2> QED BY <2>1, <1>1, <1>2, <1>3, <1>4 DEF TaskGood, TaskStates
<1>8. LockInv' /\ TaskInv'
  BY <1>1, <1>3, <1>4, <1>6, <1>7, TaskMoves DEF OneTask
<1>9. ListenInv'
  BY <1>6, <1>4, ListenFrame DEF SameSock
<1>10. SockInv' /\ HandlingInv' /\ EventInv' /\ PoolInv'
  BY <1>6, <1>4, Frame
<1> QED BY <1>5, <1>8, <1>9, <1>10 DEF IInv

LEMMA ReceiveEndKeeps ==
    ASSUME IInv, NEW t \in Tasks, NEW s \in Socks, ReceiveEnd(t, s)
    PROVE  IInv'
<1>1. /\ t \in Tasks /\ s \in Socks
      /\ task[t].pc = "receive"
      /\ s \in task[t].ready
  BY DEF ReceiveEnd
<1>2. /\ sock' \in [Socks -> SockStates]
      /\ sock'[s].obj = sock[s].obj
      /\ sock'[s].know = sock[s].know
      /\ sock'[s].owner = sock[s].owner
      /\ sock'[s].view = sock[s].view
      /\ sock'[s].phys = FALSE
      /\ \A r \in Socks \ {s} : sock'[r] = sock[r]
  <2> DEFINE new == [sock[s] EXCEPT !.phys = FALSE]
  <2>1. s \in Socks /\ sock \in [Socks -> SockStates] /\ sock[s] \in SockStates
    BY <1>1, NatFacts DEF IInv, TypeOK
  <2>2. /\ new \in SockStates
        /\ new.obj = sock[s].obj
        /\ new.know = sock[s].know
        /\ new.owner = sock[s].owner
        /\ new.view = sock[s].view
        /\ new.phys = FALSE
    BY <1>1, <2>1 DEF SockStates
  <2>3. sock' = [sock EXCEPT ![s] = new]
    BY <1>1, <2>1 DEF ReceiveEnd
  <2> HIDE DEF new
  <2> QED BY <2>1, <2>2, <2>3
<1>3. /\ task' \in [Tasks -> TaskStates]
      /\ task'[t].pc = task[t].pc
      /\ task'[t].conns = task[t].conns
      /\ task'[t].remove = task[t].remove
      /\ task'[t].copy = task[t].copy
      /\ task'[t].ready = task[t].ready \ {s}
      /\ task'[t].woken = task[t].woken
      /\ task'[t].wake = task[t].wake
      /\ task'[t].cur = task[t].cur
      /\ \A u \in Tasks \ {t} : task'[u] = task[u]
  <2> DEFINE new == [task[t] EXCEPT !.ready = @ \ {s}]
  <2>1. t \in Tasks /\ task \in [Tasks -> TaskStates] /\ task[t] \in TaskStates
    BY <1>1, NatFacts DEF IInv, TypeOK
  <2>2. /\ new \in TaskStates
        /\ new.pc = task[t].pc
        /\ new.conns = task[t].conns
        /\ new.remove = task[t].remove
        /\ new.copy = task[t].copy
        /\ new.ready = task[t].ready \ {s}
        /\ new.woken = task[t].woken
        /\ new.wake = task[t].wake
        /\ new.cur = task[t].cur
    BY <1>1, <2>1 DEF TaskStates
  <2>3. task' = [task EXCEPT ![t] = new]
    BY <1>1, <2>1 DEF ReceiveEnd
  <2> HIDE DEF new
  <2> QED BY <2>1, <2>2, <2>3
<1>4. UNCHANGED <<pool, listen, main, clients, queue>>
  BY DEF ReceiveEnd
<1>5. TypeOK'
  BY <1>2, <1>3, <1>4 DEF IInv, TypeOK
<1>6. SameSock /\ SameTask
  BY <1>1, <1>2, <1>3, <1>4 DEF SameSock, SameTask
<1>7. TaskGood(t)'
  <2>1. TaskGood(t) /\ task[t] \in TaskStates
    BY <1>1 DEF IInv, TaskInv, TypeOK
  <2> QED BY <2>1, <1>2, <1>3, <1>4 DEF TaskGood, TaskStates
<1>8. LockInv' /\ TaskInv'
  BY <1>1, <1>3, <1>4, <1>6, <1>7, TaskMoves DEF OneTask
<1>9. ListenInv'
  BY <1>6, <1>4, ListenFrame DEF SameSock
<1>10. SockInv' /\ HandlingInv' /\ EventInv' /\ PoolInv'
  BY <1>6, <1>4, Frame
<1> QED BY <1>5, <1>8, <1>9, <1>10 DEF IInv

LEMMA EndLoopKeeps ==
    ASSUME IInv, NEW t \in Tasks, EndLoop(t)
    PROVE  IInv'
<1>1. /\ t \in Tasks
      /\ task[t].pc = "receive"
  BY DEF EndLoop
<1>2. /\ task[t].wake \in Nat
      /\ task[t].woken => task[t].wake - 1 \in Nat
  BY <1>1 DEF IInv, TypeOK, TaskStates, TaskInv, TaskGood
<1>3. PICK w \in Nat : task' = [task EXCEPT ![t].wake = w, ![t].pc = "clear",
                           ![t].copy = {}, ![t].skip = FALSE, ![t].woken = FALSE]
  BY <1>2 DEF EndLoop
<1>4. /\ task' \in [Tasks -> TaskStates]
      /\ task'[t].pc = "clear"
      /\ task'[t].conns = task[t].conns
      /\ task'[t].remove = task[t].remove
      /\ task'[t].copy = {}
      /\ task'[t].ready = task[t].ready
      /\ task'[t].woken = FALSE
      /\ task'[t].wake = w
      /\ task'[t].cur = task[t].cur
      /\ \A u \in Tasks \ {t} : task'[u] = task[u]
  <2> DEFINE new == [task[t] EXCEPT !.wake = w, !.pc = "clear", !.copy = {}, !.skip = FALSE, !.woken = FALSE]
  <2>1. t \in Tasks /\ task \in [Tasks -> TaskStates] /\ task[t] \in TaskStates
    BY <1>1, <1>2, <1>3, NatFacts DEF IInv, TypeOK
  <2>2. /\ new \in TaskStates
        /\ new.pc = "clear"
        /\ new.conns = task[t].conns
        /\ new.remove = task[t].remove
        /\ new.copy = {}
        /\ new.ready = task[t].ready
        /\ new.woken = FALSE
        /\ new.wake = w
        /\ new.cur = task[t].cur
    BY <1>1, <1>2, <1>3, <2>1 DEF TaskStates
  <2>3. task' = [task EXCEPT ![t] = new]
    BY <1>1, <1>2, <1>3, <2>1 DEF EndLoop
  <2> HIDE DEF new
  <2> QED BY <2>1, <2>2, <2>3
<1>5. UNCHANGED <<sock, pool, listen, main, clients, queue>>
  BY DEF EndLoop
<1>6. TypeOK'
  BY <1>4, <1>5 DEF IInv, TypeOK
<1>7. SameSock /\ SameTask
  BY <1>4, <1>5 DEF SameSock, SameTask
<1>8. TaskGood(t)'
  <2>1. TaskGood(t) /\ task[t] \in TaskStates
    BY <1>1 DEF IInv, TaskInv, TypeOK
  <2> QED BY <1>1, <1>3, <1>4 DEF TaskStates
<1>9. LockInv' /\ TaskInv'
  BY <1>1, <1>4, <1>5, <1>7, <1>8, TaskMoves DEF OneTask
<1>10. ListenInv'
  BY <1>7, <1>5, ListenFrame DEF SameSock
<1>11. SockInv' /\ HandlingInv' /\ EventInv' /\ PoolInv'
  BY <1>7, <1>5, Frame
<1> QED BY <1>6, <1>9, <1>10, <1>11 DEF IInv

LEMMA BeginWalkKeeps ==
    ASSUME IInv, NEW op \in {"update", "disconnect"}, BeginWalk(op)
    PROVE  IInv'
<1>1. /\ main.pc = "idle"
      /\ listen.pc \notin {"scan", "add", "wake"}
  BY DEF BeginWalk, PoolFree
<1>2. /\ main' \in MainStates
      /\ main'.pc = "threads" /\ main'.task = 1
  <2>1. PICK b \in 0 .. MaxDisconnects :
            main' = [main EXCEPT !.pc = "threads", !.op = op, !.task = 1, !.budget = b]
    <3>1. main.budget \in 0 .. MaxDisconnects /\ MaxDisconnects \in Nat
      BY ConstantsAssumption DEF IInv, TypeOK, MainStates
    <3>2. CASE op = "update"
      BY <3>1, <3>2 DEF BeginWalk
    <3>3. CASE op = "disconnect"
      <4>1. main.budget - 1 \in 0 .. MaxDisconnects
        BY <3>1, <3>3 DEF BeginWalk
      <4> QED BY <4>1, <3>3 DEF BeginWalk
    <3> QED BY <3>2, <3>3
  <2> QED BY <2>1 DEF IInv, TypeOK, MainStates
<1>3. UNCHANGED <<sock, task, pool, listen, clients, queue>>
  BY DEF BeginWalk
<1>4. TypeOK'
  BY <1>1, <1>2, <1>3, NatFacts DEF IInv, TypeOK
<1>5. SameSock /\ SameTask
  BY <1>1, <1>2, <1>3 DEF SameSock, SameTask
<1>6. LockInv'
  BY <1>1, <1>2, <1>3 DEF IInv, LockInv
<1>7. TaskInv'
  BY <1>5, <1>3, TaskFrame
<1>8. ListenInv'
  BY <1>5, <1>3, ListenFrame DEF SameSock
<1>9. SockInv' /\ HandlingInv' /\ EventInv' /\ PoolInv'
  BY <1>5, <1>1, <1>2, <1>3, Frame DEF Calm
<1> QED BY <1>4, <1>6, <1>7, <1>8, <1>9 DEF IInv

LEMMA NextThreadKeeps ==
    ASSUME IInv, NextThread
    PROVE  IInv'
<1>1. main.pc = "threads"
  BY DEF NextThread
<1>2. /\ pool \in Nat /\ pool <= Cardinality(Socks)
      /\ main.task \in Nat /\ main.task >= 1
  BY <1>1, NatFacts DEF IInv, TypeOK, MainStates, LockInv
<1>3. main.task <= pool => main.task \in Tasks
  BY <1>2, NatFacts DEF Tasks
<1>4. /\ main' \in MainStates
      /\ \/ main'.pc = "idle"
         \/ /\ main'.pc = "visit" /\ main.task <= pool
            /\ main'.task = main.task /\ main'.todo = task[main.task].conns
  <2>1. CASE main.task > pool
    BY <2>1 DEF IInv, TypeOK, MainStates, MainIdle, NextThread
  <2>2. CASE main.task <= pool
    <3>1. PICK d \in SUBSET Socks : /\ main' = [main EXCEPT !.pc = "visit", !.todo = d]
                                    /\ d = task[main.task].conns
      <4>1. task[main.task].conns \in SUBSET Socks
        BY <2>2, <1>3 DEF IInv, TypeOK, TaskStates
      <4>2. main' = [main EXCEPT !.pc = "visit", !.todo = task[main.task].conns]
        BY <2>2, <1>1, <1>2, <1>3 DEF NextThread
      <4> QED BY <4>1, <4>2
    <3> QED BY <3>1, <2>2 DEF IInv, TypeOK, MainStates
  <2> QED BY <2>1, <2>2, <1>1, <1>2, <1>3
<1>5. UNCHANGED <<sock, task, pool, listen, clients, queue>>
  BY DEF NextThread
<1>6. TypeOK'
  BY <1>4, <1>5 DEF IInv, TypeOK
<1>7. SameSock /\ SameTask
  BY <1>5 DEF SameSock, SameTask
<1>8. LockInv'
  BY <1>1, <1>4, <1>5 DEF IInv, LockInv
<1>9. TaskInv'
  BY <1>7, <1>5, TaskFrame
<1>10. ListenInv'
  BY <1>7, <1>5, ListenFrame DEF SameSock
<1>11. SockInv' /\ HandlingInv' /\ EventInv' /\ PoolInv'
  BY <1>7, <1>1, <1>4, <1>5, Frame DEF Calm
<1> QED BY <1>6, <1>8, <1>9, <1>10, <1>11 DEF IInv

LEMMA VisitSoundKeeps ==
    ASSUME IInv, NEW s \in Socks, VisitSound(s)
    PROVE  IInv'
<1>1. /\ s \in Socks
      /\ main.pc = "visit"
  BY DEF VisitSound
<1>2. /\ main' \in MainStates
      /\ main'.pc = main.pc
      /\ main'.op = main.op
      /\ main'.task = main.task
      /\ main'.todo = main.todo \ {s}
      /\ main'.budget = main.budget
  BY DEF IInv, TypeOK, MainStates, VisitSound
<1>3. UNCHANGED <<sock, task, pool, listen, clients, queue>>
  BY DEF VisitSound
<1>4. TypeOK'
  BY <1>1, <1>2, <1>3, NatFacts DEF IInv, TypeOK
<1>5. SameSock /\ SameTask
  BY <1>1, <1>2, <1>3 DEF SameSock, SameTask
<1>6. LockInv'
  BY <1>1, <1>2, <1>3 DEF IInv, LockInv
<1>7. TaskInv'
  BY <1>5, <1>3, TaskFrame
<1>8. ListenInv'
  BY <1>5, <1>3, ListenFrame DEF SameSock
<1>9. SockInv' /\ HandlingInv' /\ EventInv' /\ PoolInv'
  BY <1>5, <1>1, <1>2, <1>3, Frame DEF Calm
<1> QED BY <1>4, <1>6, <1>7, <1>8, <1>9 DEF IInv

LEMMA VisitDisconnectKeeps ==
    ASSUME IInv, NEW s \in Socks, VisitDisconnect(s)
    PROVE  IInv'
<1>1. /\ s \in Socks
      /\ main.pc = "visit"
  BY DEF VisitDisconnect
<1>2. /\ sock' \in [Socks -> SockStates]
      /\ sock'[s].obj = sock[s].obj
      /\ sock'[s].know = sock[s].know
      /\ sock'[s].owner = sock[s].owner
      /\ sock'[s].view = sock[s].view
      /\ sock'[s].phys = FALSE
      /\ \A r \in Socks \ {s} : sock'[r] = sock[r]
  <2> DEFINE new == [sock[s] EXCEPT !.phys = FALSE]
  <2>1. s \in Socks /\ sock \in [Socks -> SockStates] /\ sock[s] \in SockStates
    BY <1>1, NatFacts DEF IInv, TypeOK
  <2>2. /\ new \in SockStates
        /\ new.obj = sock[s].obj
        /\ new.know = sock[s].know
        /\ new.owner = sock[s].owner
        /\ new.view = sock[s].view
        /\ new.phys = FALSE
    BY <1>1, <2>1 DEF SockStates
  <2>3. sock' = [sock EXCEPT ![s] = new]
    BY <1>1, <2>1 DEF VisitDisconnect
  <2> HIDE DEF new
  <2> QED BY <2>1, <2>2, <2>3
<1>3. /\ main' \in MainStates
      /\ main'.pc = main.pc
      /\ main'.op = main.op
      /\ main'.task = main.task
      /\ main'.todo = main.todo \ {s}
      /\ main'.budget = main.budget
  BY DEF IInv, TypeOK, MainStates, VisitDisconnect
<1>4. UNCHANGED <<task, pool, listen, clients, queue>>
  BY DEF VisitDisconnect
<1>5. TypeOK'
  BY <1>2, <1>3, <1>4 DEF IInv, TypeOK
<1>6. SameSock /\ SameTask
  BY <1>1, <1>2, <1>3, <1>4 DEF SameSock, SameTask
<1>7. LockInv'
  BY <1>1, <1>2, <1>3, <1>4 DEF IInv, LockInv
<1>8. TaskInv'
  BY <1>6, <1>4, TaskFrame
<1>9. ListenInv'
  BY <1>6, <1>4, ListenFrame DEF SameSock
<1>10. SockInv' /\ HandlingInv' /\ EventInv' /\ PoolInv'
  BY <1>6, <1>3, <1>4, Frame
<1> QED BY <1>5, <1>7, <1>8, <1>9, <1>10 DEF IInv

LEMMA EndThreadKeeps ==
    ASSUME IInv, EndThread
    PROVE  IInv'
<1>1. main.pc = "visit"
  BY DEF EndThread
<1>2. main.task \in Nat /\ main.task + 1 \in Nat /\ main.task >= 1
  BY <1>1 DEF IInv, TypeOK, MainStates, LockInv
<1>3. /\ main' \in MainStates
      /\ main'.pc = "threads"
      /\ main'.op = main.op
      /\ main'.task = main.task + 1
      /\ main'.todo = main.todo
      /\ main'.budget = main.budget
  BY <1>2 DEF IInv, TypeOK, MainStates, EndThread
<1>4. UNCHANGED <<sock, task, pool, listen, clients, queue>>
  BY DEF EndThread
<1>5. TypeOK'
  BY <1>3, <1>4 DEF IInv, TypeOK
<1>6. SameSock /\ SameTask
  BY <1>1, <1>2, <1>3, <1>4 DEF SameSock, SameTask
<1>7. LockInv'
  BY <1>1, <1>2, <1>3, <1>4 DEF IInv, LockInv
<1>8. TaskInv'
  BY <1>6, <1>4, TaskFrame
<1>9. ListenInv'
  BY <1>6, <1>4, ListenFrame DEF SameSock
<1>10. SockInv' /\ HandlingInv' /\ EventInv' /\ PoolInv'
  BY <1>6, <1>1, <1>3, <1>4, Frame DEF Calm
<1> QED BY <1>5, <1>7, <1>8, <1>9, <1>10 DEF IInv

LEMMA DisconnectHostKeeps ==
    ASSUME IInv, NEW s \in Socks, DisconnectHost(s)
    PROVE  IInv'
<1>1. /\ s \in Socks
      /\ main.budget > 0
  BY DEF DisconnectHost
<1>2. /\ sock' \in [Socks -> SockStates]
      /\ sock'[s].obj = sock[s].obj
      /\ sock'[s].know = sock[s].know
      /\ sock'[s].owner = sock[s].owner
      /\ sock'[s].view = sock[s].view
      /\ sock'[s].phys = FALSE
      /\ \A r \in Socks \ {s} : sock'[r] = sock[r]
  <2> DEFINE new == [sock[s] EXCEPT !.phys = FALSE]
  <2>1. s \in Socks /\ sock \in [Socks -> SockStates] /\ sock[s] \in SockStates
    BY <1>1, NatFacts DEF IInv, TypeOK
  <2>2. /\ new \in SockStates
        /\ new.obj = sock[s].obj
        /\ new.know = sock[s].know
        /\ new.owner = sock[s].owner
        /\ new.view = sock[s].view
        /\ new.phys = FALSE
    BY <1>1, <2>1 DEF SockStates
  <2>3. sock' = [sock EXCEPT ![s] = new]
    BY <1>1, <2>1 DEF DisconnectHost
  <2> HIDE DEF new
  <2> QED BY <2>1, <2>2, <2>3
<1>3. /\ main' \in MainStates
      /\ main'.pc = main.pc
      /\ main'.op = main.op
      /\ main'.task = main.task
      /\ main'.todo = main.todo
      /\ main'.budget = main.budget - 1
  BY <1>1, ConstantsAssumption DEF IInv, TypeOK, MainStates, NULL, DisconnectHost
<1>4. UNCHANGED <<task, pool, listen, clients, queue>>
  BY DEF DisconnectHost
<1>5. TypeOK'
  BY <1>2, <1>3, <1>4 DEF IInv, TypeOK
<1>6. SameSock /\ SameTask
  BY <1>1, <1>2, <1>3, <1>4 DEF SameSock, SameTask
<1>7. LockInv'
  BY <1>1, <1>2, <1>3, <1>4 DEF IInv, LockInv
<1>8. TaskInv'
  BY <1>6, <1>4, TaskFrame
<1>9. ListenInv'
  BY <1>6, <1>4, ListenFrame DEF SameSock
<1>10. SockInv' /\ HandlingInv' /\ EventInv' /\ PoolInv'
  BY <1>6, <1>3, <1>4, Frame
<1> QED BY <1>5, <1>7, <1>8, <1>9, <1>10 DEF IInv

LEMMA BeginDestroyKeeps ==
    ASSUME IInv, BeginDestroy
    PROVE  IInv'
<1>1. main.pc = "idle"
  BY DEF BeginDestroy
<1>2. /\ main' \in MainStates
      /\ main'.pc = "joinListen"
      /\ main'.op = main.op
      /\ main'.task = main.task
      /\ main'.todo = main.todo
      /\ main'.budget = main.budget
  BY DEF IInv, TypeOK, MainStates, BeginDestroy
<1>3. /\ listen' \in ListenStates
      /\ listen'.pc = listen.pc
      /\ listen'.sock = listen.sock
      /\ listen'.i = listen.i
      /\ listen'.best = listen.best
      /\ listen'.lo = listen.lo
      /\ listen'.hi = listen.hi
      /\ listen'.exit = TRUE
  BY DEF IInv, TypeOK, ListenStates, BeginDestroy
<1>4. UNCHANGED <<sock, task, pool, clients, queue>>
  BY DEF BeginDestroy
<1>5. TypeOK'
  BY <1>2, <1>3, <1>4 DEF IInv, TypeOK
<1>6. SameSock /\ SameTask
  BY <1>1, <1>2, <1>3, <1>4 DEF SameSock, SameTask
<1>7. LockInv'
  BY <1>1, <1>2, <1>3, <1>4 DEF IInv, LockInv
<1>8. TaskInv'
  BY <1>6, <1>4, TaskFrame
<1>9. ListenInv'
  BY <1>1, <1>2, <1>3, <1>4 DEF IInv, ListenInv
<1>10. SockInv' /\ HandlingInv' /\ EventInv' /\ PoolInv'
  BY <1>6, <1>1, <1>2, <1>4, Frame DEF Calm
<1> QED BY <1>5, <1>7, <1>8, <1>9, <1>10 DEF IInv

LEMMA JoinListenKeeps ==
    ASSUME IInv, JoinListen
    PROVE  IInv'
<1>1. /\ main.pc = "joinListen"
      /\ listen.pc = "done"
  BY DEF JoinListen
<1>2. /\ main' \in MainStates
      /\ main'.pc = "stop"
      /\ main'.op = main.op
      /\ main'.task = 1
      /\ main'.todo = main.todo
      /\ main'.budget = main.budget
  BY DEF IInv, TypeOK, MainStates, JoinListen
<1>3. UNCHANGED <<sock, task, pool, listen, clients, queue>>
  BY DEF JoinListen
<1>4. TypeOK'
  BY <1>1, <1>2, <1>3, NatFacts DEF IInv, TypeOK
<1>5. SameSock /\ SameTask
  BY <1>1, <1>2, <1>3 DEF SameSock, SameTask
<1>6. LockInv'
  BY <1>1, <1>2, <1>3 DEF IInv, LockInv
<1>7. TaskInv'
  BY <1>5, <1>3, TaskFrame
<1>8. ListenInv'
  BY <1>5, <1>3, ListenFrame DEF SameSock
<1>9. SockInv' /\ HandlingInv' /\ EventInv' /\ PoolInv'
  BY <1>5, <1>1, <1>2, <1>3, Frame DEF Calm
<1> QED BY <1>4, <1>6, <1>7, <1>8, <1>9 DEF IInv

LEMMA StopThreadKeeps ==
    ASSUME IInv, StopThread
    PROVE  IInv'
<1>1. main.pc = "stop"
  BY DEF StopThread
<1>2. /\ pool \in Nat /\ pool <= Cardinality(Socks)
      /\ main.task \in Nat /\ main.task >= 1
  BY <1>1, NatFacts DEF IInv, TypeOK, MainStates, LockInv
<1>3. main.task <= pool => main.task \in Tasks
  BY <1>2, NatFacts DEF Tasks
<1>4. /\ task' \in [Tasks -> TaskStates]
      /\ \A u \in Tasks : Woken(u)
  <2>1. CASE main.task > pool
    BY <2>1 DEF IInv, TypeOK, StopThread, Woken
  <2>2. CASE main.task <= pool
    <3> DEFINE new == [task[main.task] EXCEPT !.exit = TRUE, !.wake = @ + 1]
    <3>1. /\ main.task \in Tasks /\ task \in [Tasks -> TaskStates]
          /\ task[main.task] \in TaskStates
      BY <2>2, <1>1, <1>2, <1>3 DEF IInv, TypeOK
    <3>2. /\ new \in TaskStates
          /\ new.pc = task[main.task].pc /\ new.conns = task[main.task].conns
          /\ new.remove = task[main.task].remove /\ new.copy = task[main.task].copy
          /\ new.ready = task[main.task].ready /\ new.cur = task[main.task].cur
          /\ new.woken = task[main.task].woken
          /\ task[main.task].wake > 0 => new.wake > 0
      <4>1. task[main.task].wake + 1 \in Nat \ {0}
        BY <3>1 DEF TaskStates
      <4>2. new.wake = task[main.task].wake + 1
        BY <3>1 DEF TaskStates
      <4>3. new \in TaskStates
        BY <3>1, <4>1 DEF TaskStates
      <4> QED BY <3>1, <4>1, <4>2, <4>3 DEF TaskStates
    <3>3. task' = [task EXCEPT ![main.task] = new]
      <4>1. task' = [task EXCEPT ![main.task].exit = TRUE, ![main.task].wake = @ + 1]
        BY <2>2, <1>1, <1>2, <1>3 DEF StopThread
      <4> QED BY <4>1, <3>1
    <3> HIDE DEF new
    <3> QED BY <3>1, <3>2, <3>3 DEF Woken
  <2> QED BY <2>1, <2>2, <1>1, <1>2, <1>3
<1>5. /\ main' \in MainStates
      /\ \/ main'.pc = "join"
         \/ main'.pc = "stop" /\ main'.task = main.task + 1
  <2>1. \/ main' = [main EXCEPT !.pc = "join"]
        \/ main' = [main EXCEPT !.task = @ + 1]
    BY DEF StopThread
  <2> QED BY <2>1, <1>1 DEF IInv, TypeOK, MainStates
<1>6. UNCHANGED <<sock, pool, listen, clients, queue>>
  BY DEF StopThread
<1>7. TypeOK'
  BY <1>4, <1>5, <1>6 DEF IInv, TypeOK
<1>8. SameSock /\ SameTask
  BY <1>4, <1>6 DEF SameSock, SameTask, Woken
<1>9. TaskInv'
  BY <1>8, <1>4, <1>6, WokenFrame
<1>10. LockInv'
  BY <1>1, <1>2, <1>5, <1>6 DEF IInv, LockInv
<1>11. ListenInv'
  BY <1>8, <1>6, ListenFrame DEF SameSock
<1>12. SockInv' /\ HandlingInv' /\ EventInv' /\ PoolInv'
  BY <1>8, <1>1, <1>5, <1>6, Frame DEF Calm
<1> QED BY <1>7, <1>9, <1>10, <1>11, <1>12 DEF IInv

LEMMA JoinThreadsKeeps ==
    ASSUME IInv, JoinThreads
    PROVE  IInv'
<1>1. /\ main.pc = "join"
      /\ \A t \in 1 .. pool : task[t].pc = "dead"
  BY DEF JoinThreads
<1>2. /\ pool \in Nat
      /\ \A t \in Tasks : t \in 1 .. pool \/ task[t].pc = "none"
  BY NatFacts DEF IInv, TypeOK, TaskInv, TaskGood, Tasks
<1>3. /\ main' \in MainStates
      /\ main'.pc = "delete"
      /\ main'.op = main.op
      /\ main'.task = main.task
      /\ main'.todo = main.todo
      /\ main'.budget = main.budget
  BY DEF IInv, TypeOK, MainStates, JoinThreads
<1>4. UNCHANGED <<sock, task, pool, listen, clients, queue>>
  BY DEF JoinThreads
<1>5. TypeOK'
  BY <1>3, <1>4 DEF IInv, TypeOK
<1>6. SameSock /\ SameTask
  BY <1>1, <1>2, <1>3, <1>4 DEF SameSock, SameTask
<1>7. LockInv'
  BY <1>1, <1>2, <1>3, <1>4 DEF IInv, LockInv
<1>8. TaskInv'
  BY <1>6, <1>4, TaskFrame
<1>9. ListenInv'
  BY <1>6, <1>4, ListenFrame DEF SameSock
<1>10. SockInv' /\ HandlingInv' /\ EventInv' /\ PoolInv'
  BY <1>6, <1>1, <1>3, <1>4, Frame DEF Calm
<1> QED BY <1>5, <1>7, <1>8, <1>9, <1>10 DEF IInv

LEMMA AcceptKeeps ==
    ASSUME IInv, Accept
    PROVE  IInv'
<1>1. listen.pc = "accept"
  BY DEF Accept
<1>2. PICK s \in Socks :
          /\ sock[s].obj = "none"
          /\ sock' = [sock EXCEPT ![s].obj = "alive", ![s].phys = TRUE, ![s].open = TRUE]
          /\ listen' = [listen EXCEPT !.pc = "advertise", !.sock = s]
  BY DEF Accept
<1>3. ~Known(s) /\ sock[s].view = "none"
  BY <1>2 DEF IInv, SockInv, SockGood
<1>4. /\ sock' \in [Socks -> SockStates]
      /\ sock'[s].obj = "alive"
      /\ sock'[s].know = sock[s].know
      /\ sock'[s].owner = sock[s].owner
      /\ sock'[s].view = sock[s].view
      /\ sock'[s].phys = TRUE
      /\ \A r \in Socks \ {s} : sock'[r] = sock[r]
  <2> DEFINE new == [sock[s] EXCEPT !.obj = "alive", !.phys = TRUE, !.open = TRUE]
  <2>1. s \in Socks /\ sock \in [Socks -> SockStates] /\ sock[s] \in SockStates
    BY <1>1, <1>2, <1>3, NatFacts DEF IInv, TypeOK
  <2>2. /\ new \in SockStates
        /\ new.obj = "alive"
        /\ new.know = sock[s].know
        /\ new.owner = sock[s].owner
        /\ new.view = sock[s].view
        /\ new.phys = TRUE
    BY <1>1, <1>2, <1>3, <2>1 DEF SockStates
  <2>3. sock' = [sock EXCEPT ![s] = new]
    BY <1>1, <1>2, <1>3, <2>1 DEF Accept
  <2> HIDE DEF new
  <2> QED BY <2>1, <2>2, <2>3
<1>5. /\ listen' \in ListenStates
      /\ listen'.pc = "advertise"
      /\ listen'.sock = s
      /\ listen'.i = listen.i
      /\ listen'.best = listen.best
      /\ listen'.lo = listen.lo
      /\ listen'.hi = listen.hi
      /\ listen'.exit = listen.exit
  BY <1>2 DEF IInv, TypeOK, ListenStates, NULL
<1>6. UNCHANGED <<task, pool, main, clients, queue>>
  BY DEF Accept
<1>7. TypeOK'
  BY <1>4, <1>5, <1>6 DEF IInv, TypeOK
<1>8. LockInv'
  BY <1>1, <1>5, <1>6 DEF IInv, LockInv
<1>9. TaskInv'
  <2> SUFFICES ASSUME NEW u \in Tasks
               PROVE  TaskGood(u)'
    BY DEF TaskInv
  <2>1. TaskGood(u) /\ task[u] \in TaskStates
    BY DEF IInv, TaskInv, TypeOK
  <2> QED BY <2>1, <1>4, <1>6 DEF TaskGood, TaskStates
<1>10. ListenInv'
  BY <1>3, <1>4, <1>5 DEF IInv, ListenInv, Known, TypeOK, SockStates
<1>11. SockInv'
  <2> SUFFICES ASSUME NEW r \in Socks
               PROVE  SockGood(r)'
    BY DEF SockInv
  <2>1. SockGood(r) /\ sock[r].owner \in Tasks \cup {NULL}
    BY DEF IInv, SockInv, TypeOK, SockStates
  <2> QED BY <2>1, <1>3, <1>4, <1>6 DEF SockGood, Known, Is
<1>12. HandlingInv'
  BY HeadFacts, <1>4, <1>6 DEF IInv, HandlingInv
<1>13. EventInv'
  <2>1. ASSUME NEW i \in Positions'
        PROVE  EventGood(i)'
    <3>1. i \in Positions /\ EventGood(i) /\ queue[i].sock \in Socks
      BY EventFacts, <1>6 DEF IInv, EventInv, Positions
    <3> QED BY <3>1, <1>4, <1>6 DEF EventGood, Known, Is, Positions
  <2>2. ASSUME NEW r \in Socks
        PROVE  Awaited(r)'
    <3>1. Awaited(r)
      BY DEF IInv, EventInv
    <3> QED BY <3>1, <1>4, <1>6 DEF Awaited, Known, Is, Positions
  <2> QED BY <2>1, <2>2 DEF EventInv
<1>14. PoolInv'
  <2>1. Owned' = Owned
    BY <1>4 DEF Owned
  <2> QED BY <2>1, <1>6, <1>5 DEF IInv, PoolInv
<1> QED BY <1>7, <1>8, <1>9, <1>10, <1>11, <1>12, <1>13, <1>14 DEF IInv

LEMMA AdvertiseConnectionKeeps ==
    ASSUME IInv, AdvertiseConnection
    PROVE  IInv'
<1>1. listen.pc = "advertise"
  BY DEF AdvertiseConnection
<1>2. /\ listen.sock \in Socks /\ sock[listen.sock].obj = "alive"
      /\ sock[listen.sock].owner = NULL /\ ~sock[listen.sock].know
  BY <1>1 DEF IInv, ListenInv
<1>3. /\ queue' \in Seq(Events)
      /\ Len(queue) \in Nat /\ Len(queue') = Len(queue) + 1
      /\ queue'[Len(queue) + 1].sock = listen.sock
      /\ queue'[Len(queue) + 1].type = "Connection"
      /\ \A i \in 1 .. Len(queue) : queue'[i] = queue[i]
  BY <1>2, Pushed DEF IInv, EventTypes, AdvertiseConnection
<1>4. /\ sock' \in [Socks -> SockStates]
      /\ sock'[listen.sock].obj = sock[listen.sock].obj
      /\ sock'[listen.sock].know = TRUE
      /\ sock'[listen.sock].owner = sock[listen.sock].owner
      /\ sock'[listen.sock].view = sock[listen.sock].view
      /\ sock'[listen.sock].phys = sock[listen.sock].phys
      /\ \A r \in Socks \ {listen.sock} : sock'[r] = sock[r]
  <2> DEFINE new == [sock[listen.sock] EXCEPT !.know = TRUE]
  <2>1. listen.sock \in Socks /\ sock \in [Socks -> SockStates] /\ sock[listen.sock] \in SockStates
    BY <1>1, <1>2, <1>3, NatFacts DEF IInv, TypeOK
  <2>2. /\ new \in SockStates
        /\ new.obj = sock[listen.sock].obj
        /\ new.know = TRUE
        /\ new.owner = sock[listen.sock].owner
        /\ new.view = sock[listen.sock].view
        /\ new.phys = sock[listen.sock].phys
    BY <1>1, <1>2, <1>3, <2>1 DEF SockStates
  <2>3. sock' = [sock EXCEPT ![listen.sock] = new]
    BY <1>1, <1>2, <1>3, <2>1 DEF AdvertiseConnection
  <2> HIDE DEF new
  <2> QED BY <2>1, <2>2, <2>3
<1>5. /\ listen' \in ListenStates
      /\ listen'.pc = "lock"
      /\ listen'.sock = listen.sock
      /\ listen'.i = listen.i
      /\ listen'.best = listen.best
      /\ listen'.lo = listen.lo
      /\ listen'.hi = listen.hi
      /\ listen'.exit = listen.exit
  BY DEF IInv, TypeOK, ListenStates, AdvertiseConnection
<1>6. UNCHANGED <<task, pool, main, clients>>
  BY DEF AdvertiseConnection
<1>7. TypeOK'
  BY <1>3, <1>4, <1>5, <1>6 DEF IInv, TypeOK
<1>8. LockInv'
  BY <1>1, <1>5, <1>6 DEF IInv, LockInv
<1>9. TaskInv'
  <2> SUFFICES ASSUME NEW u \in Tasks
               PROVE  TaskGood(u)'
    BY DEF TaskInv
  <2>1. TaskGood(u) /\ task[u] \in TaskStates
    BY DEF IInv, TaskInv, TypeOK
  <2> QED BY <2>1, <1>2, <1>4, <1>6
             DEF IInv, TaskGood, TaskStates, Is, SockInv, SockGood
<1>10. ListenInv'
  BY <1>2, <1>4, <1>5 DEF ListenInv
<1>11. SockInv'
  <2> SUFFICES ASSUME NEW r \in Socks
               PROVE  SockGood(r)'
    BY DEF SockInv
  <2>1. SockGood(r) /\ sock[r].owner \in Tasks \cup {NULL}
    BY DEF IInv, SockInv, TypeOK, SockStates
  <2> QED BY <2>1, <1>2, <1>3, <1>4, <1>6 DEF SockGood, Known, Is
<1>12. HandlingInv'
  <2>1. main.pc # "destroyed"
    BY <1>1 DEF IInv, LockInv
  <2> QED BY <2>1, HeadFacts, <1>3, <1>4, <1>6 DEF IInv, HandlingInv
<1>13. EventInv'
  <2>1. ASSUME NEW i \in Positions'
        PROVE  EventGood(i)'
    <3>1. CASE i \in Positions
      <4>1. EventGood(i) /\ queue'[i] = queue[i] /\ queue[i].sock \in Socks
        BY <3>1, EventFacts, <1>3 DEF IInv, EventInv, Positions
      <4>2. sock'[queue[i].sock] = sock[queue[i].sock] /\ queue[i].sock # listen.sock
        BY <4>1, <1>2, <1>4 DEF EventGood, Known
      <4>3. \A j \in Positions' : \/ j \in Positions /\ queue'[j] = queue[j]
                                  \/ /\ queue'[j].sock = listen.sock
                                     /\ queue'[j].type = "Connection"
        BY <1>3 DEF Positions
      <4> QED BY <3>1, <4>1, <4>2, <4>3, <1>6 DEF EventGood, Known, Is
    <3>2. CASE i = Len(queue) + 1
      BY <3>2, <1>2, <1>3, <1>4
         DEF IInv, EventGood, Known, Positions, EventInv, SockInv, SockGood,
             HandlingInv
    <3> QED BY <3>1, <3>2, <1>3 DEF Positions
  <2>2. ASSUME NEW r \in Socks
        PROVE  Awaited(r)'
    <3>1. Awaited(r)
      BY DEF IInv, EventInv
    <3> QED BY <3>1, <1>1, <1>3, <1>4, <1>6 DEF Awaited, Known, Is, Positions
  <2> QED BY <2>1, <2>2 DEF EventInv
<1>14. PoolInv'
  <2>1. Owned' = Owned
    BY <1>4 DEF Owned
  <2> QED BY <2>1, <1>6, <1>5 DEF IInv, PoolInv
<1> QED BY <1>7, <1>8, <1>9, <1>10, <1>11, <1>12, <1>13, <1>14 DEF IInv

LEMMA AddToThreadKeeps ==
    ASSUME IInv, AddToThread
    PROVE  IInv'
<1>1. /\ listen.pc = "add"
      /\ listen.best # NULL
      /\ main.pc = "visit" => main.task # listen.best
  BY DEF AddToThread, ConnFree
<1>2. /\ listen.sock \in Socks /\ listen.best \in Tasks /\ listen.best \in 1 .. pool
      /\ sock[listen.sock].obj = "alive" /\ sock[listen.sock].owner = NULL
      /\ sock[listen.sock].know
  <2>1. /\ listen.best \in 1 .. pool /\ listen.sock \in Socks
        /\ sock[listen.sock].obj = "alive" /\ sock[listen.sock].owner = NULL
    BY <1>1 DEF IInv, ListenInv
  <2>2. sock[listen.sock].know
    BY <1>1 DEF IInv, ListenInv
  <2>3. pool \in Nat /\ pool <= Cardinality(Socks)
    BY NatFacts DEF IInv, TypeOK
  <2> QED BY <2>1, <2>2, <2>3, NatFacts DEF Tasks
<1>3. /\ sock' \in [Socks -> SockStates]
      /\ sock'[listen.sock].obj = sock[listen.sock].obj
      /\ sock'[listen.sock].know = sock[listen.sock].know
      /\ sock'[listen.sock].owner = listen.best
      /\ sock'[listen.sock].view = sock[listen.sock].view
      /\ sock'[listen.sock].phys = sock[listen.sock].phys
      /\ \A r \in Socks \ {listen.sock} : sock'[r] = sock[r]
  <2> DEFINE new == [sock[listen.sock] EXCEPT !.owner = listen.best]
  <2>1. listen.sock \in Socks /\ sock \in [Socks -> SockStates] /\ sock[listen.sock] \in SockStates
    BY <1>1, <1>2, NatFacts DEF IInv, TypeOK
  <2>2. /\ new \in SockStates
        /\ new.obj = sock[listen.sock].obj
        /\ new.know = sock[listen.sock].know
        /\ new.owner = listen.best
        /\ new.view = sock[listen.sock].view
        /\ new.phys = sock[listen.sock].phys
    BY <1>1, <1>2, <2>1 DEF SockStates
  <2>3. sock' = [sock EXCEPT ![listen.sock] = new]
    BY <1>1, <1>2, <2>1 DEF AddToThread
  <2> HIDE DEF new
  <2> QED BY <2>1, <2>2, <2>3
<1>4. /\ task' \in [Tasks -> TaskStates]
      /\ task'[listen.best].pc = task[listen.best].pc
      /\ task'[listen.best].conns = task[listen.best].conns \cup {listen.sock}
      /\ task'[listen.best].remove = task[listen.best].remove
      /\ task'[listen.best].copy = task[listen.best].copy
      /\ task'[listen.best].ready = task[listen.best].ready
      /\ task'[listen.best].woken = task[listen.best].woken
      /\ task'[listen.best].wake = task[listen.best].wake
      /\ task'[listen.best].cur = task[listen.best].cur
      /\ \A u \in Tasks \ {listen.best} : task'[u] = task[u]
  <2> DEFINE new == [task[listen.best] EXCEPT !.conns = @ \cup {listen.sock}]
  <2>1. listen.best \in Tasks /\ task \in [Tasks -> TaskStates] /\ task[listen.best] \in TaskStates
    BY <1>1, <1>2, NatFacts DEF IInv, TypeOK
  <2>2. /\ new \in TaskStates
        /\ new.pc = task[listen.best].pc
        /\ new.conns = task[listen.best].conns \cup {listen.sock}
        /\ new.remove = task[listen.best].remove
        /\ new.copy = task[listen.best].copy
        /\ new.ready = task[listen.best].ready
        /\ new.woken = task[listen.best].woken
        /\ new.wake = task[listen.best].wake
        /\ new.cur = task[listen.best].cur
    BY <1>1, <1>2, <2>1 DEF TaskStates
  <2>3. task' = [task EXCEPT ![listen.best] = new]
    BY <1>1, <1>2, <2>1 DEF AddToThread
  <2> HIDE DEF new
  <2> QED BY <2>1, <2>2, <2>3
<1>5. /\ listen' \in ListenStates
      /\ listen'.pc = "wake"
      /\ listen'.sock = listen.sock
      /\ listen'.i = listen.i
      /\ listen'.best = listen.best
      /\ listen'.lo = listen.lo
      /\ listen'.hi = listen.hi
      /\ listen'.exit = listen.exit
  BY DEF IInv, TypeOK, ListenStates, AddToThread
<1>6. UNCHANGED <<pool, main, clients, queue>>
  BY DEF AddToThread
<1>7. TypeOK'
  BY <1>3, <1>4, <1>5, <1>6 DEF IInv, TypeOK
<1>8. LockInv'
  BY <1>1, <1>6 DEF IInv, LockInv
<1>9. TaskInv'
  <2> SUFFICES ASSUME NEW u \in Tasks
               PROVE  TaskGood(u)'
    BY DEF TaskInv
  <2>1. TaskGood(u) /\ task[u] \in TaskStates
    BY DEF IInv, TaskInv, TypeOK
  <2> QED
    <3>1. listen.sock \notin task[u].conns /\ task[u].conns \subseteq Socks /\ task[u].remove \subseteq Socks
      BY <2>1, <1>2, NatFacts DEF TaskGood, TaskStates
    <3>2. CASE u = listen.best
      <4>1. ~(u > pool)
        BY <3>2, <1>2 DEF IInv, TypeOK
      <4> QED BY <2>1, <3>1, <4>1, <1>2, <1>3, <1>4, <1>6 DEF TaskGood
    <3>3. CASE u # listen.best
      BY <2>1, <3>1, <3>3, <1>3, <1>4, <1>6 DEF TaskGood
    <3> QED BY <3>2, <3>3
<1>10. ListenInv'
  BY <1>2, <1>5, <1>6 DEF ListenInv
<1>11. SockInv'
  <2> SUFFICES ASSUME NEW r \in Socks
               PROVE  SockGood(r)'
    BY DEF SockInv
  <2>1. SockGood(r) /\ sock[r].owner \in Tasks \cup {NULL}
    BY DEF IInv, SockInv, TypeOK, SockStates
  <2> QED BY <2>1, <1>1, <1>2, <1>3, <1>4, <1>6 DEF SockGood, Known, Is
<1>12. HandlingInv'
  BY HeadFacts, <1>3, <1>6 DEF IInv, HandlingInv
<1>13. EventInv'
  <2>1. ASSUME NEW i \in Positions'
        PROVE  EventGood(i)'
    <3>1. i \in Positions /\ EventGood(i) /\ queue[i].sock \in Socks
      BY EventFacts, <1>6 DEF IInv, EventInv, Positions
    <3> QED BY <3>1, <1>1, <1>3, <1>4, <1>6 DEF EventGood, Known, Is, Positions
  <2>2. ASSUME NEW r \in Socks
        PROVE  Awaited(r)'
    <3>1. Awaited(r)
      BY DEF IInv, EventInv
    <3> QED BY <3>1, <1>2, <1>3, <1>6 DEF Awaited, Known, Is, Positions
  <2> QED BY <2>1, <2>2 DEF EventInv
<1>14. PoolInv'
  <2>1. Owned' = Owned \cup {listen.sock}
    BY <1>1, <1>2, <1>3 DEF Owned
  <2>2. IsFiniteSet(Owned) /\ Owned \subseteq Owned' /\ IsFiniteSet(Owned')
    BY <2>1, FiniteFacts DEF Owned
  <2>3. Cardinality(Owned) <= Cardinality(Owned')
    BY <2>2, FS_Subset
  <2>4. Cardinality(Owned) \in Nat /\ Cardinality(Owned') \in Nat
    BY <2>2, FS_CardinalityType
  <2> QED BY <2>3, <2>4, <1>6 DEF IInv, PoolInv, TypeOK
<1> QED BY <1>7, <1>8, <1>9, <1>10, <1>11, <1>12, <1>13, <1>14 DEF IInv

LEMMA AddNewThreadKeeps ==
    ASSUME IInv, AddNewThread
    PROVE  IInv'
<1>1. listen.pc = "add"
  BY DEF AddNewThread
<1>2. /\ listen.sock \in Socks
      /\ sock[listen.sock].obj = "alive" /\ sock[listen.sock].owner = NULL
      /\ sock[listen.sock].know
  BY <1>1 DEF IInv, ListenInv
<1>3. pool + 1 \in Tasks /\ pool + 1 \in 0 .. Cardinality(Socks) /\ pool \in Nat
  <2>1. Owned \subseteq Socks \ {listen.sock}
    BY <1>1, <1>2 DEF Owned
  <2>2. /\ IsFiniteSet(Socks \ {listen.sock})
        /\ Cardinality(Socks \ {listen.sock}) = Cardinality(Socks) - 1
    BY <1>1, <1>2, FiniteFacts, FS_RemoveElement
  <2>3. Cardinality(Owned) <= Cardinality(Socks) - 1
    BY <2>1, <2>2, FS_Subset
  <2>4. Cardinality(Owned) \in Nat
    BY FiniteFacts DEF Owned
  <2> QED BY <2>3, <2>4, NatFacts DEF IInv, PoolInv, TypeOK, Tasks
<1>4. /\ sock' \in [Socks -> SockStates]
      /\ sock'[listen.sock].obj = sock[listen.sock].obj
      /\ sock'[listen.sock].know = sock[listen.sock].know
      /\ sock'[listen.sock].owner = pool + 1
      /\ sock'[listen.sock].view = sock[listen.sock].view
      /\ sock'[listen.sock].phys = sock[listen.sock].phys
      /\ \A r \in Socks \ {listen.sock} : sock'[r] = sock[r]
  <2> DEFINE new == [sock[listen.sock] EXCEPT !.owner = pool + 1]
  <2>1. listen.sock \in Socks /\ sock \in [Socks -> SockStates] /\ sock[listen.sock] \in SockStates
    BY <1>1, <1>2, <1>3, NatFacts DEF IInv, TypeOK
  <2>2. /\ new \in SockStates
        /\ new.obj = sock[listen.sock].obj
        /\ new.know = sock[listen.sock].know
        /\ new.owner = pool + 1
        /\ new.view = sock[listen.sock].view
        /\ new.phys = sock[listen.sock].phys
    BY <1>1, <1>2, <1>3, <2>1 DEF SockStates
  <2>3. sock' = [sock EXCEPT ![listen.sock] = new]
    BY <1>1, <1>2, <1>3, <2>1 DEF AddNewThread
  <2> HIDE DEF new
  <2> QED BY <2>1, <2>2, <2>3
<1>5. /\ task' \in [Tasks -> TaskStates]
      /\ task'[pool + 1].pc = "clear"
      /\ task'[pool + 1].conns = {listen.sock}
      /\ task'[pool + 1].remove = task[pool + 1].remove
      /\ task'[pool + 1].copy = task[pool + 1].copy
      /\ task'[pool + 1].ready = task[pool + 1].ready
      /\ task'[pool + 1].woken = task[pool + 1].woken
      /\ task'[pool + 1].wake = task[pool + 1].wake
      /\ task'[pool + 1].cur = task[pool + 1].cur
      /\ \A u \in Tasks \ {pool + 1} : task'[u] = task[u]
  <2> DEFINE new == [task[pool + 1] EXCEPT !.pc = "clear", !.conns = {listen.sock}]
  <2>1. pool + 1 \in Tasks /\ task \in [Tasks -> TaskStates] /\ task[pool + 1] \in TaskStates
    BY <1>1, <1>2, <1>3, NatFacts DEF IInv, TypeOK
  <2>2. /\ new \in TaskStates
        /\ new.pc = "clear"
        /\ new.conns = {listen.sock}
        /\ new.remove = task[pool + 1].remove
        /\ new.copy = task[pool + 1].copy
        /\ new.ready = task[pool + 1].ready
        /\ new.woken = task[pool + 1].woken
        /\ new.wake = task[pool + 1].wake
        /\ new.cur = task[pool + 1].cur
    BY <1>1, <1>2, <1>3, <2>1 DEF TaskStates
  <2>3. task' = [task EXCEPT ![pool + 1] = new]
    BY <1>1, <1>2, <1>3, <2>1 DEF AddNewThread
  <2> HIDE DEF new
  <2> QED BY <2>1, <2>2, <2>3
<1>6. /\ listen' \in ListenStates
      /\ listen'.pc = "accept"
      /\ listen'.sock = InvalidSockId
      /\ listen'.i = 1
      /\ listen'.best = NULL
      /\ listen'.lo = 0
      /\ listen'.hi = 0
      /\ listen'.exit = listen.exit
  BY DEF IInv, TypeOK, ListenStates, ListenIdle, AddNewThread
<1>7. pool' = pool + 1
  BY <1>1, <1>2, <1>3 DEF AddNewThread
<1>8. UNCHANGED <<main, clients, queue>>
  BY DEF AddNewThread
<1>9. TypeOK'
  BY <1>3, <1>4, <1>5, <1>6, <1>7, <1>8 DEF IInv, TypeOK
<1>10. LockInv'
  BY <1>1, <1>8 DEF IInv, LockInv
<1>11. TaskInv'
  <2> SUFFICES ASSUME NEW u \in Tasks
               PROVE  TaskGood(u)'
    BY DEF TaskInv
  <2>1. TaskGood(u) /\ task[u] \in TaskStates
    BY DEF IInv, TaskInv, TypeOK
  <2> QED
    <3>1. /\ listen.sock \notin task[u].conns /\ task[u].conns \subseteq Socks
          /\ task[u].remove \subseteq Socks /\ u \in Nat
      BY <2>1, <1>2, NatFacts DEF TaskGood, TaskStates
    <3>2. CASE u = pool + 1
      BY <2>1, <3>2, <1>2, <1>3, <1>4, <1>5, <1>7 DEF TaskGood
    <3>3. CASE u # pool + 1
      BY <2>1, <3>1, <1>2, <1>3, <1>4, <1>5, <1>7, <1>8 DEF TaskGood
    <3> QED BY <3>2, <3>3
<1>12. ListenInv'
  BY <1>6 DEF ListenInv
<1>13. SockInv'
  <2> SUFFICES ASSUME NEW r \in Socks
               PROVE  SockGood(r)'
    BY DEF SockInv
  <2>1. SockGood(r) /\ sock[r].owner \in Tasks \cup {NULL}
    BY DEF IInv, SockInv, TypeOK, SockStates
  <2> QED
    <3>1. task[pool + 1].conns = {}
      BY <1>3 DEF IInv, TaskInv, TaskGood
    <3>2. CASE r = listen.sock
      BY <2>1, <3>2, <1>2, <1>4, <1>5, <1>8 DEF SockGood
    <3>3. CASE r # listen.sock
      BY <2>1, <3>1, <3>3, <1>4, <1>5, <1>8 DEF SockGood, Known, Is
    <3> QED BY <3>2, <3>3
<1>14. HandlingInv'
  BY HeadFacts, <1>2, <1>4, <1>8 DEF IInv, HandlingInv
<1>15. EventInv'
  <2>1. ASSUME NEW i \in Positions'
        PROVE  EventGood(i)'
    <3>1. i \in Positions /\ EventGood(i) /\ queue[i].sock \in Socks
      BY EventFacts, <1>8 DEF IInv, EventInv, Positions
    <3> QED
    <4>1. /\ \A u \in Tasks : task'[u].remove = task[u].remove
            /\ \A r \in Socks : /\ sock'[r].obj = sock[r].obj /\ sock'[r].know = sock[r].know
                                /\ sock'[r].view = sock[r].view
                                /\ sock[r].owner # NULL => sock'[r].owner # NULL
        BY <1>3, <1>4, <1>5, NatFacts
      <4> QED BY <3>1, <4>1, <1>3, <1>8 DEF EventGood, Known, Is, Positions
  <2>2. ASSUME NEW r \in Socks
        PROVE  Awaited(r)'
    <3>1. Awaited(r)
      BY DEF IInv, EventInv
    <3> QED BY <3>1, <1>2, <1>4, <1>8 DEF Awaited, Known, Is, Positions
  <2> QED BY <2>1, <2>2 DEF EventInv
<1>16. PoolInv'
  <2>1. Owned' = Owned \cup {listen.sock} /\ listen.sock \notin Owned
    BY <1>2, <1>3, <1>4, NatFacts DEF Owned
  <2>2. IsFiniteSet(Owned) /\ Cardinality(Owned) \in Nat
    BY FiniteFacts DEF Owned
  <2>3. Cardinality(Owned') = Cardinality(Owned) + 1
    BY <2>1, <2>2, FS_AddElement
  <2> QED BY <2>2, <2>3, <1>3, <1>7 DEF IInv, PoolInv
<1> QED BY <1>9, <1>10, <1>11, <1>12, <1>13, <1>14, <1>15, <1>16 DEF IInv

LEMMA EraseKeeps ==
    ASSUME IInv, NEW t \in Tasks, Erase(t)
    PROVE  IInv'
<1>1. /\ t \in Tasks
      /\ task[t].pc = "erase"
      /\ main.pc = "visit" => main.task # t
  BY DEF Erase, ConnFree
<1>2. /\ sock' \in [Socks -> SockStates]
      /\ \A s \in Socks : /\ sock'[s].know = sock[s].know /\ sock'[s].owner = sock[s].owner
                          /\ sock'[s].view = sock[s].view
                          /\ sock'[s].obj = IF s \in task[t].remove THEN "deleted" ELSE sock[s].obj
  <2>1. \A s \in Socks : [sock[s] EXCEPT !.obj = "deleted"] \in SockStates
    BY DEF IInv, TypeOK, SockStates
  <2> QED BY <2>1 DEF IInv, TypeOK, SockStates, Erase
<1>3. /\ task' \in [Tasks -> TaskStates]
      /\ task'[t].pc = "copy"
      /\ task'[t].conns = task[t].conns \ task[t].remove
      /\ task'[t].remove = {}
      /\ task'[t].copy = task[t].copy
      /\ task'[t].ready = task[t].ready
      /\ task'[t].woken = task[t].woken
      /\ task'[t].wake = task[t].wake
      /\ task'[t].cur = task[t].cur
      /\ \A u \in Tasks \ {t} : task'[u] = task[u]
  <2> DEFINE new == [task[t] EXCEPT !.conns = @ \ task[t].remove, !.remove = {}, !.pc = "copy"]
  <2>1. t \in Tasks /\ task \in [Tasks -> TaskStates] /\ task[t] \in TaskStates
    BY <1>1, NatFacts DEF IInv, TypeOK
  <2>2. /\ new \in TaskStates
        /\ new.pc = "copy"
        /\ new.conns = task[t].conns \ task[t].remove
        /\ new.remove = {}
        /\ new.copy = task[t].copy
        /\ new.ready = task[t].ready
        /\ new.woken = task[t].woken
        /\ new.wake = task[t].wake
        /\ new.cur = task[t].cur
    BY <1>1, <2>1 DEF TaskStates
  <2>3. task' = [task EXCEPT ![t] = new]
    BY <1>1, <2>1 DEF Erase
  <2> HIDE DEF new
  <2> QED BY <2>1, <2>2, <2>3
<1>4. UNCHANGED <<pool, listen, main, clients, queue>>
  BY DEF Erase
<1>5. TypeOK'
  BY <1>2, <1>3, <1>4 DEF IInv, TypeOK
<1>6. LockInv'
  <2>1. /\ main.pc \notin {"delete", "destroyed"}
        /\ main.pc = "visit" => main.task \in Tasks
    <3>1. /\ main.task \in Nat /\ main.pc \notin {"delete", "destroyed"}
          /\ main.pc = "visit" => main.task >= 1 /\ main.task <= pool
      BY <1>1 DEF IInv, LockInv, TypeOK, MainStates
    <3>2. pool \in Nat /\ pool <= Cardinality(Socks)
      BY NatFacts DEF IInv, TypeOK
    <3> QED BY <3>1, <3>2, NatFacts DEF Tasks
  <2> QED BY <2>1, <1>1, <1>3, <1>4 DEF IInv, LockInv
<1>7. TaskInv'
  <2> SUFFICES ASSUME NEW u \in Tasks
               PROVE  TaskGood(u)'
    BY DEF TaskInv
  <2>1. TaskGood(u) /\ task[u] \in TaskStates
    BY DEF IInv, TaskInv, TypeOK
  <2> QED
    <3>1. task[u].conns \subseteq Socks /\ task[u].remove \subseteq Socks
      BY <2>1 DEF TaskStates
    <3>2. CASE u = t
      BY <2>1, <3>1, <3>2, <1>1, <1>2, <1>3, <1>4 DEF TaskGood
    <3>3. CASE u # t
      <4>1. \A r \in task[u].conns : r \notin task[t].remove
        BY <3>3 DEF IInv, TaskInv, TaskGood
      <4> QED BY <2>1, <3>1, <4>1, <1>1, <1>2, <1>3, <1>4 DEF TaskGood
    <3> QED BY <3>2, <3>3
<1>8. ListenInv'
  BY <1>2, <1>4 DEF IInv, ListenInv, SockInv, SockGood, TaskInv, TaskGood
<1>9. SockInv'
  <2> SUFFICES ASSUME NEW r \in Socks
               PROVE  SockGood(r)'
    BY DEF SockInv
  <2>1. SockGood(r) /\ sock[r].owner \in Tasks \cup {NULL}
    BY DEF IInv, SockInv, TypeOK, SockStates
  <2> QED
    <3>1. r \in task[t].remove => /\ sock[r].view = "closed" /\ r \notin clients
                                  /\ sock[r].obj = "alive" /\ sock[r].owner = t /\ t # NULL
      BY <1>1, NatFacts DEF IInv, TaskInv, TaskGood
    <3>2. CASE r \in task[t].remove
      BY <2>1, <3>1, <3>2, <1>2, <1>4 DEF SockGood
    <3>3. CASE r \notin task[t].remove
      BY <2>1, <3>3, <1>2, <1>3, <1>4 DEF SockGood, Known, Is
    <3> QED BY <3>2, <3>3
<1>10. HandlingInv'
  BY HeadFacts, <1>2, <1>4 DEF IInv, HandlingInv
<1>11. EventInv'
  <2>1. ASSUME NEW i \in Positions'
        PROVE  EventGood(i)'
    <3>1. i \in Positions /\ EventGood(i) /\ queue[i].sock \in Socks
      BY EventFacts, <1>4 DEF IInv, EventInv, Positions
    <3> QED BY <3>1, <1>2, <1>3, <1>4 DEF EventGood, Known, Is, Positions
  <2>2. ASSUME NEW r \in Socks
        PROVE  Awaited(r)'
    <3>1. Awaited(r)
      BY DEF IInv, EventInv
    <3> QED BY <3>1, <1>2, <1>4 DEF Awaited, Known, Is, Positions
  <2> QED BY <2>1, <2>2 DEF EventInv
<1>12. PoolInv'
  <2>1. Owned' = Owned
    BY <1>1, <1>2, <1>3, <1>4 DEF Owned
  <2> QED BY <2>1, <1>4, <1>3 DEF IInv, PoolInv
<1> QED BY <1>5, <1>6, <1>7, <1>8, <1>9, <1>10, <1>11, <1>12 DEF IInv

LEMMA PushUserKeeps ==
    ASSUME IInv, NEW t \in Tasks, PushUser(t)
    PROVE  IInv'
<1>1. /\ t \in Tasks
      /\ task[t].pc = "push"
  BY DEF PushUser
<1>2. /\ task[t].cur \in Socks /\ sock[task[t].cur].obj = "alive"
      /\ sock[task[t].cur].owner = t /\ t # NULL
  BY <1>1, NatFacts DEF IInv, TypeOK, TaskStates, TaskInv, TaskGood
<1>3. /\ queue' \in Seq(Events)
      /\ Len(queue) \in Nat /\ Len(queue') = Len(queue) + 1
      /\ queue'[Len(queue) + 1].sock = task[t].cur
      /\ queue'[Len(queue) + 1].type = "User"
      /\ \A i \in 1 .. Len(queue) : queue'[i] = queue[i]
  BY <1>2, Pushed DEF IInv, EventTypes, PushUser
<1>4. /\ task' \in [Tasks -> TaskStates]
      /\ task'[t].pc = "receive"
      /\ task'[t].conns = task[t].conns
      /\ task'[t].remove = task[t].remove
      /\ task'[t].copy = task[t].copy
      /\ task'[t].ready = task[t].ready
      /\ task'[t].woken = task[t].woken
      /\ task'[t].wake = task[t].wake
      /\ task'[t].cur = InvalidSockId
      /\ \A u \in Tasks \ {t} : task'[u] = task[u]
  <2> DEFINE new == [task[t] EXCEPT !.pc = "receive", !.cur = InvalidSockId]
  <2>1. t \in Tasks /\ task \in [Tasks -> TaskStates] /\ task[t] \in TaskStates
    BY <1>1, <1>2, <1>3, NatFacts DEF IInv, TypeOK
  <2>2. /\ new \in TaskStates
        /\ new.pc = "receive"
        /\ new.conns = task[t].conns
        /\ new.remove = task[t].remove
        /\ new.copy = task[t].copy
        /\ new.ready = task[t].ready
        /\ new.woken = task[t].woken
        /\ new.wake = task[t].wake
        /\ new.cur = InvalidSockId
    BY <1>1, <1>2, <1>3, <2>1 DEF TaskStates
  <2>3. task' = [task EXCEPT ![t] = new]
    BY <1>1, <1>2, <1>3, <2>1 DEF PushUser
  <2> HIDE DEF new
  <2> QED BY <2>1, <2>2, <2>3
<1>5. UNCHANGED <<sock, pool, listen, main, clients>>
  BY DEF PushUser
<1>6. TypeOK'
  BY <1>3, <1>4, <1>5 DEF IInv, TypeOK
<1>7. LockInv'
  <2>1. TaskGood(t) /\ task[t] \in TaskStates
    BY DEF IInv, TaskInv, TypeOK
  <2>2. TaskGood(t)'
    BY <2>1, <1>1, <1>4, <1>5 DEF TaskGood
  <2>3. SameSock /\ SameTask
    BY <1>4, <1>5 DEF SameSock, SameTask
  <2> QED BY <2>2, <2>3, <1>1, <1>4, <1>5, TaskMoves DEF OneTask
<1>8. TaskInv'
  <2> SUFFICES ASSUME NEW u \in Tasks
               PROVE  TaskGood(u)'
    BY DEF TaskInv
  <2>1. TaskGood(u) /\ task[u] \in TaskStates
    BY DEF IInv, TaskInv, TypeOK
  <2> QED BY <2>1, <1>1, <1>4, <1>5 DEF TaskGood
<1>9. ListenInv'
  BY <1>5 DEF IInv, ListenInv
<1>10. SockInv'
  <2> SUFFICES ASSUME NEW r \in Socks
               PROVE  SockGood(r)'
    BY DEF SockInv
  <2>1. SockGood(r) /\ sock[r].owner \in Tasks \cup {NULL}
    BY DEF IInv, SockInv, TypeOK, SockStates
  <2> QED BY <2>1, <1>3, <1>4, <1>5 DEF SockGood, Known, Is
<1>11. HandlingInv'
  <2>1. main.pc # "destroyed"
    BY <1>1 DEF IInv, LockInv
  <2> QED BY <2>1, <1>3, <1>5 DEF IInv, HandlingInv
<1>12. EventInv'
  <2>1. ASSUME NEW i \in Positions'
        PROVE  EventGood(i)'
    <3>1. CASE i \in Positions
      <4>1. EventGood(i) /\ queue'[i] = queue[i] /\ queue[i].sock \in Socks
        BY <3>1, EventFacts, <1>3 DEF IInv, EventInv, Positions
      <4>2. \A j \in Positions' :
               (j \in Positions /\ queue'[j] = queue[j]) \/ j = Len(queue) + 1
        BY <1>3 DEF Positions
      <4>3. i <= Len(queue) + 1
        BY <3>1, <1>3 DEF Positions
      <4> QED BY <4>1, <4>2, <4>3, <1>3, <1>4, <1>5 DEF EventGood, Known, Is
    <3>2. CASE i = Len(queue) + 1
      BY <3>2, <1>2, <1>3, <1>5 DEF EventGood, Known
    <3> QED BY <3>1, <3>2, <1>3 DEF Positions
  <2>2. ASSUME NEW r \in Socks
        PROVE  Awaited(r)'
    <3>1. Awaited(r)
      BY DEF IInv, EventInv
    <3> QED BY <3>1, <1>3, <1>5 DEF Awaited, Known, Is, Positions
  <2> QED BY <2>1, <2>2 DEF EventInv
<1>13. PoolInv'
  <2>1. Owned' = Owned
    BY <1>1, <1>2, <1>3, <1>4, <1>5 DEF Owned
  <2> QED BY <2>1, <1>5, <1>4 DEF IInv, PoolInv
<1> QED BY <1>6, <1>7, <1>8, <1>9, <1>10, <1>11, <1>12, <1>13 DEF IInv

LEMMA VisitBrokenAgainKeeps ==
    ASSUME IInv, NEW s \in Socks, VisitBroken(s), ~sock[s].know
    PROVE  IInv'
<1>1. /\ s \in Socks
      /\ main.pc = "visit"
      /\ s \in main.todo
  BY DEF VisitBroken
<1>2. /\ main' \in MainStates
      /\ main'.pc = main.pc
      /\ main'.op = main.op
      /\ main'.task = main.task
      /\ main'.todo = main.todo \ {s}
      /\ main'.budget = main.budget
  BY DEF IInv, TypeOK, MainStates, VisitBroken
<1>3. UNCHANGED <<sock, task, pool, listen, clients, queue>>
  BY DEF VisitBroken
<1>4. TypeOK'
  BY <1>1, <1>2, <1>3, NatFacts DEF IInv, TypeOK
<1>5. SameSock /\ SameTask
  BY <1>1, <1>2, <1>3 DEF SameSock, SameTask
<1>6. LockInv'
  BY <1>1, <1>2, <1>3 DEF IInv, LockInv
<1>7. TaskInv'
  BY <1>5, <1>3, TaskFrame
<1>8. ListenInv'
  BY <1>5, <1>3, ListenFrame DEF SameSock
<1>9. SockInv' /\ HandlingInv' /\ EventInv' /\ PoolInv'
  BY <1>5, <1>1, <1>2, <1>3, Frame DEF Calm
<1> QED BY <1>4, <1>6, <1>7, <1>8, <1>9 DEF IInv

LEMMA VisitBrokenToldKeeps ==
    ASSUME IInv, NEW s \in Socks, VisitBroken(s), sock[s].know
    PROVE  IInv'
<1>1. /\ s \in Socks
      /\ main.pc = "visit"
      /\ s \in main.todo
  BY DEF VisitBroken
<1>2. /\ main.task \in Tasks /\ s \in task[main.task].conns
      /\ sock[s].obj = "alive" /\ sock[s].owner = main.task /\ sock[s].owner # NULL
  <2>1. main.task \in Tasks
    BY <1>1, NatFacts DEF IInv, TypeOK, MainStates, LockInv, Tasks
  <2>2. s \in task[main.task].conns
    BY <1>1 DEF IInv, LockInv
  <2> QED BY <2>1, <2>2, NatFacts DEF IInv, TaskInv, TaskGood
<1>3. /\ queue' \in Seq(Events)
      /\ Len(queue) \in Nat /\ Len(queue') = Len(queue) + 1
      /\ queue'[Len(queue) + 1].sock = s
      /\ queue'[Len(queue) + 1].type = "Disconnection"
      /\ \A i \in 1 .. Len(queue) : queue'[i] = queue[i]
  BY <1>2, Pushed DEF IInv, EventTypes, VisitBroken
<1>4. /\ sock' \in [Socks -> SockStates]
      /\ sock'[s].obj = sock[s].obj
      /\ sock'[s].know = FALSE
      /\ sock'[s].owner = sock[s].owner
      /\ sock'[s].view = sock[s].view
      /\ sock'[s].phys = sock[s].phys
      /\ \A r \in Socks \ {s} : sock'[r] = sock[r]
  <2> DEFINE new == [sock[s] EXCEPT !.know = FALSE]
  <2>1. s \in Socks /\ sock \in [Socks -> SockStates] /\ sock[s] \in SockStates
    BY <1>1, <1>2, <1>3, NatFacts DEF IInv, TypeOK
  <2>2. /\ new \in SockStates
        /\ new.obj = sock[s].obj
        /\ new.know = FALSE
        /\ new.owner = sock[s].owner
        /\ new.view = sock[s].view
        /\ new.phys = sock[s].phys
    BY <1>1, <1>2, <1>3, <2>1 DEF SockStates
  <2>3. sock' = [sock EXCEPT ![s] = new]
    BY <1>1, <1>2, <1>3, <2>1 DEF VisitBroken
  <2> HIDE DEF new
  <2> QED BY <2>1, <2>2, <2>3
<1>5. /\ main' \in MainStates
      /\ main'.pc = main.pc
      /\ main'.op = main.op
      /\ main'.task = main.task
      /\ main'.todo = main.todo \ {s}
      /\ main'.budget = main.budget
  BY DEF IInv, TypeOK, MainStates, VisitBroken
<1>6. UNCHANGED <<task, pool, listen, clients>>
  BY DEF VisitBroken
<1>7. TypeOK'
  BY <1>3, <1>4, <1>5, <1>6 DEF IInv, TypeOK
<1>8. LockInv'
  BY <1>5, <1>6 DEF IInv, LockInv
<1>9. TaskInv'
  <2> SUFFICES ASSUME NEW u \in Tasks
               PROVE  TaskGood(u)'
    BY DEF TaskInv
  <2>1. TaskGood(u) /\ task[u] \in TaskStates
    BY DEF IInv, TaskInv, TypeOK
  <2> QED BY <2>1, <1>4, <1>6 DEF TaskGood, TaskStates
<1>10. ListenInv'
  BY <1>2, <1>4, <1>6 DEF IInv, ListenInv
<1>11. SockInv'
  <2> SUFFICES ASSUME NEW r \in Socks
               PROVE  SockGood(r)'
    BY DEF SockInv
  <2>1. SockGood(r) /\ sock[r].owner \in Tasks \cup {NULL}
    BY DEF IInv, SockInv, TypeOK, SockStates
  <2> QED BY <2>1, <1>1, <1>2, <1>4, <1>6 DEF SockGood, Known
<1>12. HandlingInv'
  BY <1>1, <1>5 DEF HandlingInv
<1>13. EventInv'
  <2>1. ASSUME NEW i \in Positions'
        PROVE  EventGood(i)'
    <3>1. CASE i \in Positions
      <4>1. EventGood(i) /\ queue'[i] = queue[i] /\ queue[i].sock \in Socks
        BY <3>1, EventFacts, <1>3 DEF IInv, EventInv, Positions
      <4> QED
    <5>1. \A j \in Positions' : (j \in Positions /\ queue'[j] = queue[j]) \/ j = Len(queue) + 1
          BY <1>3 DEF Positions
        <5>2. CASE queue[i].type = "Disconnection"
          <6>1. queue[i].sock # s
            BY <4>1, <5>2 DEF EventGood
          <6> QED BY <4>1, <5>1, <6>1, <1>3, <1>4, <1>5, <1>6
                     DEF EventGood, Known, Is
        <5>3. CASE queue[i].type # "Disconnection"
          <6>1. \A j \in Positions' : queue[i].type = "Connection" /\ queue'[j].sock = queue[i].sock => i <= j
            BY <4>1, <1>3 DEF EventGood, Positions
          <6> QED BY <4>1, <5>3, <6>1, <1>2, <1>4, <1>5 DEF EventGood, Known
        <5> QED BY <5>2, <5>3
    <3>2. CASE i = Len(queue) + 1
      <4>1. queue'[i].sock = s /\ queue'[i].type = "Disconnection"
        BY <1>3, <3>2
      <4>2. SockGood(s) /\ s \in Socks
        BY <1>1, <1>2 DEF IInv, SockInv
      <4>3. sock'[s].owner # NULL /\ ~sock'[s].know /\ sock'[s].view # "closed"
        BY <4>2, <1>1, <1>2, <1>4 DEF SockGood
      <4>4. ASSUME NEW j \in Positions', Is(j, s, "Disconnection")'
            PROVE  i = j
        <5>1. CASE j \in Positions
          <6>1. queue'[j] = queue[j] /\ EventGood(j)
            BY <5>1, <1>3 DEF IInv, EventInv, Positions
          <6>2. queue[j].sock = s /\ queue[j].type = "Disconnection"
            BY <4>4, <6>1 DEF Is
          <6> QED BY <6>1, <6>2, <1>1, <1>2 DEF EventGood
        <5>2. CASE j = Len(queue) + 1
          BY <5>2, <3>2
        <5> QED BY <5>1, <5>2, <1>3 DEF Positions
      <4>5. main'.pc = "visit"
        BY <1>1, <1>2, <1>5
      <4> QED BY <4>1, <4>3, <4>4, <4>5 DEF EventGood, Known
    <3> QED BY <3>1, <3>2, <1>3 DEF Positions
  <2>2. ASSUME NEW r \in Socks
        PROVE  Awaited(r)'
    <3>1. Awaited(r)
      BY DEF IInv, EventInv
    <3> QED BY <3>1, <1>3, <1>4, <1>5 DEF Awaited, Known, Is, Positions
  <2> QED BY <2>1, <2>2 DEF EventInv
<1>14. PoolInv'
  <2>1. Owned' = Owned
    BY <1>4 DEF Owned
  <2> QED BY <2>1, <1>6, <1>5 DEF IInv, PoolInv
<1> QED BY <1>7, <1>8, <1>9, <1>10, <1>11, <1>12, <1>13, <1>14 DEF IInv

LEMMA HandleConnectionKeeps ==
    ASSUME IInv, HandleConnection
    PROVE  IInv'
<1>1. main.pc = "idle"
  BY DEF HandleConnection
<1>2. /\ queue # <<>> /\ queue[1].sock \in Socks /\ Len(queue) \in Nat
      /\ Head(queue) = queue[1] /\ 1 \in Positions /\ queue[1].type = "Connection"
  BY HeadFacts DEF IInv, HeadIs, HandlingInv, HandleConnection
<1>3. /\ sock' \in [Socks -> SockStates]
      /\ sock'[queue[1].sock].obj = sock[queue[1].sock].obj
      /\ sock'[queue[1].sock].know = sock[queue[1].sock].know
      /\ sock'[queue[1].sock].owner = sock[queue[1].sock].owner
      /\ sock'[queue[1].sock].view = "connected"
      /\ sock'[queue[1].sock].phys = sock[queue[1].sock].phys
      /\ \A r \in Socks \ {queue[1].sock} : sock'[r] = sock[r]
  <2> DEFINE new == [sock[queue[1].sock] EXCEPT !.logical = TRUE, !.view = "connected"]
  <2>1. queue[1].sock \in Socks /\ sock \in [Socks -> SockStates] /\ sock[queue[1].sock] \in SockStates
    BY <1>1, <1>2, NatFacts DEF IInv, TypeOK
  <2>2. /\ new \in SockStates
        /\ new.obj = sock[queue[1].sock].obj
        /\ new.know = sock[queue[1].sock].know
        /\ new.owner = sock[queue[1].sock].owner
        /\ new.view = "connected"
        /\ new.phys = sock[queue[1].sock].phys
    BY <1>1, <1>2, <2>1 DEF SockStates
  <2>3. sock' = [sock EXCEPT ![queue[1].sock] = new]
    BY <1>1, <1>2, <2>1 DEF HandleConnection
  <2> HIDE DEF new
  <2> QED BY <2>1, <2>2, <2>3
<1>4. /\ main' \in MainStates
      /\ main'.pc = "callback"
      /\ main'.op = main.op
      /\ main'.task = main.task
      /\ main'.todo = main.todo
      /\ main'.budget = main.budget
  BY DEF IInv, TypeOK, MainStates, HandleConnection
<1>5. clients' = clients \cup {queue[1].sock}
  BY <1>1, <1>2 DEF HandleConnection
<1>6. UNCHANGED <<task, pool, listen, queue>>
  BY DEF HandleConnection
<1>7. TypeOK'
  BY <1>2, <1>3, <1>4, <1>5, <1>6 DEF IInv, TypeOK
<1>8. LockInv'
  BY <1>4 DEF LockInv
<1>9. TaskInv'
  <2> SUFFICES ASSUME NEW u \in Tasks
               PROVE  TaskGood(u)'
    BY DEF TaskInv
  <2>1. TaskGood(u) /\ task[u] \in TaskStates
    BY DEF IInv, TaskInv, TypeOK
  <2> QED BY <2>1, <1>1, <1>2, <1>3, <1>5, <1>6
             DEF IInv, TaskGood, TaskStates, EventInv, EventGood
<1>10. ListenInv'
  BY <1>3, <1>6 DEF IInv, ListenInv
<1>11. SockInv'
  <2> SUFFICES ASSUME NEW r \in Socks
               PROVE  SockGood(r)'
    BY DEF SockInv
  <2>1. SockGood(r) /\ sock[r].owner \in Tasks \cup {NULL}
    BY DEF IInv, SockInv, TypeOK, SockStates
  <2> QED BY <1>1, <1>2, <1>3, <1>5, <1>6
             DEF IInv, SockGood, Known, Is, EventInv, EventGood, SockInv,
                 SockStates
<1>12. HandlingInv'
  BY <1>2, <1>3, <1>4, <1>6 DEF HandlingInv
<1>13. EventInv'
  <2>1. ASSUME NEW i \in Positions'
        PROVE  EventGood(i)'
    <3>1. i \in Positions /\ EventGood(i) /\ queue[i].sock \in Socks
      BY EventFacts, <1>6 DEF IInv, EventInv, Positions
    <3> QED BY <3>1, <1>2, <1>3, <1>4, <1>6 DEF EventGood, Known, Is, Positions
  <2>2. ASSUME NEW r \in Socks
        PROVE  Awaited(r)'
    <3>1. Awaited(r)
      BY DEF IInv, EventInv
    <3> QED BY <3>1, <1>1, <1>3, <1>6 DEF Awaited, Known, Is, Positions
  <2> QED BY <2>1, <2>2 DEF EventInv
<1>14. PoolInv'
  <2>1. Owned' = Owned
    BY <1>3 DEF Owned
  <2> QED BY <2>1, <1>6, <1>5 DEF IInv, PoolInv
<1> QED BY <1>7, <1>8, <1>9, <1>10, <1>11, <1>12, <1>13, <1>14 DEF IInv

LEMMA ConnectionHandledKeeps ==
    ASSUME IInv, ConnectionHandled
    PROVE  IInv'
<1>1. main.pc = "callback"
  BY DEF ConnectionHandled
<1>2. /\ queue # <<>> /\ queue[1].sock \in Socks /\ Len(queue) \in Nat
      /\ Head(queue) = queue[1] /\ 1 \in Positions /\ queue[1].type = "Connection"
  BY HeadFacts DEF IInv, HeadIs, HandlingInv, ConnectionHandled
<1>3. /\ queue' \in Seq(Events)
      /\ Len(queue) \in Nat \ {0} /\ Len(queue') = Len(queue) - 1
      /\ \A i \in 1 .. Len(queue') : queue'[i] = queue[i + 1]
  BY <1>2, Popped DEF IInv, ConnectionHandled
<1>4. /\ main' \in MainStates
      /\ main'.pc = "idle"
      /\ main'.op = "update"
      /\ main'.task = 1
      /\ main'.todo = {}
      /\ main'.budget = main.budget
  BY DEF IInv, TypeOK, MainStates, MainIdle, ConnectionHandled
<1>5. UNCHANGED <<sock, task, pool, listen, clients>>
  BY DEF ConnectionHandled
<1>6. TypeOK'
  BY <1>3, <1>4, <1>5 DEF IInv, TypeOK
<1>7. LockInv'
  BY <1>4 DEF LockInv
<1>8. TaskInv'
  <2> SUFFICES ASSUME NEW u \in Tasks
               PROVE  TaskGood(u)'
    BY DEF TaskInv
  <2>1. TaskGood(u) /\ task[u] \in TaskStates
    BY DEF IInv, TaskInv, TypeOK
  <2> QED BY <2>1, <1>5 DEF TaskGood
<1>9. ListenInv'
  BY <1>5 DEF IInv, ListenInv
<1>10. SockInv'
  <2> SUFFICES ASSUME NEW r \in Socks
               PROVE  SockGood(r)'
    BY DEF SockInv
  <2>1. SockGood(r) /\ sock[r].owner \in Tasks \cup {NULL}
    BY DEF IInv, SockInv, TypeOK, SockStates
  <2> QED BY <2>1, <1>1, <1>2, <1>5 DEF SockGood, Known, Is
<1>11. HandlingInv'
  BY <1>4 DEF HandlingInv
<1>12. EventInv'
  <2>1. ASSUME NEW i \in Positions'
        PROVE  EventGood(i)'
    <3>1. /\ i + 1 \in Positions /\ EventGood(i + 1) /\ queue'[i] = queue[i + 1]
          /\ i \in Nat /\ i >= 1 /\ queue[i + 1].sock \in Socks
      BY EventFacts, <1>3 DEF IInv, EventInv, Positions
    <3> QED
    <4>1. \A j \in Positions' : j + 1 \in Positions /\ queue'[j] = queue[j + 1] /\ j \in Nat
        BY <1>2, <1>3 DEF Positions
      <4> QED BY <3>1, <4>1, <1>4, <1>5 DEF EventGood, Known, Is
  <2>2. ASSUME NEW r \in Socks
        PROVE  Awaited(r)'
    <3> SUFFICES ASSUME sock[r].view = "none", Known(r), main'.pc # "destroyed"
                 PROVE  \E j \in Positions' : Is(j, r, "Connection")'
      BY <1>5 DEF Awaited, Known
    <3>1. PICK j \in Positions : Is(j, r, "Connection")
      BY <1>1 DEF IInv, EventInv, Awaited
    <3>2. j # 1
      BY <3>1, <1>1 DEF IInv, Is, HandlingInv
    <3>3. j - 1 \in Positions' /\ queue'[j - 1] = queue[j]
      BY <3>2, <1>3 DEF Positions
    <3> QED BY <3>1, <3>3 DEF Is
  <2> QED BY <2>1, <2>2 DEF EventInv
<1>13. PoolInv'
  <2>1. Owned' = Owned
    BY <1>1, <1>2, <1>3, <1>4, <1>5 DEF Owned
  <2> QED BY <2>1, <1>5, <1>4 DEF IInv, PoolInv
<1> QED BY <1>6, <1>7, <1>8, <1>9, <1>10, <1>11, <1>12, <1>13 DEF IInv

LEMMA HandleDisconnectionKeeps ==
    ASSUME IInv, HandleDisconnection
    PROVE  IInv'
<1>1. main.pc = "idle"
  BY DEF HandleDisconnection
<1>2. /\ queue # <<>> /\ queue[1].sock \in Socks /\ Len(queue) \in Nat
      /\ Head(queue) = queue[1] /\ 1 \in Positions /\ queue[1].type = "Disconnection"
  BY HeadFacts DEF IInv, HeadIs, HandlingInv, HandleDisconnection
<1>3. /\ sock[queue[1].sock].view = "connected" /\ queue[1].sock \in clients
      /\ sock[queue[1].sock].obj = "alive"
      /\ \A t \in Tasks : queue[1].sock \notin task[t].remove
  BY <1>1, <1>2, DisconnectionAtHead
<1>4. /\ sock' \in [Socks -> SockStates]
      /\ sock'[queue[1].sock].obj = sock[queue[1].sock].obj
      /\ sock'[queue[1].sock].know = sock[queue[1].sock].know
      /\ sock'[queue[1].sock].owner = sock[queue[1].sock].owner
      /\ sock'[queue[1].sock].view = "closed"
      /\ sock'[queue[1].sock].phys = sock[queue[1].sock].phys
      /\ \A r \in Socks \ {queue[1].sock} : sock'[r] = sock[r]
  <2> DEFINE new == [sock[queue[1].sock] EXCEPT !.logical = FALSE, !.view = "closed"]
  <2>1. queue[1].sock \in Socks /\ sock \in [Socks -> SockStates] /\ sock[queue[1].sock] \in SockStates
    BY <1>1, <1>2, <1>3, NatFacts DEF IInv, TypeOK
  <2>2. /\ new \in SockStates
        /\ new.obj = sock[queue[1].sock].obj
        /\ new.know = sock[queue[1].sock].know
        /\ new.owner = sock[queue[1].sock].owner
        /\ new.view = "closed"
        /\ new.phys = sock[queue[1].sock].phys
    BY <1>1, <1>2, <1>3, <2>1 DEF SockStates
  <2>3. sock' = [sock EXCEPT ![queue[1].sock] = new]
    BY <1>1, <1>2, <1>3, <2>1 DEF HandleDisconnection
  <2> HIDE DEF new
  <2> QED BY <2>1, <2>2, <2>3
<1>5. /\ main' \in MainStates
      /\ main'.pc = "callback"
      /\ main'.op = main.op
      /\ main'.task = main.task
      /\ main'.todo = main.todo
      /\ main'.budget = main.budget
  BY DEF IInv, TypeOK, MainStates, HandleDisconnection
<1>6. UNCHANGED <<task, pool, listen, clients, queue>>
  BY DEF HandleDisconnection
<1>7. TypeOK'
  BY <1>4, <1>5, <1>6 DEF IInv, TypeOK
<1>8. LockInv'
  BY <1>5 DEF LockInv
<1>9. TaskInv'
  <2> SUFFICES ASSUME NEW u \in Tasks
               PROVE  TaskGood(u)'
    BY DEF TaskInv
  <2>1. TaskGood(u) /\ task[u] \in TaskStates
    BY DEF IInv, TaskInv, TypeOK
  <2> QED BY <2>1, <1>4, <1>6 DEF TaskGood, TaskStates
<1>10. ListenInv'
  BY <1>4, <1>6 DEF IInv, ListenInv
<1>11. SockInv'
  <2> SUFFICES ASSUME NEW r \in Socks
               PROVE  SockGood(r)'
    BY DEF SockInv
  <2>1. SockGood(r) /\ sock[r].owner \in Tasks \cup {NULL}
    BY DEF IInv, SockInv, TypeOK, SockStates
  <2> QED BY <2>1, <1>1, <1>2, <1>4, <1>5, <1>6
             DEF IInv, SockGood, Known, Is, EventInv, EventGood
<1>12. HandlingInv'
  BY <1>2, <1>5, <1>6 DEF HandlingInv
<1>13. EventInv'
  <2>1. ASSUME NEW i \in Positions'
        PROVE  EventGood(i)'
    <3>1. i \in Positions /\ EventGood(i) /\ queue[i].sock \in Socks
      BY EventFacts, <1>6 DEF IInv, EventInv, Positions
    <3> QED
    <4>1. CASE queue[i].sock = queue[1].sock
        <5>1. queue[i].type # "User" => i = 1
          <6>1. queue[i].type \in EventTypes /\ i \in Nat /\ i >= 1
            BY <3>1, EventFacts DEF IInv, Positions
          <6>2. queue[i].type = "Connection" => i <= 1
            BY <3>1, <4>1, <1>2 DEF EventGood
          <6>3. queue[i].type = "Disconnection" => i = 1
            BY <3>1, <4>1, <1>2 DEF EventGood, Is
          <6> QED BY <6>1, <6>2, <6>3 DEF EventTypes
        <5>2. CASE i = 1
          BY <3>1, <1>2, <1>3, <1>4, <1>5, <1>6
             DEF EventGood, Known, Is, Positions
        <5>3. CASE i # 1
          BY <3>1, <5>1, <5>3, <1>4, <1>6 DEF EventGood, Known
        <5> QED BY <5>2, <5>3
      <4>2. CASE queue[i].sock # queue[1].sock
        BY <3>1, <1>2, <1>3, <1>4, <1>5, <1>6 DEF EventGood, Known, Is, Positions
      <4> QED BY <4>1, <4>2
  <2>2. ASSUME NEW r \in Socks
        PROVE  Awaited(r)'
    <3>1. Awaited(r)
      BY DEF IInv, EventInv
    <3> QED BY <3>1, <1>1, <1>4, <1>6 DEF Awaited, Known, Is, Positions
  <2> QED BY <2>1, <2>2 DEF EventInv
<1>14. PoolInv'
  <2>1. Owned' = Owned
    BY <1>4 DEF Owned
  <2> QED BY <2>1, <1>6, <1>5 DEF IInv, PoolInv
<1> QED BY <1>7, <1>8, <1>9, <1>10, <1>11, <1>12, <1>13, <1>14 DEF IInv

LEMMA DisconnectionHandledKeeps ==
    ASSUME IInv, DisconnectionHandled
    PROVE  IInv'
<1>1. main.pc = "callback"
  BY DEF DisconnectionHandled
<1>2. /\ queue # <<>> /\ queue[1].sock \in Socks /\ Len(queue) \in Nat
      /\ Head(queue) = queue[1] /\ 1 \in Positions /\ queue[1].type = "Disconnection"
  BY HeadFacts DEF IInv, HeadIs, HandlingInv, DisconnectionHandled
<1>3. /\ main' \in MainStates
      /\ main'.pc = "remove"
      /\ main'.op = main.op
      /\ main'.task = main.task
      /\ main'.todo = main.todo
      /\ main'.budget = main.budget
  BY DEF IInv, TypeOK, MainStates, DisconnectionHandled
<1>4. clients' = clients \ {queue[1].sock}
  BY <1>1, <1>2 DEF DisconnectionHandled
<1>5. UNCHANGED <<sock, task, pool, listen, queue>>
  BY DEF DisconnectionHandled
<1>6. TypeOK'
  BY <1>3, <1>4, <1>5 DEF IInv, TypeOK
<1>7. LockInv'
  BY <1>3 DEF LockInv
<1>8. TaskInv'
  <2> SUFFICES ASSUME NEW u \in Tasks
               PROVE  TaskGood(u)'
    BY DEF TaskInv
  <2>1. TaskGood(u) /\ task[u] \in TaskStates
    BY DEF IInv, TaskInv, TypeOK
  <2> QED BY <2>1, <1>4, <1>5 DEF TaskGood
<1>9. ListenInv'
  BY <1>5 DEF IInv, ListenInv
<1>10. SockInv'
  <2> SUFFICES ASSUME NEW r \in Socks
               PROVE  SockGood(r)'
    BY DEF SockInv
  <2>1. SockGood(r) /\ sock[r].owner \in Tasks \cup {NULL}
    BY DEF IInv, SockInv, TypeOK, SockStates
  <2> QED BY <2>1, <1>1, <1>2, <1>4, <1>5
             DEF IInv, SockGood, Known, Is, EventInv, EventGood
<1>11. HandlingInv'
  BY <1>2, <1>3, <1>5 DEF HandlingInv
<1>12. EventInv'
  <2>1. ASSUME NEW i \in Positions'
        PROVE  EventGood(i)'
    <3>1. i \in Positions /\ EventGood(i) /\ queue[i].sock \in Socks
      BY EventFacts, <1>5 DEF IInv, EventInv, Positions
    <3> QED BY <3>1, <1>1, <1>2, <1>3, <1>5 DEF EventGood, Known, Is, Positions
  <2>2. ASSUME NEW r \in Socks
        PROVE  Awaited(r)'
    <3>1. Awaited(r)
      BY DEF IInv, EventInv
    <3> QED BY <3>1, <1>1, <1>5 DEF Awaited, Known, Is, Positions
  <2> QED BY <2>1, <2>2 DEF EventInv
<1>13. PoolInv'
  <2>1. Owned' = Owned
    BY <1>1, <1>2, <1>3, <1>4, <1>5 DEF Owned
  <2> QED BY <2>1, <1>5, <1>4 DEF IInv, PoolInv
<1> QED BY <1>6, <1>7, <1>8, <1>9, <1>10, <1>11, <1>12, <1>13 DEF IInv

LEMMA AddToRemoveSetKeeps ==
    ASSUME IInv, AddToRemoveSet
    PROVE  IInv'
<1>1. main.pc = "remove"
  BY DEF AddToRemoveSet
<1>2. /\ queue # <<>> /\ queue[1].sock \in Socks /\ Len(queue) \in Nat
      /\ Head(queue) = queue[1] /\ 1 \in Positions /\ queue[1].type = "Disconnection"
  BY HeadFacts DEF IInv, HeadIs, HandlingInv, AddToRemoveSet
<1>3. /\ sock[queue[1].sock].owner \in Tasks /\ sock[queue[1].sock].owner # NULL
      /\ sock[queue[1].sock].obj = "alive" /\ sock[queue[1].sock].view = "closed"
      /\ ~sock[queue[1].sock].know /\ queue[1].sock \notin clients
      /\ queue[1].sock \in task[sock[queue[1].sock].owner].conns
      /\ task[sock[queue[1].sock].owner].pc # "erase"
  BY <1>2
     DEF IInv, TypeOK, SockStates, SockInv, SockGood, EventInv, EventGood,
         AddToRemoveSet, RemoveFree
<1>4. /\ task' \in [Tasks -> TaskStates]
      /\ task'[sock[queue[1].sock].owner].pc = task[sock[queue[1].sock].owner].pc
      /\ task'[sock[queue[1].sock].owner].conns = task[sock[queue[1].sock].owner].conns
      /\ task'[sock[queue[1].sock].owner].remove = task[sock[queue[1].sock].owner].remove \cup {queue[1].sock}
      /\ task'[sock[queue[1].sock].owner].copy = task[sock[queue[1].sock].owner].copy
      /\ task'[sock[queue[1].sock].owner].ready = task[sock[queue[1].sock].owner].ready
      /\ task'[sock[queue[1].sock].owner].woken = task[sock[queue[1].sock].owner].woken
      /\ task'[sock[queue[1].sock].owner].wake = task[sock[queue[1].sock].owner].wake
      /\ task'[sock[queue[1].sock].owner].cur = task[sock[queue[1].sock].owner].cur
      /\ \A u \in Tasks \ {sock[queue[1].sock].owner} : task'[u] = task[u]
  <2> DEFINE new == [task[sock[queue[1].sock].owner] EXCEPT !.remove = @ \cup {queue[1].sock}]
  <2>1. sock[queue[1].sock].owner \in Tasks /\ task \in [Tasks -> TaskStates] /\ task[sock[queue[1].sock].owner] \in TaskStates
    BY <1>1, <1>2, <1>3, NatFacts DEF IInv, TypeOK
  <2>2. /\ new \in TaskStates
        /\ new.pc = task[sock[queue[1].sock].owner].pc
        /\ new.conns = task[sock[queue[1].sock].owner].conns
        /\ new.remove = task[sock[queue[1].sock].owner].remove \cup {queue[1].sock}
        /\ new.copy = task[sock[queue[1].sock].owner].copy
        /\ new.ready = task[sock[queue[1].sock].owner].ready
        /\ new.woken = task[sock[queue[1].sock].owner].woken
        /\ new.wake = task[sock[queue[1].sock].owner].wake
        /\ new.cur = task[sock[queue[1].sock].owner].cur
    BY <1>1, <1>2, <1>3, <2>1 DEF TaskStates
  <2>3. task' = [task EXCEPT ![sock[queue[1].sock].owner] = new]
    BY <1>1, <1>2, <1>3, <2>1 DEF AddToRemoveSet
  <2> HIDE DEF new
  <2> QED BY <2>1, <2>2, <2>3
<1>5. /\ main' \in MainStates
      /\ main'.pc = "wake"
      /\ main'.op = main.op
      /\ main'.task = sock[queue[1].sock].owner
      /\ main'.todo = main.todo
      /\ main'.budget = main.budget
  BY <1>2, <1>3, NatFacts DEF IInv, TypeOK, MainStates, AddToRemoveSet
<1>6. UNCHANGED <<sock, pool, listen, clients, queue>>
  BY DEF AddToRemoveSet
<1>7. TypeOK'
  BY <1>4, <1>5, <1>6 DEF IInv, TypeOK
<1>8. LockInv'
  BY <1>3, <1>5 DEF LockInv
<1>9. TaskInv'
  <2> SUFFICES ASSUME NEW u \in Tasks
               PROVE  TaskGood(u)'
    BY DEF TaskInv
  <2>1. TaskGood(u) /\ task[u] \in TaskStates
    BY DEF IInv, TaskInv, TypeOK
  <2> QED
    <3>1. task[u].conns \subseteq Socks /\ task[u].remove \subseteq Socks
      BY <2>1 DEF TaskStates
    <3>2. CASE u = sock[queue[1].sock].owner
      BY <2>1, <3>2, <1>3, <1>4, <1>6 DEF TaskGood
    <3>3. CASE u # sock[queue[1].sock].owner
      BY <2>1, <3>3, <1>4, <1>6 DEF TaskGood
    <3> QED BY <3>2, <3>3
<1>10. ListenInv'
  BY <1>6 DEF IInv, ListenInv
<1>11. SockInv'
  <2> SUFFICES ASSUME NEW r \in Socks
               PROVE  SockGood(r)'
    BY DEF SockInv
  <2>1. SockGood(r) /\ sock[r].owner \in Tasks \cup {NULL}
    BY DEF IInv, SockInv, TypeOK, SockStates
  <2> QED BY <2>1, <1>1, <1>4, <1>6 DEF SockGood, Known
<1>12. HandlingInv'
  BY <1>2, <1>5, <1>6 DEF HandlingInv
<1>13. EventInv'
  <2>1. ASSUME NEW i \in Positions'
        PROVE  EventGood(i)'
    <3>1. i \in Positions /\ EventGood(i) /\ queue[i].sock \in Socks
      BY EventFacts, <1>6 DEF IInv, EventInv, Positions
    <3> QED BY <3>1, <1>2, <1>3, <1>5, <1>6 DEF EventGood, Known, Is, Positions
  <2>2. ASSUME NEW r \in Socks
        PROVE  Awaited(r)'
    <3>1. Awaited(r)
      BY DEF IInv, EventInv
    <3> QED BY <3>1, <1>1, <1>6 DEF Awaited, Known, Is, Positions
  <2> QED BY <2>1, <2>2 DEF EventInv
<1>14. PoolInv'
  <2>1. Owned' = Owned
    BY <1>6 DEF Owned
  <2> QED BY <2>1, <1>6, <1>5 DEF IInv, PoolInv
<1> QED BY <1>7, <1>8, <1>9, <1>10, <1>11, <1>12, <1>13, <1>14 DEF IInv

LEMMA WakeOwnerKeeps ==
    ASSUME IInv, WakeOwner
    PROVE  IInv'
<1>1. main.pc = "wake"
  BY DEF WakeOwner
<1>2. /\ queue # <<>> /\ queue[1].sock \in Socks /\ Len(queue) \in Nat
      /\ Head(queue) = queue[1] /\ 1 \in Positions /\ queue[1].type = "Disconnection"
  BY HeadFacts DEF IInv, HeadIs, HandlingInv, WakeOwner
<1>3. /\ queue' \in Seq(Events)
      /\ Len(queue) \in Nat \ {0} /\ Len(queue') = Len(queue) - 1
      /\ \A i \in 1 .. Len(queue') : queue'[i] = queue[i + 1]
  BY <1>2, Popped DEF IInv, WakeOwner
<1>4. main.task \in Tasks /\ task[main.task].wake \in Nat
  BY <1>1 DEF IInv, LockInv, TypeOK, TaskStates
<1>5. /\ task' \in [Tasks -> TaskStates]
      /\ task'[main.task].pc = task[main.task].pc
      /\ task'[main.task].conns = task[main.task].conns
      /\ task'[main.task].remove = task[main.task].remove
      /\ task'[main.task].copy = task[main.task].copy
      /\ task'[main.task].ready = task[main.task].ready
      /\ task'[main.task].woken = task[main.task].woken
      /\ task'[main.task].wake = task[main.task].wake + 1
      /\ task'[main.task].cur = task[main.task].cur
      /\ \A u \in Tasks \ {main.task} : task'[u] = task[u]
  <2> DEFINE new == [task[main.task] EXCEPT !.wake = @ + 1]
  <2>1. main.task \in Tasks /\ task \in [Tasks -> TaskStates] /\ task[main.task] \in TaskStates
    BY <1>4 DEF IInv, TypeOK
  <2>2. /\ new \in TaskStates
        /\ new.pc = task[main.task].pc
        /\ new.conns = task[main.task].conns
        /\ new.remove = task[main.task].remove
        /\ new.copy = task[main.task].copy
        /\ new.ready = task[main.task].ready
        /\ new.woken = task[main.task].woken
        /\ new.wake = task[main.task].wake + 1
        /\ new.cur = task[main.task].cur
    BY <1>4, <2>1 DEF TaskStates
  <2>3. task' = [task EXCEPT ![main.task] = new]
    BY <1>1, <1>2, <1>3, <1>4, <2>1 DEF WakeOwner
  <2> HIDE DEF new
  <2> QED BY <2>1, <2>2, <2>3
<1>6. /\ main' \in MainStates
      /\ main'.pc = "idle"
      /\ main'.op = "update"
      /\ main'.task = 1
      /\ main'.todo = {}
      /\ main'.budget = main.budget
  BY DEF IInv, TypeOK, MainStates, MainIdle, WakeOwner
<1>7. UNCHANGED <<sock, pool, listen, clients>>
  BY DEF WakeOwner
<1>8. TypeOK'
  BY <1>3, <1>5, <1>6, <1>7 DEF IInv, TypeOK
<1>9. LockInv'
  BY <1>6 DEF LockInv
<1>10. SameSock /\ \A u \in Tasks : Woken(u)
  BY <1>4, <1>5, <1>7 DEF Woken, SameSock
<1>11. TaskInv'
  BY <1>7, <1>10, WokenFrame
<1>12. ListenInv'
  BY <1>7 DEF IInv, ListenInv
<1>13. SockInv'
  <2> SUFFICES ASSUME NEW r \in Socks
               PROVE  SockGood(r)'
    BY DEF SockInv
  <2>1. SockGood(r) /\ sock[r].owner \in Tasks \cup {NULL}
    BY DEF IInv, SockInv, TypeOK, SockStates
  <2> QED BY <2>1, <1>1, <1>5, <1>7 DEF SockGood, Known
<1>14. HandlingInv'
  BY <1>6 DEF HandlingInv
<1>15. EventInv'
  <2>1. ASSUME NEW i \in Positions'
        PROVE  EventGood(i)'
    <3>1. /\ i + 1 \in Positions /\ EventGood(i + 1) /\ queue'[i] = queue[i + 1]
          /\ i \in Nat /\ i >= 1 /\ queue[i + 1].sock \in Socks
      BY EventFacts, <1>3 DEF IInv, EventInv, Positions
    <3> QED
    <4>1. \A j \in Positions' : j + 1 \in Positions /\ queue'[j] = queue[j + 1] /\ j \in Nat
        BY <1>2, <1>3 DEF Positions
      <4> QED BY <3>1, <4>1, <1>6, <1>7 DEF EventGood, Known, Is
  <2>2. ASSUME NEW r \in Socks
        PROVE  Awaited(r)'
    <3> SUFFICES ASSUME sock[r].view = "none", Known(r), main'.pc # "destroyed"
                 PROVE  \E j \in Positions' : Is(j, r, "Connection")'
      BY <1>7 DEF Awaited, Known
    <3>1. PICK j \in Positions : Is(j, r, "Connection")
      BY <1>1 DEF IInv, EventInv, Awaited
    <3>2. j # 1
      BY <3>1, <1>2 DEF Is
    <3>3. j - 1 \in Positions' /\ queue'[j - 1] = queue[j]
      BY <3>2, <1>3 DEF Positions
    <3> QED BY <3>1, <3>3 DEF Is
  <2> QED BY <2>1, <2>2 DEF EventInv
<1>16. PoolInv'
  <2>1. Owned' = Owned
    BY <1>7 DEF Owned
  <2> QED BY <2>1, <1>10, <1>7 DEF IInv, PoolInv
<1> QED BY <1>8, <1>9, <1>11, <1>12, <1>13, <1>14, <1>15, <1>16 DEF IInv

LEMMA ReceiveUserKeeps ==
    ASSUME IInv, ReceiveUser
    PROVE  IInv'
<1>1. main.pc = "idle"
  BY DEF ReceiveUser
<1>2. /\ queue # <<>> /\ queue[1].sock \in Socks /\ Len(queue) \in Nat
      /\ Head(queue) = queue[1] /\ 1 \in Positions /\ queue[1].type = "User"
  BY HeadFacts DEF IInv, HeadIs, HandlingInv, ReceiveUser
<1>3. /\ queue' \in Seq(Events)
      /\ Len(queue) \in Nat \ {0} /\ Len(queue') = Len(queue) - 1
      /\ \A i \in 1 .. Len(queue') : queue'[i] = queue[i + 1]
  BY <1>2, Popped DEF IInv, ReceiveUser
<1>4. UNCHANGED <<sock, task, pool, listen, main, clients>>
  BY DEF ReceiveUser
<1>5. TypeOK'
  BY <1>3, <1>4 DEF IInv, TypeOK
<1>6. LockInv'
  BY <1>1, <1>2, <1>3, <1>4 DEF IInv, LockInv
<1>7. TaskInv'
  <2> SUFFICES ASSUME NEW u \in Tasks
               PROVE  TaskGood(u)'
    BY DEF TaskInv
  <2>1. TaskGood(u) /\ task[u] \in TaskStates
    BY DEF IInv, TaskInv, TypeOK
  <2> QED BY <2>1, <1>4 DEF TaskGood
<1>8. ListenInv'
  BY <1>1, <1>2, <1>3, <1>4 DEF IInv, ListenInv
<1>9. SockInv'
  <2> SUFFICES ASSUME NEW r \in Socks
               PROVE  SockGood(r)'
    BY DEF SockInv
  <2>1. SockGood(r) /\ sock[r].owner \in Tasks \cup {NULL}
    BY DEF IInv, SockInv, TypeOK, SockStates
  <2> QED BY <2>1, <1>1, <1>4 DEF SockGood, Known
<1>10. HandlingInv'
  BY <1>1, <1>4 DEF HandlingInv
<1>11. EventInv'
  <2>1. ASSUME NEW i \in Positions'
        PROVE  EventGood(i)'
    <3>1. /\ i + 1 \in Positions /\ EventGood(i + 1) /\ queue'[i] = queue[i + 1]
          /\ i \in Nat /\ i >= 1 /\ queue[i + 1].sock \in Socks
      BY EventFacts, <1>3 DEF IInv, EventInv, Positions
    <3> QED
    <4>1. \A j \in Positions' : j + 1 \in Positions /\ queue'[j] = queue[j + 1] /\ j \in Nat
        BY <1>2, <1>3 DEF Positions
      <4> QED BY <3>1, <4>1, <1>1, <1>4 DEF EventGood, Known, Is
  <2>2. ASSUME NEW r \in Socks
        PROVE  Awaited(r)'
    <3> SUFFICES ASSUME sock[r].view = "none", Known(r), main'.pc # "destroyed"
                 PROVE  \E j \in Positions' : Is(j, r, "Connection")'
      BY <1>1, <1>2, <1>3, <1>4 DEF Awaited, Known
    <3>1. PICK j \in Positions : Is(j, r, "Connection")
      BY <1>4 DEF IInv, EventInv, Awaited
    <3>2. j # 1
      BY <3>1, <1>2 DEF Is
    <3>3. j - 1 \in Positions' /\ queue'[j - 1] = queue[j]
      BY <3>2, <1>1, <1>2, <1>3, <1>4 DEF Positions
    <3> QED BY <3>1, <3>3 DEF Is
  <2> QED BY <2>1, <2>2 DEF EventInv
<1>12. PoolInv'
  <2>1. Owned' = Owned
    BY <1>1, <1>2, <1>3, <1>4 DEF Owned
  <2> QED BY <2>1, <1>4, <1>3 DEF IInv, PoolInv
<1> QED BY <1>5, <1>6, <1>7, <1>8, <1>9, <1>10, <1>11, <1>12 DEF IInv

LEMMA DeleteAllKeeps ==
    ASSUME IInv, DeleteAll
    PROVE  IInv'
<1>1. main.pc = "delete" /\ UNCHANGED <<pool, listen>> /\ clients' = {} /\ queue' = <<>>
  BY DEF DeleteAll
<1>2. listen.pc = "done" /\ \A t \in Tasks : task[t].pc \in {"none", "dead"}
  BY <1>1 DEF IInv, LockInv
<1>3. /\ sock' \in [Socks -> SockStates]
      /\ \A s \in Socks : /\ sock'[s].know = sock[s].know /\ sock'[s].owner = sock[s].owner
                          /\ sock'[s].view = sock[s].view
                          /\ sock[s].obj # "none" => sock'[s].obj # "none"
                          /\ sock[s].obj = "none" => sock'[s].obj = "none"
                          /\ sock'[s].obj = "alive" => sock'[s].owner = NULL
  <2> DEFINE left == UNION {task[t].conns : t \in 1 .. pool}
             new(s) == [sock[s] EXCEPT !.obj = "deleted"]
  <2>1. \A s \in left : sock[s].obj = "alive"
    <3> SUFFICES ASSUME NEW t \in 1 .. pool, NEW s \in task[t].conns
                 PROVE  sock[s].obj = "alive"
      OBVIOUS
    <3>1. t \in Tasks
      BY NatFacts DEF IInv, TypeOK, Tasks
    <3> QED BY <3>1 DEF IInv, TaskInv, TaskGood
  <2>2. sock' = [s \in Socks |-> IF s \in left THEN new(s) ELSE sock[s]]
    BY DEF DeleteAll
  <2>3. \A s \in Socks : /\ sock[s] \in SockStates /\ new(s) \in SockStates
                         /\ new(s).know = sock[s].know /\ new(s).owner = sock[s].owner
                         /\ new(s).view = sock[s].view /\ new(s).obj = "deleted"
    <3> SUFFICES ASSUME NEW s \in Socks
                 PROVE  /\ sock[s] \in SockStates /\ new(s) \in SockStates
                        /\ new(s).know = sock[s].know /\ new(s).owner = sock[s].owner
                        /\ new(s).view = sock[s].view /\ new(s).obj = "deleted"
      OBVIOUS
    <3>1. sock[s] \in SockStates
      BY DEF IInv, TypeOK
    <3> QED BY <3>1 DEF SockStates
  <2>4. \A s \in Socks : sock[s].obj = "alive" /\ sock[s].owner # NULL => s \in left
    <3> SUFFICES ASSUME NEW s \in Socks, sock[s].obj = "alive", sock[s].owner # NULL
                 PROVE  s \in left
      OBVIOUS
    <3> DEFINE t == sock[s].owner
    <3>1. t \in Tasks /\ s \in task[t].conns
      BY DEF IInv, TypeOK, SockStates, SockInv, SockGood
    <3>2. t <= pool /\ pool \in Nat
      BY <3>1, NatFacts DEF IInv, TypeOK, TaskInv, TaskGood
    <3>3. t \in 1 .. pool
      BY <3>1, <3>2, NatFacts DEF Tasks
    <3> QED BY <3>1, <3>3
  <2> HIDE DEF left, new
  <2>5. \A s \in Socks : sock'[s] = IF s \in left THEN new(s) ELSE sock[s]
    BY <2>2
  <2>6. sock' \in [Socks -> SockStates]
    BY <2>2, <2>3
  <2>7. ASSUME NEW s \in Socks
        PROVE  /\ sock'[s].know = sock[s].know /\ sock'[s].owner = sock[s].owner
               /\ sock'[s].view = sock[s].view
               /\ sock[s].obj # "none" => sock'[s].obj # "none"
               /\ sock[s].obj = "none" => sock'[s].obj = "none"
               /\ sock'[s].obj = "alive" => sock'[s].owner = NULL
    <3>1. CASE s \in left
      BY <3>1, <2>1, <2>3, <2>5
    <3>2. CASE s \notin left
      BY <3>2, <2>4, <2>5
    <3> QED BY <3>1, <3>2
  <2> QED BY <2>6, <2>7
<1>4. /\ task' \in [Tasks -> TaskStates]
      /\ \A t \in Tasks : /\ task'[t].conns = {} /\ task'[t].remove = {}
                          /\ task'[t].pc = task[t].pc
  <2> DEFINE new(t) == [task[t] EXCEPT !.conns = {}, !.remove = {}]
  <2>1. task' = [t \in Tasks |-> new(t)]
    BY DEF DeleteAll
  <2>2. ASSUME NEW t \in Tasks
        PROVE  /\ new(t) \in TaskStates /\ new(t).conns = {} /\ new(t).remove = {}
               /\ new(t).pc = task[t].pc
    <3>1. task[t] \in TaskStates
      BY DEF IInv, TypeOK
    <3> QED BY <3>1 DEF TaskStates
  <2> HIDE DEF new
  <2> QED BY <2>1, <2>2
<1>5. main' \in MainStates /\ main'.pc = "destroyed"
  BY DEF IInv, TypeOK, MainStates, DeleteAll
<1>6. TypeOK'
  BY <1>1, <1>3, <1>4, <1>5 DEF IInv, TypeOK
<1>7. LockInv'
  BY <1>1, <1>2, <1>4, <1>5 DEF LockInv
<1>8. TaskInv'
  BY <1>1, <1>2, <1>4 DEF IInv, TaskInv, TaskGood
<1>9. ListenInv'
  BY <1>1, <1>2 DEF ListenInv
<1>10. SockInv'
  <2> SUFFICES ASSUME NEW r \in Socks
               PROVE  SockGood(r)'
    BY DEF SockInv
  <2>1. SockGood(r)
    BY DEF IInv, SockInv
  <2> QED BY <2>1, <1>1, <1>3, <1>5 DEF SockGood, Known
<1>11. HandlingInv'
  BY <1>1, <1>5 DEF HandlingInv
<1>12. EventInv'
  <2>1. Positions' = {}
    BY <1>1, EmptySeq DEF Positions
  <2> QED BY <2>1, <1>5 DEF EventInv, Awaited
<1>13. PoolInv'
  <2>1. Owned' = Owned
    BY <1>3 DEF Owned
  <2> QED BY <2>1, <1>1 DEF IInv, PoolInv
<1> QED BY <1>6, <1>7, <1>8, <1>9, <1>10, <1>11, <1>12, <1>13 DEF IInv

----------------------------------------------------------------------------
(* Nothing has been accepted yet. *)
LEMMA InitEstablishes == Init => IInv
<1> SUFFICES ASSUME Init
             PROVE  IInv
  OBVIOUS
<1>1. /\ \A s \in Socks : /\ sock[s] \in SockStates /\ sock[s].obj = "none" /\ ~sock[s].know
                          /\ sock[s].owner = NULL /\ sock[s].view = "none"
      /\ sock = [s \in Socks |-> sock[s]]
  BY DEF Init, SockStates
<1>2. /\ \A t \in Tasks : /\ task[t] \in TaskStates /\ task[t].pc = "none"
                          /\ task[t].conns = {} /\ task[t].remove = {}
      /\ task = [t \in Tasks |-> task[t]]
  BY DEF Init, TaskStates
<1>3. listen \in ListenStates /\ listen.pc = "accept"
  BY DEF Init, ListenStates, ListenIdle
<1>4. main \in MainStates /\ main.pc = "idle"
  BY ConstantsAssumption DEF Init, MainStates, MainIdle
<1>5. pool = 0 /\ clients = {} /\ queue = <<>>
  BY DEF Init
<1>6. TypeOK
  BY <1>1, <1>2, <1>3, <1>4, <1>5, NatFacts DEF TypeOK
<1>7. Positions = {}
  BY <1>5, EmptySeq DEF Positions
<1>8. Owned = {} /\ \A s \in Socks : ~Known(s)
  BY <1>1 DEF Owned, Known
<1>9. LockInv /\ TaskInv /\ ListenInv /\ HandlingInv
  BY <1>2, <1>3, <1>4 DEF LockInv, TaskInv, TaskGood, ListenInv, HandlingInv
<1>10. SockInv
  BY <1>1, <1>5, <1>8 DEF SockInv, SockGood
<1>11. EventInv
  BY <1>7, <1>8 DEF EventInv, Awaited
<1>12. PoolInv
  BY <1>5, <1>8, FS_EmptySet DEF PoolInv
<1> QED BY <1>6, <1>9, <1>10, <1>11, <1>12 DEF IInv

LEMMA StutterKeeps ==
    ASSUME IInv, UNCHANGED vars
    PROVE  IInv'
BY DEF vars, IInv, TypeOK, LockInv, TaskInv, TaskGood, ListenInv, SockInv,
       SockGood, Known, Is, HandlingInv, EventInv, EventGood, Awaited, Positions,
       PoolInv, Owned

LEMMA VisitBrokenKeeps ==
    ASSUME IInv, NEW s \in Socks, VisitBroken(s)
    PROVE  IInv'
BY VisitBrokenAgainKeeps, VisitBrokenToldKeeps

LEMMA NextKeeps == IInv /\ [Next]_vars => IInv'
<1> SUFFICES ASSUME IInv, [Next]_vars
             PROVE  IInv'
  OBVIOUS
<1>1. CASE Peer \/ \E s \in Socks : DisconnectHost(s)
  BY <1>1, PeerSendsKeeps, PeerClosesKeeps, DisconnectHostKeeps DEF Peer
<1>2. CASE Accept \/ ListenStep
  BY <1>2, AcceptKeeps, ListenExitsKeeps, AdvertiseConnectionKeeps, LockPoolKeeps,
     ScanFillKeeps, ScanSpreadKeeps, AddToThreadKeeps, WakeThreadKeeps,
     AddNewThreadKeeps
     DEF ListenStep
<1>3. CASE \E t \in Tasks : ReceiveStep(t) \/ SelectError(t)
  BY <1>3, BeginLoopKeeps, EraseKeeps, CopyConnectionsKeeps, SelectKeeps,
     SelectErrorKeeps, ReceiveBlockKeeps, ReceiveEndKeeps, PushUserKeeps,
     EndLoopKeeps
     DEF ReceiveStep
<1>4. CASE MainStep
  BY <1>4, NextThreadKeeps, EndThreadKeeps, VisitBrokenKeeps, VisitSoundKeeps,
     VisitDisconnectKeeps, ConnectionHandledKeeps, DisconnectionHandledKeeps,
     AddToRemoveSetKeeps, WakeOwnerKeeps, JoinListenKeeps, StopThreadKeeps,
     JoinThreadsKeeps, DeleteAllKeeps
     DEF MainStep
<1>5. CASE Poll
  BY <1>5, HandleConnectionKeeps, HandleDisconnectionKeeps, ReceiveUserKeeps
     DEF Poll
<1>6. CASE BeginWalk("update") \/ BeginWalk("disconnect")
  BY <1>6, BeginWalkKeeps
<1>7. CASE BeginDestroy
  BY <1>7, BeginDestroyKeeps
<1>8. CASE Destroyed \/ UNCHANGED vars
  BY <1>8, StutterKeeps DEF Destroyed
<1> QED BY <1>1, <1>2, <1>3, <1>4, <1>5, <1>6, <1>7, <1>8 DEF Next

LEMMA InvariantHolds == Spec => []IInv
BY InitEstablishes, NextKeeps, PTL DEF Spec

(* No thread walks over a deleted object, and each connection is in the set *)
(* of its task alone until the application has been told of its end:        *)
(* Ownership.                                                               *)
THEOREM OwnershipHolds == Spec => []Ownership
<1>1. IInv => NoDangling
  <2> SUFFICES ASSUME IInv
               PROVE  NoDangling
    OBVIOUS
  <2>1. \A t \in Tasks : TaskGood(t) /\ task[t].conns \subseteq Socks
    BY DEF IInv, TaskInv, TypeOK, TaskStates
  <2>2. \A t \in Tasks : /\ task[t].conns \subseteq Alive
                         /\ task[t].remove \subseteq task[t].conns
                         /\ task[t].pc \in {"select", "receive", "push"} => task[t].copy \subseteq Alive
    BY <2>1 DEF TaskGood, Alive
  <2>3. clients \subseteq Alive
    BY DEF IInv, TypeOK, SockInv, SockGood, Alive
  <2>4. main.pc = "visit" => main.todo \subseteq Alive
    <3>1. main.pc = "visit" => main.task \in Tasks /\ main.todo \subseteq task[main.task].conns
      <4>1. /\ main.task \in Nat
            /\ main.pc = "visit" => /\ main.task >= 1 /\ main.task <= pool
                                    /\ main.todo \subseteq task[main.task].conns
        BY DEF IInv, LockInv, TypeOK, MainStates
      <4>2. pool \in Nat /\ pool <= Cardinality(Socks)
        BY NatFacts DEF IInv, TypeOK
      <4> QED BY <4>1, <4>2, NatFacts DEF Tasks
    <3> QED BY <3>1, <2>2
  <2> QED BY <2>2, <2>3, <2>4 DEF NoDangling
<1>2. IInv => OneOwner
  <2> SUFFICES ASSUME IInv, NEW s \in Socks
               PROVE  /\ \A t \in Tasks : s \in task[t].conns => sock[s].owner = t
                      /\ s \in Alive /\ sock[s].owner # NULL => s \in task[sock[s].owner].conns
                      /\ \A t \in Tasks : s \in task[t].remove => sock[s].view = "closed"
    BY DEF OneOwner
  <2>1. SockGood(s) /\ \A t \in Tasks : TaskGood(t)
    BY DEF IInv, SockInv, TaskInv
  <2> QED BY <2>1 DEF SockGood, TaskGood, Alive
<1> QED BY <1>1, <1>2, InvariantHolds, PTL DEF Ownership, IInv

(* Of each connection the application hears of the connection first, and of *)
(* its end once: EventOrder.                                                *)
THEOREM EventOrderHolds == Spec => []EventOrder
<1>1. IInv => EventOrder
  <2> SUFFICES ASSUME IInv
               PROVE  EventOrder
    OBVIOUS
  <2>1. \A i \in Positions : /\ EventGood(i) /\ Awaited(queue[i].sock) /\ i \in Nat
                             /\ queue[i].sock \in Socks /\ queue[i].type \in EventTypes
    BY EventFacts DEF IInv, EventInv, Positions
  <2>2. ASSUME NEW i \in Positions, NEW j \in Positions, i < j, queue[i].sock = queue[j].sock
        PROVE  /\ queue[j].type # "Connection"
               /\ ~ (queue[i].type = "Disconnection" /\ queue[j].type = "Disconnection")
    BY <2>1, <2>2 DEF EventGood, Is
  <2>3. ASSUME NEW i \in Positions, queue[i].type # "Connection",
               sock[queue[i].sock].view = "none"
        PROVE  \E j \in 1 .. i - 1 : queue[j] = [sock |-> queue[i].sock, type |-> "Connection"]
    <3>1. PICK j \in Positions : Is(j, queue[i].sock, "Connection")
      <4>1. main.pc # "destroyed"
        BY <2>3, EmptySeq DEF IInv, HandlingInv, Positions
      <4> QED BY <2>1, <2>3, <4>1 DEF EventGood, Awaited
    <3>2. j <= i /\ j # i
      BY <2>1, <2>3, <3>1 DEF EventGood, Is
    <3>3. queue[j] \in Events
      BY <3>1 DEF IInv, TypeOK, Positions
    <3>4. queue[j] = [sock |-> queue[i].sock, type |-> "Connection"]
      BY <3>1, <3>3 DEF Events, Is
    <3> QED BY <2>1, <3>2, <3>4 DEF Positions
  <2> QED BY <2>2, <2>3 DEF EventOrder, Positions
<1> QED BY <1>1, InvariantHolds, PTL

(* The assertions of the handlers of the connection and of the              *)
(* disconnection event hold: HandlerAsserts.                                *)
THEOREM HandlerAssertsHold == Spec => []HandlerAsserts
<1>1. IInv => HandlerAsserts
  <2> SUFFICES ASSUME IInv, queue # <<>>
               PROVE  HandlerAsserts
    BY DEF HandlerAsserts, HeadIs
  <2> DEFINE s == queue[1].sock
  <2>1. s = Head(queue).sock /\ s \in Socks /\ Head(queue) = queue[1]
    BY HeadFacts DEF IInv
  <2>2. EventGood(1) /\ SockGood(s) /\ 1 \in Positions
    BY <2>1, HeadFacts DEF IInv, EventInv, SockInv
  <2>3. sock[s] \in SockStates /\ \A t \in Tasks : TaskGood(t)
    BY <2>1 DEF IInv, TypeOK, TaskInv
  <2>4. ASSUME main.pc = "idle", queue[1].type = "Connection"
        PROVE  s \in Alive \ clients
    BY <2>1, <2>2, <2>3, <2>4 DEF EventGood, SockGood, SockStates, Alive
  <2>5. ASSUME main.pc \in {"idle", "callback", "remove"}, queue[1].type = "Disconnection"
        PROVE  /\ s \in Alive /\ sock[s].owner \in Tasks
               /\ main.pc # "remove" => s \in clients
               /\ \A t \in Tasks : s \notin task[t].remove
    <3>1. CASE main.pc = "idle"
      BY <2>5, <3>1, DisconnectionAtHead DEF Alive
    <3>2. CASE main.pc \in {"callback", "remove"}
      BY <2>1, <2>2, <2>3, <2>5, <3>2 DEF EventGood, SockStates, Alive
    <3> QED BY <2>5, <3>1, <3>2
  <2> HIDE DEF s
  <2> QED BY <2>1, <2>4, <2>5, NatFacts DEF HandlerAsserts, HeadIs
<1> QED BY <1>1, InvariantHolds, PTL

----------------------------------------------------------------------------
(* The limits of the two strategies *)

(* The room FillThreads has found is still there when it is used: the pool  *)
(* is locked in between, and the threads only take sockets out of theirs.   *)
FillInv == Fill =>
    /\ SocketsPerThread
    /\ listen.pc = "scan" => listen.best = NULL
    /\ listen.pc = "add" /\ listen.best # NULL =>
          Cardinality(task[listen.best].conns) < MaxSockets

(* SpreadSockets adds a thread only while the pool is below its maximum.    *)
SpreadInv == ~Fill =>
    /\ PoolBounded
    /\ listen.pc = "scan" => IF listen.i = 1 THEN listen.lo = Cardinality(Socks) + 1
                             ELSE listen.best # NULL
    /\ listen.pc = "add" /\ listen.best = NULL => pool < MaxThreads

NoMoreConns == \A t \in Tasks : task'[t].conns \subseteq task[t].conns

LEMMA FewerConns ==
    ASSUME TypeOK, NoMoreConns
    PROVE  \A t \in Tasks : /\ Cardinality(task[t].conns) \in Nat
                            /\ Cardinality(task'[t].conns) \in Nat
                            /\ Cardinality(task'[t].conns) <= Cardinality(task[t].conns)
<1> SUFFICES ASSUME NEW t \in Tasks
             PROVE  /\ Cardinality(task[t].conns) \in Nat
                    /\ Cardinality(task'[t].conns) \in Nat
                    /\ Cardinality(task'[t].conns) <= Cardinality(task[t].conns)
  OBVIOUS
<1>1. IsFiniteSet(task[t].conns) /\ task'[t].conns \subseteq task[t].conns
  BY FiniteFacts DEF TypeOK, TaskStates, NoMoreConns
<1> QED BY <1>1, FS_Subset, FS_CardinalityType

(* Only the listen thread gives sockets to threads. *)
LEMMA OthersAddNone ==
    ASSUME IInv, [Next]_vars
    PROVE  AddToThread \/ AddNewThread \/ NoMoreConns
<1> SUFFICES ASSUME ~AddToThread, ~AddNewThread
             PROVE  NoMoreConns
  OBVIOUS
<1>T. task \in [Tasks -> TaskStates]
  BY DEF IInv, TypeOK
<1>1. CASE Peer \/ \E s \in Socks : DisconnectHost(s)
  BY <1>1 DEF Peer, PeerSends, PeerCloses, DisconnectHost, NoMoreConns
<1>2. CASE Accept \/ ListenExits \/ AdvertiseConnection \/ LockPool \/ ScanFill \/ ScanSpread
  BY <1>2
     DEF Accept, ListenExits, AdvertiseConnection, LockPool, ScanFill, ScanSpread,
         NoMoreConns
<1>3. CASE WakeThread
  BY <1>3, <1>T DEF WakeThread, NoMoreConns, TaskStates
<1>4. ASSUME NEW t \in Tasks, ReceiveStep(t) \/ SelectError(t)
      PROVE  NoMoreConns
  <2>1. CASE BeginLoop(t)
    BY <2>1, <1>T DEF BeginLoop, NoMoreConns, TaskStates
  <2>2. CASE Erase(t)
    BY <2>2, <1>T DEF Erase, NoMoreConns, TaskStates
  <2>3. CASE CopyConnections(t)
    BY <2>3, <1>T DEF CopyConnections, NoMoreConns, TaskStates
  <2>4. CASE Select(t)
    <3>1. task'[t].conns = task[t].conns /\ \A u \in Tasks \ {t} : task'[u] = task[u]
      BY <2>4, <1>T DEF Select, TaskStates
    <3> QED BY <3>1 DEF NoMoreConns
  <2>7. CASE SelectError(t)
    BY <2>7, <1>T DEF SelectError, NoMoreConns, TaskStates
  <2>5. ASSUME NEW s \in Socks, ReceiveBlock(t, s) \/ ReceiveEnd(t, s)
        PROVE  NoMoreConns
    BY <2>5, <1>T DEF ReceiveBlock, ReceiveEnd, NoMoreConns, TaskStates
  <2>6. CASE PushUser(t) \/ EndLoop(t)
    BY <2>6, <1>T DEF PushUser, EndLoop, NoMoreConns, TaskStates
  <2> QED BY <1>4, <2>1, <2>2, <2>3, <2>4, <2>5, <2>6, <2>7 DEF ReceiveStep
<1>5. CASE NextThread \/ EndThread \/ ConnectionHandled \/ DisconnectionHandled
  BY <1>5
     DEF NextThread, EndThread, ConnectionHandled, DisconnectionHandled,
         NoMoreConns
<1>6. CASE \E s \in Socks : VisitBroken(s) \/ VisitSound(s) \/ VisitDisconnect(s)
  BY <1>6 DEF VisitBroken, VisitSound, VisitDisconnect, NoMoreConns
<1>7. CASE AddToRemoveSet
  BY <1>7, <1>T DEF AddToRemoveSet, NoMoreConns, TaskStates
<1>8. CASE WakeOwner \/ JoinListen
  BY <1>8, <1>T DEF WakeOwner, JoinListen, NoMoreConns, TaskStates
<1>9. CASE StopThread \/ JoinThreads
  BY <1>9, <1>T DEF StopThread, JoinThreads, NoMoreConns, TaskStates
<1>10. CASE DeleteAll
  BY <1>10, <1>T DEF DeleteAll, NoMoreConns, TaskStates
<1>11. CASE Poll \/ BeginWalk("update") \/ BeginWalk("disconnect") \/ BeginDestroy \/ Destroyed
  BY <1>11
     DEF Poll, HandleConnection, HandleDisconnection, ReceiveUser, BeginWalk,
         BeginDestroy, Destroyed, vars, NoMoreConns
<1>12. CASE UNCHANGED vars
  BY <1>12 DEF vars, NoMoreConns
<1> QED BY <1>1, <1>2, <1>3, <1>4, <1>5, <1>6, <1>7, <1>8, <1>9, <1>10, <1>11,
           <1>12
           DEF Next, ListenStep, MainStep

(* Nobody but the listen thread changes what it is doing, and the pool. *)
LEMMA OthersDoNotListen ==
    ASSUME IInv, [Next]_vars
    PROVE  \/ Accept \/ ListenStep
           \/ /\ pool' = pool /\ listen'.pc = listen.pc /\ listen'.i = listen.i
              /\ listen'.lo = listen.lo /\ listen'.best = listen.best
<1> SUFFICES ASSUME ~Accept, ~ListenStep
             PROVE  /\ pool' = pool /\ listen'.pc = listen.pc /\ listen'.i = listen.i
                    /\ listen'.lo = listen.lo /\ listen'.best = listen.best
  OBVIOUS
<1>L. listen \in ListenStates
  BY DEF IInv, TypeOK
<1>1. CASE Peer \/ \E s \in Socks : DisconnectHost(s)
  BY <1>1 DEF Peer, PeerSends, PeerCloses, DisconnectHost
<1>2. CASE \E t \in Tasks : ReceiveStep(t) \/ SelectError(t)
  <2>1. PICK t \in Tasks : ReceiveStep(t) \/ SelectError(t)
    BY <1>2
  <2>2. CASE BeginLoop(t) \/ Erase(t) \/ CopyConnections(t) \/ Select(t)
    BY <2>2 DEF BeginLoop, Erase, CopyConnections, Select
  <2>3. CASE \E s \in Socks : ReceiveBlock(t, s) \/ ReceiveEnd(t, s)
    BY <2>3 DEF ReceiveBlock, ReceiveEnd
  <2>4. CASE PushUser(t) \/ EndLoop(t) \/ SelectError(t)
    BY <2>4 DEF PushUser, EndLoop, SelectError
  <2> QED BY <2>1, <2>2, <2>3, <2>4 DEF ReceiveStep
<1>3. CASE MainStep
  BY <1>3
     DEF MainStep, NextThread, EndThread, VisitBroken, VisitSound,
         VisitDisconnect, ConnectionHandled, DisconnectionHandled, AddToRemoveSet,
         WakeOwner, JoinListen, StopThread, JoinThreads, DeleteAll
<1>4. CASE Poll \/ BeginWalk("update") \/ BeginWalk("disconnect")
  BY <1>4 DEF Poll, HandleConnection, HandleDisconnection, ReceiveUser, BeginWalk
<1>5. CASE BeginDestroy
  BY <1>5, <1>L DEF BeginDestroy, ListenStates
<1>6. CASE Destroyed \/ UNCHANGED vars
  BY <1>6 DEF Destroyed, vars
<1> QED BY <1>1, <1>2, <1>3, <1>4, <1>5, <1>6 DEF Next

LEMMA FillKeeps == IInv /\ FillInv /\ [Next]_vars => FillInv'
<1> SUFFICES ASSUME IInv, FillInv, [Next]_vars, Fill
             PROVE  FillInv'
  BY DEF FillInv
<1>1. /\ listen \in ListenStates /\ task \in [Tasks -> TaskStates] /\ pool \in Nat
      /\ MaxSockets \in Nat \ {0} /\ TypeOK
  BY NatFacts, ConstantsAssumption DEF IInv, TypeOK
<1>2. SocketsPerThread
  BY DEF FillInv
<1>3. CASE NoMoreConns
  <2>1. \A t \in Tasks : /\ Cardinality(task[t].conns) \in Nat
                         /\ Cardinality(task'[t].conns) \in Nat
                         /\ Cardinality(task'[t].conns) <= Cardinality(task[t].conns)
    BY <1>1, <1>3, FewerConns
  <2>2. SocketsPerThread'
    BY <1>1, <1>2, <2>1 DEF SocketsPerThread
  <2>3. /\ listen'.pc = "scan" => listen'.best = NULL
        /\ listen'.pc = "add" /\ listen'.best # NULL =>
              /\ listen'.best \in Tasks
              /\ Cardinality(task[listen'.best].conns) < MaxSockets
    <3>1. CASE listen'.pc = listen.pc /\ listen'.best = listen.best
      BY <1>1, <3>1 DEF FillInv, ListenStates
    <3>2. CASE ScanFill
      <4>1. listen.pc = "scan" /\ listen.best = NULL
        BY <3>2 DEF ScanFill, FillInv
      <4>2. CASE listen.i > pool
        <5>1. listen'.pc = "add" /\ listen'.best = listen.best
          BY <1>1, <3>2, <4>2 DEF ScanFill, ListenStates
        <5> QED BY <4>1, <5>1
      <4>3. CASE ~ (listen.i > pool)
        <5>1. listen.i \in Tasks
          BY <4>1, <4>3, NatFacts DEF IInv, TypeOK, ListenInv, Tasks
        <5>2. CASE Cardinality(task[listen.i].conns) < MaxSockets
          <6>1. listen'.pc = "add" /\ listen'.best = listen.i
            BY <1>1, <3>2, <4>3, <5>2 DEF ScanFill, ListenStates
          <6> QED BY <5>1, <5>2, <6>1
        <5>3. CASE ~ (Cardinality(task[listen.i].conns) < MaxSockets)
          <6>1. listen'.pc = listen.pc /\ listen'.best = listen.best
            BY <1>1, <3>2, <4>3, <5>3 DEF ScanFill, ListenStates
          <6> QED BY <4>1, <6>1
        <5> QED BY <5>2, <5>3
      <4> QED BY <4>2, <4>3
    <3>3. CASE Accept
      BY <1>1, <3>3 DEF Accept, ListenStates
    <3>4. CASE ListenExits \/ AdvertiseConnection \/ LockPool
      BY <1>1, <3>4 DEF ListenExits, AdvertiseConnection, LockPool, ListenStates
    <3>5. CASE AddToThread \/ AddNewThread \/ WakeThread
      BY <1>1, <3>5
         DEF AddToThread, AddNewThread, WakeThread, ListenIdle, ListenStates
    <3>6. ~ScanSpread
      BY DEF ScanSpread
    <3> QED BY <3>1, <3>2, <3>3, <3>4, <3>5, <3>6, OthersDoNotListen
               DEF ListenStep
  <2> QED BY <2>1, <2>2, <2>3, <1>1 DEF FillInv
<1>4. CASE AddToThread
  <2> DEFINE b == listen.best
  <2>1. /\ listen.pc = "add" /\ b \in Tasks /\ listen'.pc = "wake"
        /\ Cardinality(task[b].conns) < MaxSockets
        /\ task'[b].conns = task[b].conns \cup {listen.sock}
        /\ \A t \in Tasks \ {b} : task'[t].conns = task[t].conns
    BY <1>1, <1>4 DEF AddToThread, ListenStates, FillInv, TaskStates
  <2>2. IsFiniteSet(task[b].conns) /\ Cardinality(task[b].conns) \in Nat
    BY <1>1, <2>1, FiniteFacts DEF TaskStates
  <2>3. Cardinality(task'[b].conns) <= MaxSockets
    <3>1. \/ Cardinality(task'[b].conns) = Cardinality(task[b].conns)
          \/ Cardinality(task'[b].conns) = Cardinality(task[b].conns) + 1
      BY <2>1, <2>2, FS_AddElement, Zenon
    <3> QED BY <1>1, <2>1, <2>2, <3>1
  <2> HIDE DEF b
  <2>4. SocketsPerThread'
    BY <1>2, <2>1, <2>3 DEF SocketsPerThread
  <2> QED BY <2>1, <2>4 DEF FillInv
<1>5. CASE AddNewThread
  <2> DEFINE n == pool + 1
  <2>1. listen'.pc = "accept" /\ \A t \in Tasks : task'[t].conns = IF t = n THEN {listen.sock}
                                                                  ELSE task[t].conns
    BY <1>1, <1>5 DEF AddNewThread, ListenIdle, TaskStates
  <2>2. Cardinality({listen.sock}) = 1
    BY FS_Singleton
  <2> HIDE DEF n
  <2>3. SocketsPerThread'
    BY <1>1, <1>2, <2>1, <2>2 DEF SocketsPerThread
  <2> QED BY <2>1, <2>3 DEF FillInv
<1> QED BY <1>3, <1>4, <1>5, OthersAddNone

LEMMA SpreadKeeps == IInv /\ SpreadInv /\ [Next]_vars => SpreadInv'
<1> SUFFICES ASSUME IInv, SpreadInv, [Next]_vars, ~Fill
             PROVE  SpreadInv'
  BY DEF SpreadInv
<1>1. /\ listen \in ListenStates /\ pool \in Nat /\ MaxThreads \in Nat \ {0}
      /\ Cardinality(Socks) \in Nat /\ pool <= MaxThreads
  BY NatFacts, ConstantsAssumption DEF IInv, TypeOK, SpreadInv, PoolBounded
<1>2. CASE pool' = pool /\ listen'.pc = listen.pc /\ listen'.i = listen.i
           /\ listen'.lo = listen.lo /\ listen'.best = listen.best
  BY <1>2 DEF SpreadInv, PoolBounded
<1>3. CASE Accept
  BY <1>1, <1>3 DEF Accept, ListenStates, SpreadInv, PoolBounded
<1>4. CASE ListenExits \/ AdvertiseConnection \/ LockPool
  BY <1>1, <1>4
     DEF ListenExits, AdvertiseConnection, LockPool, ListenStates, SpreadInv,
         PoolBounded
<1>5. CASE ScanSpread
  <2>1. listen.pc = "scan" /\ pool' = pool /\ listen.i \in 1 .. pool + 1
    BY <1>5 DEF ScanSpread, IInv, ListenInv
  <2>2. CASE listen.i > pool
    <3>1. listen'.pc = "add" /\ (listen'.best = NULL => pool = 0 \/ pool < MaxThreads
                                                      \/ listen.best = NULL)
      BY <1>1, <1>5, <2>2 DEF ScanSpread, ListenStates
    <3>2. listen.best = NULL => pool = 0
      BY <1>1, <2>1, <2>2 DEF SpreadInv
    <3> QED BY <1>1, <2>1, <3>1, <3>2 DEF SpreadInv, PoolBounded
  <2>3. CASE ~ (listen.i > pool)
    <3>1. listen.i \in Tasks /\ listen.i # NULL
      BY <1>1, <2>1, <2>3 DEF IInv, TypeOK, Tasks, NULL
    <3> DEFINE noc == Cardinality(task[listen.i].conns)
    <3>2. noc \in Nat /\ noc <= Cardinality(Socks)
      BY <3>1, FiniteFacts DEF IInv, TypeOK, TaskStates
    <3>3. /\ listen'.pc = "scan" /\ listen'.i = listen.i + 1
          /\ listen'.best = IF noc < listen.lo THEN listen.i ELSE listen.best
      BY <1>1, <1>5, <2>1, <2>3 DEF ScanSpread, ListenStates
    <3> HIDE DEF noc
    <3>4. listen'.best # NULL
      BY <1>1, <2>1, <3>1, <3>2, <3>3 DEF SpreadInv
    <3> QED BY <1>1, <2>1, <3>3, <3>4 DEF SpreadInv, PoolBounded
  <2> QED BY <2>2, <2>3
<1>6. CASE AddToThread \/ WakeThread
  BY <1>1, <1>6
     DEF AddToThread, WakeThread, ListenIdle, ListenStates, SpreadInv, PoolBounded
<1>7. CASE AddNewThread
  BY <1>1, <1>7 DEF AddNewThread, ListenIdle, SpreadInv, PoolBounded
<1>8. ~ScanFill
  BY DEF ScanFill
<1> QED BY <1>2, <1>3, <1>4, <1>5, <1>6, <1>7, <1>8, OthersDoNotListen
           DEF ListenStep

LEMMA LimitsHold == Spec => [](IInv /\ FillInv /\ SpreadInv)
<1>1. Init => FillInv /\ SpreadInv
  <2> SUFFICES ASSUME Init
               PROVE  FillInv /\ SpreadInv
    OBVIOUS
  <2>1. listen.pc = "accept" /\ pool = 0 /\ \A t \in Tasks : task[t].conns = {}
    BY DEF Init, ListenIdle
  <2> QED BY <2>1, FS_EmptySet, ConstantsAssumption
             DEF FillInv, SpreadInv, SocketsPerThread, PoolBounded
<1> QED BY <1>1, InitEstablishes, NextKeeps, FillKeeps, SpreadKeeps, PTL DEF Spec

(* With FillThreads no thread is ever given more sockets than it may have:  *)
(* SocketsPerThread.                                                        *)
THEOREM SocketsPerThreadHolds == Spec => [](Fill => SocketsPerThread)
<1>1. FillInv => (Fill => SocketsPerThread)
  BY DEF FillInv
<1> QED BY <1>1, LimitsHold, PTL

(* With SpreadSockets there are never more threads than there may be:       *)
(* PoolBounded.                                                             *)
THEOREM PoolBoundedHolds == Spec => [](~Fill => PoolBounded)
<1>1. SpreadInv => (~Fill => PoolBounded)
  BY DEF SpreadInv
<1> QED BY <1>1, LimitsHold, PTL

----------------------------------------------------------------------------
(* The server implements Sessions *)

Down == main.pc \in {"delete", "destroyed"}

LEMMA StageMoves ==
    ASSUME NEW s \in Socks, NEW from, NEW to, Stage(s) = from, Stage(s)' = to,
           \A r \in Socks \ {s} : Stage(r)' = Stage(r), Down' = Down
    PROVE  Life!Move(s, from, to)
<1> DEFINE st == [r \in Socks |-> Stage(r)]
<1>1. st[s] = from
  OBVIOUS
<1>2. st' = [st EXCEPT ![s] = to]
  OBVIOUS
<1> QED BY <1>1, <1>2 DEF Life!Move, Down

(* The events that matter to Sessions; everything else is a stutter.        *)
Visible ==
    \/ AdvertiseConnection \/ HandleConnection \/ HandleDisconnection
    \/ \E t \in Tasks : Erase(t)
    \/ JoinThreads \/ DeleteAll

SameStages == (\A s \in Socks : Stage(s)' = Stage(s)) /\ Down' = Down

LEMMA OthersKeepStages ==
    ASSUME IInv, [Next]_vars, ~Visible
    PROVE  SameStages
<1>T. sock \in [Socks -> SockStates] /\ main \in MainStates /\ listen \in ListenStates
  BY DEF IInv, TypeOK
<1>S. SameSock => \A s \in Socks : Stage(s)' = Stage(s)
  BY DEF SameSock, Stage
<1>1. CASE Peer \/ \E s \in Socks : DisconnectHost(s)
  <2>1. ASSUME NEW s \in Socks, PeerSends(s)
        PROVE  SameSock
    BY <2>1, <1>T DEF PeerSends, SameSock, SockStates
  <2>2. ASSUME NEW s \in Socks, PeerCloses(s) \/ DisconnectHost(s)
        PROVE  SameSock
    BY <2>2, <1>T DEF PeerCloses, DisconnectHost, SameSock, SockStates
  <2>3. main'.pc = main.pc
    BY <1>1, <1>T DEF Peer, PeerSends, PeerCloses, DisconnectHost, MainStates
  <2> QED BY <1>1, <1>S, <2>1, <2>2, <2>3 DEF Peer, SameStages, Down
<1>2. CASE Accept
  <2> DEFINE new == {r \in Socks : sock[r].obj = "none"}
             s == CHOOSE r \in new : TRUE
  <2>1. s \in new
    BY <1>2 DEF Accept
  <2> HIDE DEF s
  <2>2. s \in Socks /\ sock[s].obj = "none" /\ SockGood(s)
    BY <2>1 DEF IInv, SockInv
  <2>3. /\ sock'[s].obj = "alive" /\ sock'[s].know = sock[s].know
        /\ sock'[s].owner = sock[s].owner /\ sock'[s].view = sock[s].view
        /\ \A r \in Socks \ {s} : sock'[r] = sock[r]
    BY <1>2, <1>T, <2>2 DEF Accept, s, SockStates
  <2>4. main' = main
    BY <1>2 DEF Accept
  <2> QED BY <2>2, <2>3, <2>4 DEF SameStages, Stage, Down
<1>3. CASE ListenExits \/ LockPool \/ ScanFill \/ ScanSpread \/ WakeThread
  BY <1>3
     DEF ListenExits, LockPool, ScanFill, ScanSpread, WakeThread, SameStages,
         Stage, Down
<1>4. CASE AddToThread \/ AddNewThread
  <2>1. PICK s \in Socks : s = listen.sock /\ sock[s].know
    BY <1>4 DEF AddToThread, AddNewThread, IInv, ListenInv
  <2>2. /\ sock'[s].obj = sock[s].obj /\ sock'[s].know = sock[s].know
        /\ sock'[s].view = sock[s].view
        /\ \A r \in Socks \ {s} : sock'[r] = sock[r]
    <3>1. CASE AddToThread
      BY <3>1, <1>T, <2>1 DEF AddToThread, SockStates
    <3>2. CASE AddNewThread
      BY <3>2, <1>T, <2>1 DEF AddNewThread, SockStates
    <3> QED BY <1>4, <3>1, <3>2
  <2>3. main' = main
    BY <1>4 DEF AddToThread, AddNewThread
  <2> QED BY <2>1, <2>2, <2>3 DEF SameStages, Stage, Down
<1>5. ASSUME NEW t \in Tasks, ReceiveStep(t) \/ SelectError(t)
      PROVE  SameStages
  <2>1. ASSUME NEW s \in Socks, ReceiveBlock(t, s)
        PROVE  SameSock
    BY <2>1, <1>T DEF ReceiveBlock, SameSock, SockStates
  <2>2. ASSUME NEW s \in Socks, ReceiveEnd(t, s)
        PROVE  SameSock
    BY <2>2, <1>T DEF ReceiveEnd, SameSock, SockStates
  <2>3. ASSUME BeginLoop(t) \/ CopyConnections(t) \/ Select(t) \/ SelectError(t)
               \/ PushUser(t) \/ EndLoop(t)
        PROVE  SameSock
    <3>1. sock' = sock
      BY <2>3
         DEF BeginLoop, CopyConnections, Select, SelectError, PushUser, EndLoop
    <3> QED BY <3>1 DEF SameSock
  <2>4. main' = main
    BY <1>5
       DEF ReceiveStep, BeginLoop, Erase, CopyConnections, Select, SelectError,
           ReceiveBlock, ReceiveEnd, PushUser, EndLoop
  <2> QED BY <1>5, <1>S, <2>1, <2>2, <2>3, <2>4
             DEF ReceiveStep, Visible, SameStages, Down
<1>6. CASE MainStep
  <2>1. ASSUME NEW s \in Socks, VisitBroken(s)
        PROVE  SameStages
    <3>1. sock[s].owner # NULL
      <4>1. s \in task[main.task].conns /\ main.task \in Nat
        BY <2>1, <1>T DEF VisitBroken, IInv, LockInv, MainStates
      <4>2. main.task \in Tasks
        BY <2>1, <4>1, NatFacts DEF VisitBroken, IInv, LockInv, TypeOK, Tasks
      <4> QED BY <4>1, <4>2, NatFacts DEF IInv, TaskInv, TaskGood
    <3>2. /\ sock'[s].obj = sock[s].obj /\ sock'[s].view = sock[s].view
          /\ sock'[s].owner = sock[s].owner
          /\ \A r \in Socks \ {s} : sock'[r] = sock[r]
      BY <2>1, <1>T DEF VisitBroken, SockStates
    <3>3. main'.pc = main.pc
      BY <2>1, <1>T DEF VisitBroken, MainStates
    <3> QED BY <3>1, <3>2, <3>3 DEF SameStages, Stage, Down
  <2>2. ASSUME NEW s \in Socks, VisitSound(s) \/ VisitDisconnect(s)
        PROVE  SameStages
    BY <2>2, <1>S, <1>T
       DEF VisitSound, VisitDisconnect, SameStages, SameSock, Down, SockStates,
           MainStates
  <2>3. CASE NextThread \/ EndThread \/ ConnectionHandled \/ DisconnectionHandled
             \/ AddToRemoveSet \/ WakeOwner \/ JoinListen \/ StopThread
    <3>1. sock' = sock
      BY <2>3
         DEF NextThread, EndThread, ConnectionHandled, DisconnectionHandled,
             AddToRemoveSet, WakeOwner, JoinListen, StopThread
    <3>2. ~Down /\ ~Down'
      <4>0. \A b : MainIdle(b).pc = "idle"
        BY DEF MainIdle
      <4>1. CASE NextThread
        BY <4>0, <4>1, <1>T DEF NextThread, Down, MainStates
      <4>2. CASE EndThread \/ DisconnectionHandled \/ AddToRemoveSet
        BY <4>2, <1>T
           DEF EndThread, DisconnectionHandled, AddToRemoveSet, Down, MainStates
      <4>3. CASE ConnectionHandled \/ WakeOwner
        BY <4>0, <4>3 DEF ConnectionHandled, WakeOwner, Down
      <4>4. CASE JoinListen \/ StopThread
        BY <4>4, <1>T DEF JoinListen, StopThread, Down, MainStates
      <4> QED BY <2>3, <4>1, <4>2, <4>3, <4>4
    <3> QED BY <3>1, <3>2 DEF SameStages, Stage, Down
  <2> QED BY <1>6, <2>1, <2>2, <2>3 DEF MainStep, Visible
<1>7. CASE ReceiveUser \/ BeginWalk("update") \/ BeginWalk("disconnect") \/ BeginDestroy
  <2>1. sock' = sock
    BY <1>7 DEF ReceiveUser, BeginWalk, BeginDestroy
  <2>2. ~Down /\ ~Down'
    BY <1>7, <1>T DEF ReceiveUser, BeginWalk, BeginDestroy, Down, MainStates
  <2> QED BY <2>1, <2>2 DEF SameStages, Stage, Down
<1>8. CASE Destroyed \/ UNCHANGED vars
  BY <1>8 DEF Destroyed, vars, SameStages, Stage, Down
<1> QED BY <1>1, <1>2, <1>3, <1>4, <1>5, <1>6, <1>7, <1>8
           DEF Next, ListenStep, Poll, Visible

LEMMA SessionsStep == IInv /\ [Next]_vars => Life!Next \/ SameStages
<1> SUFFICES ASSUME IInv, [Next]_vars
             PROVE  Life!Next \/ SameStages
  OBVIOUS
<1>T. sock \in [Socks -> SockStates] /\ main \in MainStates
  BY DEF IInv, TypeOK
<1>1. CASE AdvertiseConnection
  <2>1. PICK s \in Socks : /\ s = listen.sock /\ sock[s].obj = "alive"
                           /\ sock[s].owner = NULL /\ ~sock[s].know /\ SockGood(s)
    BY <1>1 DEF AdvertiseConnection, IInv, ListenInv, SockInv
  <2>2. /\ sock'[s].obj = sock[s].obj /\ sock'[s].know /\ sock'[s].view = sock[s].view
        /\ \A r \in Socks \ {s} : sock'[r] = sock[r]
    BY <1>1, <1>T, <2>1 DEF AdvertiseConnection, SockStates
  <2>3. main' = main /\ ~Down
    BY <1>1 DEF AdvertiseConnection, IInv, LockInv, Down
  <2>4. Stage(s) = "absent" /\ Stage(s)' = "pending" /\ \A r \in Socks \ {s} : Stage(r)' = Stage(r)
    BY <2>1, <2>2 DEF Stage, SockGood
  <2>5. Life!Move(s, "absent", "pending")
    BY <2>1, <2>3, <2>4, StageMoves DEF Down
  <2> QED BY <2>1, <2>3, <2>5 DEF Life!Next, Life!Arrive, Down
<1>2. CASE HandleConnection
  <2>1. PICK s \in Socks :
            /\ s = Head(queue).sock /\ sock[s].view = "none" /\ Known(s)
            /\ SockGood(s) /\ sock[s] \in SockStates /\ main.pc = "idle"
    <3> DEFINE s == queue[1].sock
    <3>1. queue # <<>> /\ Head(queue).type = "Connection" /\ main.pc = "idle"
      BY <1>2 DEF HandleConnection, HeadIs
    <3>2. EventGood(1) /\ s \in Socks /\ Head(queue) = queue[1]
      BY <3>1, HeadFacts DEF IInv, EventInv
    <3> QED BY <1>T, <3>1, <3>2 DEF EventGood, IInv, SockInv
  <2>2. /\ sock'[s].obj = sock[s].obj /\ sock'[s].view = "connected"
        /\ \A r \in Socks \ {s} : sock'[r] = sock[r]
    BY <1>2, <1>T, <2>1 DEF HandleConnection, SockStates
  <2>3. main'.pc = "callback"
    BY <1>2, <1>T DEF HandleConnection, MainStates
  <2>4. Stage(s) = "pending" /\ Stage(s)' = "connected" /\ \A r \in Socks \ {s} : Stage(r)' = Stage(r)
    BY <2>1, <2>2 DEF Stage, SockGood, Known
  <2>5. Life!Move(s, "pending", "connected")
    BY <2>1, <2>3, <2>4, StageMoves DEF Down
  <2> QED BY <2>1, <2>5 DEF Life!Next, Life!Connect
<1>3. CASE HandleDisconnection
  <2>1. PICK s \in Socks : /\ s = Head(queue).sock /\ main.pc = "idle"
                           /\ sock[s].view = "connected" /\ sock[s].obj = "alive"
    BY <1>3, DisconnectionAtHead, HeadFacts DEF HandleDisconnection, HeadIs, IInv
  <2>2. /\ sock'[s].obj = sock[s].obj /\ sock'[s].view = "closed"
        /\ \A r \in Socks \ {s} : sock'[r] = sock[r]
    BY <1>3, <1>T, <2>1 DEF HandleDisconnection, SockStates
  <2>3. main'.pc = "callback"
    BY <1>3, <1>T DEF HandleDisconnection, MainStates
  <2>4. Stage(s) = "connected" /\ Stage(s)' = "closed" /\ \A r \in Socks \ {s} : Stage(r)' = Stage(r)
    BY <2>1, <2>2 DEF Stage
  <2>5. Life!Move(s, "connected", "closed")
    BY <2>1, <2>3, <2>4, StageMoves DEF Down
  <2> QED BY <2>1, <2>5 DEF Life!Next, Life!Disconnect
<1>4. ASSUME NEW t \in Tasks, Erase(t)
      PROVE  Life!Next \/ SameStages
  <2> DEFINE S == task[t].remove
             new(s) == [sock[s] EXCEPT !.obj = "deleted"]
  <2>1. S \in SUBSET Socks /\ \A s \in S : sock[s].obj = "alive" /\ sock[s].view = "closed"
    BY DEF IInv, TypeOK, TaskStates, TaskInv, TaskGood
  <2>2. \A s \in Socks : /\ s \in S => sock'[s].obj = "deleted"
                         /\ s \notin S => sock'[s] = sock[s]
    BY <1>4, <1>T DEF Erase, SockStates
  <2>3. Down' = Down
    BY <1>4 DEF Erase, Down
  <2> HIDE DEF S
  <2>4. /\ \A s \in S : Stage(s) = "closed" /\ Stage(s)' = "freed"
        /\ \A s \in Socks \ S : Stage(s)' = Stage(s)
    BY <2>1, <2>2 DEF Stage
  <2>5. CASE S = {}
    BY <2>3, <2>4, <2>5 DEF SameStages
  <2>6. CASE S # {}
    <3>1. Life!Free(S)
      BY <2>1, <2>3, <2>4, <2>6 DEF Life!Free, Down
    <3> QED BY <2>1, <3>1 DEF Life!Next
  <2> QED BY <2>5, <2>6
<1>5. CASE JoinThreads
  <2>1. ~Down /\ Down' /\ sock' = sock
    BY <1>5, <1>T DEF JoinThreads, Down, MainStates
  <2>2. Life!GoDown
    BY <2>1 DEF Life!GoDown, Down, Stage
  <2> QED BY <2>2 DEF Life!Next
<1>6. CASE DeleteAll
  <2> DEFINE S == UNION {task[t].conns : t \in 1 .. pool}
  <2>1. S \in SUBSET Socks /\ \A s \in S : sock[s].obj = "alive" /\ sock[s].owner # NULL
    <3> SUFFICES ASSUME NEW t \in 1 .. pool, NEW s \in task[t].conns
                 PROVE  s \in Socks /\ sock[s].obj = "alive" /\ sock[s].owner # NULL
      OBVIOUS
    <3>1. t \in Tasks
      BY NatFacts DEF IInv, TypeOK, Tasks
    <3> QED BY <3>1, NatFacts DEF IInv, TypeOK, TaskStates, TaskInv, TaskGood
  <2>2. sock' = [s \in Socks |-> IF s \in S THEN [sock[s] EXCEPT !.obj = "deleted"] ELSE sock[s]]
    BY <1>6 DEF DeleteAll
  <2>3. Down /\ Down'
    BY <1>6, <1>T DEF DeleteAll, Down, MainStates
  <2> HIDE DEF S
  <2>4. \A s \in Socks : /\ s \in S => sock'[s].obj = "deleted"
                         /\ s \notin S => sock'[s] = sock[s]
    BY <1>T, <2>2 DEF SockStates
  <2>5. /\ \A s \in S : Stage(s) \notin {"absent", "freed"} /\ Stage(s)' = "freed"
        /\ \A s \in Socks \ S : Stage(s)' = Stage(s)
    BY <1>T, <2>1, <2>4 DEF Stage, SockStates
  <2>6. Life!FreeAtEnd(S)
    BY <2>1, <2>3, <2>5 DEF Life!FreeAtEnd, Down
  <2> QED BY <2>1, <2>6 DEF Life!Next
<1> QED BY <1>1, <1>2, <1>3, <1>4, <1>5, <1>6, OthersKeepStages DEF Visible

(* A connection is announced, closed and deleted in this order, each once,  *)
(* and it is not deleted before the disconnection callback has returned,    *)
(* but by the destructor: SessionsSpec.                                     *)
THEOREM ImplementsSessions == Spec => SessionsSpec
<1>1. Init => Life!Init
  BY DEF Init, Life!Init, Stage, MainIdle
<1>2. IInv /\ [Next]_vars =>
         [Life!Next]_<<[s \in Socks |-> Stage(s)], main.pc \in {"delete", "destroyed"}>>
  BY SessionsStep DEF SameStages, Down
<1> QED BY <1>1, <1>2, InvariantHolds, PTL DEF Spec, SessionsSpec, Life!Spec

----------------------------------------------------------------------------
(* Nothing of a deleted object is left in the queue *)

(* Flushes do not fail, and the application disconnects nobody.             *)
Orderly == ~FlushFails /\ MaxDisconnects = 0

(* The disconnection is the last event of a connection.                     *)
EndGood(i) ==
    queue[i].type = "Disconnection" =>
        /\ ~sock[queue[i].sock].phys
        /\ \A j \in Positions : queue[j].sock = queue[i].sock => j <= i

(* Only the event that is about to be extracted may be about a deleted      *)
(* object.                                                                  *)
GoneGood(i) ==
    sock[queue[i].sock].obj = "deleted" => i = 1 /\ main.pc = "wake"

RemoveGood(t) ==
    \A s \in task[t].remove :
        /\ ~sock[s].phys
        /\ \A i \in Positions : queue[i].sock = s => i = 1 /\ main.pc = "wake"

(* What a receive thread still has to read is connected.                    *)
ReadGood(t) ==
    /\ task[t].pc = "select" => \A s \in task[t].copy : sock[s].phys
    /\ task[t].pc \in {"receive", "push"} => \A s \in task[t].ready : sock[s].phys
    /\ task[t].pc = "push" => sock[task[t].cur].phys

QueueOrderly ==
    /\ \A i \in Positions : EndGood(i) /\ GoneGood(i)
    /\ \A t \in Tasks : RemoveGood(t)

OrderInv == Orderly => /\ main.op = "update"
                       /\ QueueOrderly
                       /\ \A t \in Tasks : ReadGood(t)

(* Steps that change nothing of all this *)
SameLife == \A s \in Socks : sock'[s].phys = sock[s].phys /\ sock'[s].obj = sock[s].obj

SameReads == \A t \in Tasks :
    /\ task'[t].remove = task[t].remove /\ task'[t].pc = task[t].pc
    /\ task'[t].copy = task[t].copy /\ task'[t].ready = task[t].ready
    /\ task'[t].cur = task[t].cur

LEMMA ReadsFrame ==
    ASSUME IInv, SameLife, SameReads, \A t \in Tasks : ReadGood(t)
    PROVE  \A t \in Tasks : ReadGood(t)'
<1> SUFFICES ASSUME NEW t \in Tasks
             PROVE  ReadGood(t)'
  OBVIOUS
<1>1. /\ ReadGood(t)
      /\ task[t].copy \subseteq Socks /\ task[t].ready \subseteq Socks
      /\ task[t].pc = "push" => task[t].cur \in Socks
  BY DEF IInv, TypeOK, TaskStates, TaskInv, TaskGood
<1> QED BY <1>1 DEF ReadGood, SameLife, SameReads

LEMMA QueueFrame ==
    ASSUME IInv, QueueOrderly, SameLife, queue' = queue,
           \A t \in Tasks : task'[t].remove = task[t].remove,
           main.pc = "wake" => main'.pc = "wake"
    PROVE  QueueOrderly'
<1>1. \A i \in Positions : queue[i].sock \in Socks /\ EndGood(i) /\ GoneGood(i)
  BY EventFacts DEF IInv, QueueOrderly
<1>2. \A t \in Tasks : task[t].remove \subseteq Socks /\ RemoveGood(t)
  BY DEF IInv, TypeOK, TaskStates, QueueOrderly
<1>3. \A i \in Positions' : EndGood(i)' /\ GoneGood(i)'
  BY <1>1 DEF EndGood, GoneGood, SameLife, Positions
<1>4. \A t \in Tasks : RemoveGood(t)'
  BY <1>2 DEF RemoveGood, SameLife, Positions
<1> QED BY <1>3, <1>4 DEF QueueOrderly

LEMMA OrderFrame ==
    ASSUME IInv, OrderInv, SameLife, SameReads, queue' = queue,
           main.pc = "wake" => main'.pc = "wake", Orderly => main'.op = "update"
    PROVE  OrderInv'
BY QueueFrame, ReadsFrame DEF OrderInv, SameReads, Orderly

(* One receive thread goes on with its reading. *)
LEMMA ReaderFrame ==
    ASSUME IInv, OrderInv, NEW t \in Tasks, task'[t].remove = task[t].remove,
           \A u \in Tasks \ {t} : task'[u] = task[u],
           SameLife, Orderly => ReadGood(t)', UNCHANGED <<main, queue>>
    PROVE  OrderInv'
<1> SUFFICES ASSUME Orderly
             PROVE  OrderInv'
  BY DEF OrderInv, Orderly
<1>1. \A u \in Tasks : task'[u].remove = task[u].remove
  OBVIOUS
<1>2. QueueOrderly'
  BY <1>1, QueueFrame DEF OrderInv
<1>3. ASSUME NEW u \in Tasks, u # t
      PROVE  ReadGood(u)'
  <2>1. /\ ReadGood(u) /\ task'[u] = task[u]
        /\ task[u].copy \subseteq Socks /\ task[u].ready \subseteq Socks
        /\ task[u].pc = "push" => task[u].cur \in Socks
    BY <1>3 DEF IInv, TypeOK, TaskStates, TaskInv, TaskGood, OrderInv
  <2> QED BY <2>1 DEF ReadGood, SameLife
<1> QED BY <1>2, <1>3 DEF OrderInv

(* An event of a connection that is not disconnected is added. *)
LEMMA PushFrame ==
    ASSUME IInv, QueueOrderly, SameLife, NEW s \in Socks, NEW ty \in EventTypes, Push(s, ty),
           \A t \in Tasks : task'[t].remove = task[t].remove /\ s \notin task[t].remove,
           main'.pc = main.pc, sock[s].obj # "deleted",
           ty = "Disconnection" => ~sock[s].phys,
           \A i \in Positions : queue[i].sock = s => queue[i].type # "Disconnection"
    PROVE  QueueOrderly'
<1> DEFINE n == Len(queue)
<1>1. /\ n \in Nat /\ Len(queue') = n + 1
      /\ queue'[n + 1].sock = s /\ queue'[n + 1].type = ty
      /\ \A i \in 1 .. n : queue'[i] = queue[i]
  BY Pushed DEF IInv
<1> HIDE DEF n
<1>2. Positions' = 1 .. n + 1 /\ Positions = 1 .. n
  BY <1>1 DEF Positions, n
<1>3. \A i \in Positions : queue[i].sock \in Socks /\ EndGood(i) /\ GoneGood(i)
  BY EventFacts DEF IInv, QueueOrderly
<1>4. ASSUME NEW i \in Positions'
      PROVE  EndGood(i)' /\ GoneGood(i)'
  <2>1. CASE i \in 1 .. n
    BY <1>1, <1>2, <1>3, <2>1 DEF EndGood, GoneGood, SameLife
  <2>2. CASE i = n + 1
    BY <1>1, <1>2, <2>2 DEF EndGood, GoneGood, SameLife
  <2> QED BY <1>1, <1>2, <2>1, <2>2
<1>5. ASSUME NEW t \in Tasks
      PROVE  RemoveGood(t)'
  <2>1. task[t].remove \subseteq Socks /\ RemoveGood(t)
    BY DEF IInv, TypeOK, TaskStates, QueueOrderly
  <2> QED BY <1>1, <1>2, <2>1 DEF RemoveGood, SameLife
<1> QED BY <1>4, <1>5 DEF QueueOrderly

(* The first event is extracted. *)
LEMMA PopFrame ==
    ASSUME IInv, QueueOrderly, SameLife, queue # <<>>, Pop,
           \A t \in Tasks : task'[t].remove = task[t].remove
    PROVE  QueueOrderly'
<1> DEFINE n == Len(queue)
<1>1. /\ n \in Nat \ {0} /\ Len(queue') = n - 1
      /\ \A i \in 1 .. n - 1 : queue'[i] = queue[i + 1]
  BY Popped DEF IInv
<1> HIDE DEF n
<1>2. Positions' = 1 .. n - 1 /\ Positions = 1 .. n
  BY <1>1 DEF Positions, n
<1>3. \A i \in Positions : queue[i].sock \in Socks /\ EndGood(i) /\ GoneGood(i)
  BY EventFacts DEF IInv, QueueOrderly
<1>4. ASSUME NEW i \in Positions'
      PROVE  EndGood(i)' /\ GoneGood(i)'
  <2>1. i + 1 \in Positions /\ queue'[i] = queue[i + 1] /\ i + 1 # 1
    BY <1>1, <1>2
  <2>2. queue[i + 1].sock \in Socks /\ EndGood(i + 1) /\ GoneGood(i + 1)
    BY <1>3, <2>1
  <2>3. \A j \in Positions' : j + 1 \in Positions /\ queue'[j] = queue[j + 1] /\ j \in Nat
    BY <1>1, <1>2
  <2>4. EndGood(i)'
    BY <2>1, <2>2, <2>3 DEF EndGood, SameLife
  <2>5. GoneGood(i)'
    BY <2>1, <2>2 DEF GoneGood, SameLife
  <2> QED BY <2>4, <2>5
<1>5. ASSUME NEW t \in Tasks
      PROVE  RemoveGood(t)'
  <2>1. task[t].remove \subseteq Socks /\ RemoveGood(t)
    BY DEF IInv, TypeOK, TaskStates, QueueOrderly
  <2>2. ASSUME NEW s \in task'[t].remove
        PROVE  /\ ~sock'[s].phys
               /\ \A i \in Positions' : queue'[i].sock = s => i = 1 /\ main'.pc = "wake"
    <3>1. s \in task[t].remove /\ s \in Socks
      BY <2>1
    <3>2. /\ ~sock[s].phys
          /\ \A i \in Positions : queue[i].sock = s => i = 1 /\ main.pc = "wake"
      BY <2>1, <3>1 DEF RemoveGood
    <3>3. ASSUME NEW i \in Positions', queue'[i].sock = s PROVE FALSE
      <4>1. i + 1 \in Positions /\ queue'[i] = queue[i + 1] /\ i + 1 # 1
        BY <1>1, <1>2
      <4> QED BY <3>2, <3>3, <4>1
    <3> QED BY <3>1, <3>2, <3>3 DEF SameLife
  <2> QED BY <2>2 DEF RemoveGood
<1> QED BY <1>4, <1>5 DEF QueueOrderly

LEMMA OrderIdleSteps ==
    ASSUME IInv, OrderInv,
           \/ \E s \in Socks : \/ PeerSends(s) \/ PeerCloses(s) \/ DisconnectHost(s)
                               \/ VisitSound(s) \/ VisitDisconnect(s)
           \/ ListenExits \/ LockPool \/ ScanFill \/ ScanSpread \/ AddToThread \/ WakeThread
           \/ BeginWalk("update") \/ BeginWalk("disconnect") \/ NextThread \/ EndThread
           \/ HandleConnection \/ HandleDisconnection \/ DisconnectionHandled
           \/ BeginDestroy \/ JoinListen \/ StopThread \/ JoinThreads
           \/ UNCHANGED vars
    PROVE  OrderInv'
<1> SUFFICES ASSUME Orderly
             PROVE  OrderInv'
  BY DEF OrderInv, Orderly
<1>T. /\ sock \in [Socks -> SockStates] /\ task \in [Tasks -> TaskStates]
      /\ main \in MainStates /\ main.budget = 0 /\ main.op = "update"
  BY DEF IInv, TypeOK, MainStates, OrderInv, Orderly
<1>S. sock' = sock => SameLife
  BY DEF SameLife
<1>R. task' = task => SameReads
  BY DEF SameReads
<1>1. ASSUME NEW s \in Socks, PeerSends(s)
      PROVE  OrderInv'
  <2>1. SameLife /\ UNCHANGED <<task, main, queue>>
    BY <1>1, <1>T DEF PeerSends, SameLife, SockStates
  <2> QED BY <1>T, <1>R, <2>1, OrderFrame
<1>2. ASSUME NEW s \in Socks, PeerCloses(s)
      PROVE  OrderInv'
  <2>1. SameLife /\ UNCHANGED <<task, main, queue>>
    BY <1>2, <1>T DEF PeerCloses, SameLife, SockStates
  <2> QED BY <1>T, <1>R, <2>1, OrderFrame
<1>3. ASSUME NEW s \in Socks, DisconnectHost(s) \/ VisitDisconnect(s)
      PROVE  FALSE
  BY <1>3, <1>T DEF DisconnectHost, VisitDisconnect
<1>4. ASSUME NEW s \in Socks, VisitSound(s)
      PROVE  OrderInv'
  <2>1. /\ UNCHANGED <<sock, task, queue>> /\ main.pc = "visit" /\ main'.op = "update"
    BY <1>4, <1>T DEF VisitSound, MainStates
  <2> QED BY <1>S, <1>R, <2>1, OrderFrame
<1>5. CASE ListenExits \/ LockPool \/ ScanFill \/ ScanSpread
  <2>1. UNCHANGED <<sock, task, main, queue>>
    BY <1>5 DEF ListenExits, LockPool, ScanFill, ScanSpread
  <2> QED BY <1>S, <1>R, <1>T, <2>1, OrderFrame
<1>6. CASE AddToThread
  <2>1. SameLife
    BY <1>6, <1>T DEF AddToThread, SameLife, SockStates
  <2>2. SameReads /\ UNCHANGED <<main, queue>>
    BY <1>6, <1>T DEF AddToThread, SameReads, TaskStates
  <2> QED BY <1>T, <2>1, <2>2, OrderFrame
<1>7. CASE WakeThread
  <2>1. SameReads /\ UNCHANGED <<sock, main, queue>>
    BY <1>7, <1>T DEF WakeThread, SameReads, TaskStates
  <2> QED BY <1>S, <1>T, <2>1, OrderFrame
<1>8. CASE BeginWalk("update") \/ BeginWalk("disconnect")
  <2>1. BeginWalk("update")
    BY <1>8, <1>T DEF BeginWalk
  <2>2. /\ UNCHANGED <<sock, task, queue>> /\ main.pc = "idle" /\ main'.op = "update"
    BY <2>1, <1>T DEF BeginWalk, MainStates
  <2> QED BY <1>S, <1>R, <2>2, OrderFrame
<1>9. CASE NextThread
  <2>1. /\ UNCHANGED <<sock, task, queue>> /\ main.pc = "threads" /\ main'.op = "update"
    <3>1. \A b : MainIdle(b).op = "update"
      BY DEF MainIdle
    <3> QED BY <1>9, <1>T, <3>1 DEF NextThread, MainStates
  <2> QED BY <1>S, <1>R, <2>1, OrderFrame
<1>10. CASE EndThread \/ DisconnectionHandled \/ BeginDestroy \/ JoinListen \/ JoinThreads
  <2>1. UNCHANGED <<sock, task, queue>> /\ main.pc # "wake"
    BY <1>10
       DEF EndThread, DisconnectionHandled, BeginDestroy, JoinListen, JoinThreads
  <2>2. main'.op = "update"
    BY <1>10, <1>T
       DEF EndThread, DisconnectionHandled, BeginDestroy, JoinListen, JoinThreads,
                       MainStates
  <2> QED BY <1>S, <1>R, <2>1, <2>2, OrderFrame
<1>11. CASE HandleConnection \/ HandleDisconnection
  <2>1. UNCHANGED <<task, queue>> /\ main.pc = "idle"
    BY <1>11 DEF HandleConnection, HandleDisconnection
  <2>2. main'.op = "update"
    BY <1>11, <1>T DEF HandleConnection, HandleDisconnection, MainStates
  <2>3. SameLife
    <3>1. CASE HandleConnection
      BY <3>1, <1>T DEF HandleConnection, SameLife, SockStates
    <3>2. CASE HandleDisconnection
      BY <3>2, <1>T DEF HandleDisconnection, SameLife, SockStates
    <3> QED BY <1>11, <3>1, <3>2
  <2> QED BY <1>R, <2>1, <2>2, <2>3, OrderFrame
<1>12. CASE StopThread
  <2>1. UNCHANGED <<sock, queue>> /\ main.pc = "stop" /\ main'.op = "update"
    BY <1>12, <1>T DEF StopThread, MainStates
  <2>2. SameReads
    BY <1>12, <1>T DEF StopThread, SameReads, TaskStates
  <2> QED BY <1>S, <2>1, <2>2, OrderFrame
<1>13. CASE UNCHANGED vars
  <2>1. UNCHANGED <<sock, task, main, queue>>
    BY <1>13 DEF vars
  <2> QED BY <1>S, <1>R, <1>T, <2>1, OrderFrame
<1> QED BY <1>1, <1>2, <1>3, <1>4, <1>5, <1>6, <1>7, <1>8, <1>9, <1>10, <1>11,
           <1>12, <1>13

LEMMA OrderReaderSteps ==
    ASSUME IInv, OrderInv, NEW t \in Tasks,
           \/ BeginLoop(t) \/ CopyConnections(t) \/ Select(t) \/ SelectError(t) \/ EndLoop(t)
           \/ \E s \in Socks : ReceiveBlock(t, s)
    PROVE  OrderInv'
<1>T. /\ sock \in [Socks -> SockStates] /\ task \in [Tasks -> TaskStates]
      /\ task[t] \in TaskStates
  BY DEF IInv, TypeOK
<1>G. Orderly => ReadGood(t)
  BY DEF OrderInv
<1>1. CASE BeginLoop(t)
  <2>1. /\ \A u \in Tasks \ {t} : task'[u] = task[u]
        /\ task'[t].remove = task[t].remove
        /\ task'[t].pc \notin {"select", "receive", "push"}
        /\ UNCHANGED <<sock, main, queue>>
    BY <1>1, <1>T DEF BeginLoop, TaskStates
  <2> QED BY <2>1, ReaderFrame DEF SameLife, ReadGood
<1>2. CASE CopyConnections(t)
  <2>1. /\ \A u \in Tasks \ {t} : task'[u] = task[u]
        /\ task'[t].remove = task[t].remove /\ task'[t].pc = "select"
        /\ task'[t].copy = {s \in task[t].conns : sock[s].phys}
        /\ UNCHANGED <<sock, main, queue>>
    BY <1>2, <1>T DEF CopyConnections, TaskStates
  <2> QED BY <2>1, ReaderFrame DEF SameLife, ReadGood
<1>3. CASE Select(t)
  <2>1. /\ \A u \in Tasks \ {t} : task'[u] = task[u]
        /\ task'[t].remove = task[t].remove /\ task[t].pc = "select"
        /\ task'[t].pc = "receive" /\ task'[t].ready \subseteq task[t].copy
        /\ UNCHANGED <<sock, main, queue>>
    BY <1>3, <1>T DEF Select, TaskStates
  <2> QED BY <1>G, <2>1, ReaderFrame DEF SameLife, ReadGood
<1>4. CASE SelectError(t) \/ EndLoop(t)
  <2>1. /\ \A u \in Tasks \ {t} : task'[u] = task[u]
        /\ task'[t].remove = task[t].remove
        /\ task'[t].pc \notin {"select", "receive", "push"}
        /\ UNCHANGED <<sock, main, queue>>
    <3>1. CASE SelectError(t)
      BY <3>1, <1>T DEF SelectError, TaskStates
    <3>2. CASE EndLoop(t)
      BY <3>2, <1>T DEF EndLoop, TaskStates
    <3> QED BY <1>4, <3>1, <3>2
  <2> QED BY <2>1, ReaderFrame DEF SameLife, ReadGood
<1>5. ASSUME NEW s \in Socks, ReceiveBlock(t, s)
      PROVE  OrderInv'
  <2>1. /\ \A u \in Tasks \ {t} : task'[u] = task[u]
        /\ task'[t].remove = task[t].remove /\ task[t].pc = "receive"
        /\ s \in task[t].ready
        /\ task'[t].pc = "push" /\ task'[t].cur = s
        /\ task'[t].ready \subseteq task[t].ready
        /\ UNCHANGED <<main, queue>>
    BY <1>5, <1>T DEF ReceiveBlock, TaskStates
  <2>2. SameLife
    <3>1. sock' = [sock EXCEPT ![s].inbox = @ - 1]
      BY <1>5 DEF ReceiveBlock
    <3> QED BY <1>T, <3>1 DEF SameLife, SockStates
  <2>3. task[t].ready \subseteq Socks
    BY <1>T DEF TaskStates
  <2> QED BY <1>G, <2>1, <2>2, <2>3, ReaderFrame DEF SameLife, ReadGood
<1> QED BY <1>1, <1>2, <1>3, <1>4, <1>5

LEMMA OrderPushSteps ==
    ASSUME IInv, OrderInv,
           \/ AdvertiseConnection \/ \E t \in Tasks : PushUser(t)
           \/ \E s \in Socks : VisitBroken(s)
    PROVE  OrderInv'
<1> SUFFICES ASSUME Orderly
             PROVE  OrderInv'
  BY DEF OrderInv, Orderly
<1>T. /\ sock \in [Socks -> SockStates] /\ task \in [Tasks -> TaskStates]
      /\ main \in MainStates /\ main.op = "update"
  BY DEF IInv, TypeOK, OrderInv
<1>Q. QueueOrderly /\ \A t \in Tasks : ReadGood(t) /\ TaskGood(t) /\ RemoveGood(t)
  BY DEF OrderInv, QueueOrderly, IInv, TaskInv
<1>E. \A i \in Positions : EventGood(i) /\ EndGood(i)
  BY <1>Q DEF IInv, EventInv, QueueOrderly
<1>R. task' = task => SameReads
  BY DEF SameReads
<1>1. CASE AdvertiseConnection
  <2>1. PICK s \in Socks : /\ s = listen.sock /\ sock[s].obj = "alive"
                           /\ sock[s].owner = NULL
    BY <1>1 DEF AdvertiseConnection, IInv, ListenInv
  <2>2. SameLife /\ Push(s, "Connection") /\ UNCHANGED <<task, main>>
    BY <1>1, <1>T, <2>1 DEF AdvertiseConnection, SameLife, SockStates
  <2>3. \A t \in Tasks : s \notin task[t].remove
    BY <1>Q, <2>1, NatFacts DEF TaskGood
  <2>4. \A i \in Positions : queue[i].sock = s => queue[i].type # "Disconnection"
    BY <1>E, <2>1 DEF EventGood
  <2>5. QueueOrderly'
    BY <1>Q, <2>1, <2>2, <2>3, <2>4, PushFrame DEF EventTypes
  <2> QED BY <1>Q, <1>R, <1>T, <2>2, <2>5, ReadsFrame DEF OrderInv
<1>2. ASSUME NEW t \in Tasks, PushUser(t)
      PROVE  OrderInv'
  <2>1. /\ task[t].pc = "push" /\ Push(task[t].cur, "User") /\ UNCHANGED <<sock, main>>
        /\ task'[t].pc = "receive" /\ task'[t].ready = task[t].ready
        /\ task'[t].remove = task[t].remove
        /\ \A u \in Tasks \ {t} : task'[u] = task[u]
    BY <1>2, <1>T DEF PushUser, TaskStates
  <2>2. PICK s \in Socks : s = task[t].cur /\ sock[s].phys /\ sock[s].obj = "alive"
    BY <1>Q, <1>T, <2>1 DEF TaskGood, TaskStates, ReadGood
  <2>3. \A u \in Tasks : task'[u].remove = task[u].remove /\ s \notin task[u].remove
    BY <1>Q, <2>1, <2>2 DEF RemoveGood
  <2>4. \A i \in Positions : queue[i].sock = s => queue[i].type # "Disconnection"
    BY <1>E, <2>2 DEF EndGood
  <2>5. QueueOrderly'
    BY <1>Q, <2>1, <2>2, <2>3, <2>4, PushFrame DEF EventTypes, SameLife
  <2>6. ASSUME NEW u \in Tasks
        PROVE  ReadGood(u)'
    <3>1. ReadGood(u)
      BY <1>Q
    <3>2. CASE u = t
      BY <2>1, <3>1, <3>2 DEF ReadGood
    <3>3. CASE u # t
      BY <2>1, <3>1, <3>3 DEF ReadGood
    <3> QED BY <3>2, <3>3
  <2> QED BY <1>T, <2>1, <2>5, <2>6 DEF OrderInv
<1>3. ASSUME NEW s \in Socks, VisitBroken(s)
      PROVE  OrderInv'
  <2>1. /\ UNCHANGED task /\ main'.pc = main.pc /\ main'.op = main.op /\ main.pc = "visit"
        /\ ~sock[s].phys /\ SameLife
    <3>1. ~sock[s].phys /\ UNCHANGED task /\ main.pc = "visit"
      BY <1>3 DEF VisitBroken, Broken, Orderly
    <3>2. main'.pc = main.pc /\ main'.op = main.op
      BY <1>3, <1>T DEF VisitBroken, MainStates
    <3>3. SameLife
      BY <1>3, <1>T DEF VisitBroken, SameLife, SockStates
    <3> QED BY <3>1, <3>2, <3>3
  <2>2. CASE ~sock[s].know
    <3>1. queue' = queue
      BY <1>3, <2>2 DEF VisitBroken
    <3> QED BY <1>R, <1>T, <2>1, <3>1, OrderFrame
  <2>3. CASE sock[s].know
    <3>1. Push(s, "Disconnection")
      BY <1>3, <2>3 DEF VisitBroken
    <3>2. sock[s].obj # "deleted"
      BY <2>1, <2>3 DEF IInv, SockInv, SockGood
    <3>3. \A t \in Tasks : s \notin task[t].remove
      BY <1>Q, <2>3 DEF TaskGood
    <3>4. \A i \in Positions : queue[i].sock = s => queue[i].type # "Disconnection"
      BY <1>E, <2>3 DEF EventGood
    <3>5. QueueOrderly'
      BY <1>Q, <2>1, <3>1, <3>2, <3>3, <3>4, PushFrame DEF EventTypes
    <3> QED BY <1>Q, <1>R, <1>T, <2>1, <3>5, ReadsFrame DEF OrderInv
  <2> QED BY <2>2, <2>3
<1> QED BY <1>1, <1>2, <1>3

LEMMA OrderPopSteps ==
    ASSUME IInv, OrderInv, ConnectionHandled \/ WakeOwner \/ ReceiveUser
    PROVE  OrderInv'
<1> SUFFICES ASSUME Orderly
             PROVE  OrderInv'
  BY DEF OrderInv, Orderly
<1>1. queue # <<>> /\ Pop /\ UNCHANGED sock
  BY DEF ConnectionHandled, WakeOwner, ReceiveUser, HeadIs, IInv, HandlingInv
<1>2. main'.op = "update"
  <2>1. \A b : MainIdle(b).op = "update"
    BY DEF MainIdle
  <2> QED BY <2>1 DEF ConnectionHandled, WakeOwner, ReceiveUser, OrderInv
<1>3. SameReads
  <2>1. task \in [Tasks -> TaskStates]
    BY DEF IInv, TypeOK
  <2> QED BY <2>1
             DEF ConnectionHandled, WakeOwner, ReceiveUser, SameReads, TaskStates
<1>4. QueueOrderly'
  BY <1>1, <1>3, PopFrame DEF OrderInv, SameLife, SameReads
<1> QED BY <1>1, <1>2, <1>3, <1>4, ReadsFrame DEF OrderInv, SameLife

LEMMA OrderOtherSteps ==
    ASSUME IInv, OrderInv,
           \/ Accept \/ AddNewThread
           \/ \E t \in Tasks : Erase(t) \/ \E s \in Socks : ReceiveEnd(t, s)
           \/ AddToRemoveSet \/ DeleteAll
    PROVE  OrderInv'
<1> SUFFICES ASSUME Orderly
             PROVE  OrderInv'
  BY DEF OrderInv, Orderly
<1>T. /\ sock \in [Socks -> SockStates] /\ task \in [Tasks -> TaskStates]
      /\ main \in MainStates /\ main.op = "update"
  BY DEF IInv, TypeOK, OrderInv
<1>Q. QueueOrderly /\ \A t \in Tasks : ReadGood(t) /\ TaskGood(t) /\ RemoveGood(t)
  BY DEF OrderInv, QueueOrderly, IInv, TaskInv
<1>E. \A i \in Positions : /\ EventGood(i) /\ EndGood(i) /\ GoneGood(i)
                           /\ i \in Nat /\ i >= 1 /\ queue[i].sock \in Socks
  BY <1>Q, EventFacts DEF IInv, EventInv, QueueOrderly, Positions
<1>U. \A t \in Tasks : /\ task[t].conns \subseteq Socks /\ task[t].remove \subseteq Socks
                       /\ task[t].copy \subseteq Socks /\ task[t].ready \subseteq Socks
                       /\ task[t].pc = "push" => task[t].cur \in Socks
  BY <1>T, <1>Q DEF TaskStates, TaskGood
<1>1. CASE Accept
  <2>1. PICK s \in Socks :
            /\ sock[s].obj = "none" /\ sock'[s].phys /\ sock'[s].obj = "alive"
            /\ \A r \in Socks \ {s} : sock'[r] = sock[r]
    <3> DEFINE new == {r \in Socks : sock[r].obj = "none"}
               s == CHOOSE r \in new : TRUE
    <3>1. s \in new
      BY <1>1 DEF Accept
    <3>2. sock' = [sock EXCEPT ![s].obj = "alive", ![s].phys = TRUE, ![s].open = TRUE]
      BY <1>1 DEF Accept
    <3> HIDE DEF s
    <3> QED BY <1>T, <3>1, <3>2 DEF SockStates
  <2>2. UNCHANGED <<task, main, queue>>
    BY <1>1 DEF Accept
  <2>3. SockGood(s)
    BY DEF IInv, SockInv
  <2>4. \A i \in Positions : queue[i].sock # s
    BY <1>E, <2>1, <2>3 DEF EventGood, SockGood
  <2>5. \A i \in Positions' : EndGood(i)' /\ GoneGood(i)'
    BY <1>E, <2>1, <2>2, <2>4 DEF EndGood, GoneGood, Positions
  <2>6. \A t \in Tasks : RemoveGood(t)'
    BY <1>Q, <1>U, <2>1, <2>2 DEF RemoveGood, TaskGood, Positions
  <2>7. \A t \in Tasks : ReadGood(t)'
    BY <1>Q, <1>U, <2>1, <2>2 DEF ReadGood
  <2> QED BY <1>T, <2>2, <2>5, <2>6, <2>7 DEF OrderInv, QueueOrderly
<1>2. CASE AddNewThread
  <2>1. SameLife
    BY <1>2, <1>T DEF AddNewThread, SameLife, SockStates
  <2>2. /\ UNCHANGED <<main, queue>>
        /\ \A t \in Tasks : /\ task'[t].remove = task[t].remove
                            /\ task'[t].pc = "clear" \/ task'[t] = task[t]
    BY <1>2, <1>T DEF AddNewThread, TaskStates
  <2>3. QueueOrderly'
    BY <1>Q, <2>1, <2>2, QueueFrame
  <2>4. \A t \in Tasks : ReadGood(t)'
    BY <1>Q, <1>U, <2>1, <2>2 DEF ReadGood, SameLife
  <2> QED BY <1>T, <2>2, <2>3, <2>4 DEF OrderInv
<1>3. ASSUME NEW t \in Tasks, Erase(t)
      PROVE  OrderInv'
  <2>1. /\ UNCHANGED <<main, queue>> /\ task'[t].remove = {} /\ task'[t].pc = "copy"
        /\ \A u \in Tasks \ {t} : task'[u] = task[u]
    BY <1>3, <1>T DEF Erase, TaskStates
  <2>2. \A s \in Socks : /\ sock'[s].phys = sock[s].phys
                         /\ s \notin task[t].remove => sock'[s].obj = sock[s].obj
    BY <1>3, <1>T DEF Erase, SockStates
  <2>3. \A i \in Positions : queue[i].sock \in task[t].remove => i = 1 /\ main.pc = "wake"
    BY <1>Q DEF RemoveGood
  <2>4. \A i \in Positions' : EndGood(i)' /\ GoneGood(i)'
    BY <1>E, <2>1, <2>2, <2>3 DEF EndGood, GoneGood, Positions
  <2>5. \A u \in Tasks : RemoveGood(u)'
    BY <1>Q, <1>U, <2>1, <2>2 DEF RemoveGood, Positions
  <2>6. \A u \in Tasks : ReadGood(u)'
    BY <1>Q, <1>U, <2>1, <2>2 DEF ReadGood
  <2> QED BY <1>T, <2>1, <2>4, <2>5, <2>6 DEF OrderInv, QueueOrderly
<1>4. ASSUME NEW t \in Tasks, NEW s \in Socks, ReceiveEnd(t, s)
      PROVE  OrderInv'
  <2>1. /\ UNCHANGED <<main, queue>> /\ task[t].pc = "receive" /\ s \in task[t].ready
        /\ task'[t].pc = "receive" /\ task'[t].ready = task[t].ready \ {s}
        /\ task'[t].remove = task[t].remove
        /\ \A u \in Tasks \ {t} : task'[u] = task[u]
    BY <1>4, <1>T DEF ReceiveEnd, TaskStates
  <2>2. /\ ~sock'[s].phys /\ sock'[s].obj = sock[s].obj
        /\ \A r \in Socks \ {s} : sock'[r] = sock[r]
    BY <1>4, <1>T DEF ReceiveEnd, SockStates
  <2>3. s \in task[t].conns /\ sock[s].owner = t
    BY <1>Q, <2>1 DEF TaskGood
  <2>4. \A i \in Positions' : EndGood(i)' /\ GoneGood(i)'
    BY <1>E, <2>1, <2>2 DEF EndGood, GoneGood, Positions
  <2>5. \A u \in Tasks : RemoveGood(u)'
    BY <1>Q, <1>U, <2>1, <2>2 DEF RemoveGood, Positions
  <2>6. ASSUME NEW u \in Tasks
        PROVE  ReadGood(u)'
    <3>1. CASE u = t
      BY <1>Q, <1>U, <2>1, <2>2, <3>1 DEF ReadGood
    <3>2. CASE u # t
      <4>1. s \notin task[u].conns
        BY <1>Q, <2>3, <3>2 DEF TaskGood
      <4>2. ReadGood(u) /\ TaskGood(u) /\ task'[u] = task[u]
        BY <1>Q, <2>1, <3>2
      <4> QED BY <1>U, <2>2, <4>1, <4>2 DEF ReadGood, TaskGood
    <3> QED BY <3>1, <3>2
  <2> QED BY <1>T, <2>1, <2>4, <2>5, <2>6 DEF OrderInv, QueueOrderly
<1>5. CASE AddToRemoveSet
  <2>1. PICK s \in Socks : s = queue[1].sock /\ s = Head(queue).sock
    BY <1>5, HeadFacts DEF AddToRemoveSet, IInv, HandlingInv
  <2>2. /\ 1 \in Positions /\ queue[1].type = "Disconnection" /\ main.pc = "remove"
    BY <1>5, HeadFacts DEF AddToRemoveSet, IInv, HandlingInv
  <2>3. /\ UNCHANGED <<sock, queue>> /\ main'.pc = "wake" /\ main'.op = "update"
        /\ \A t \in Tasks : /\ task'[t].remove \subseteq task[t].remove \cup {s}
                            /\ task'[t].pc = task[t].pc /\ task'[t].copy = task[t].copy
                            /\ task'[t].ready = task[t].ready /\ task'[t].cur = task[t].cur
    <3>1. PICK o : /\ task' = [task EXCEPT ![o].remove = @ \cup {s}]
                   /\ main' = [main EXCEPT !.pc = "wake", !.task = o]
                   /\ UNCHANGED <<sock, queue>>
      BY <1>5, <2>1 DEF AddToRemoveSet
    <3>2. main'.pc = "wake" /\ main'.op = "update"
      BY <3>1, <1>T DEF MainStates
    <3>3. ASSUME NEW t \in Tasks
          PROVE  /\ task'[t].remove \subseteq task[t].remove \cup {s}
                 /\ task'[t].pc = task[t].pc /\ task'[t].copy = task[t].copy
                 /\ task'[t].ready = task[t].ready /\ task'[t].cur = task[t].cur
      <4>1. CASE t = o
        BY <3>1, <4>1, <1>T DEF TaskStates
      <4>2. CASE t # o
        BY <3>1, <4>2, <1>T
      <4> QED BY <4>1, <4>2
    <3> QED BY <3>1, <3>2, <3>3
  <2>4. ~sock[s].phys /\ \A i \in Positions : queue[i].sock = s => i = 1
    BY <1>E, <2>1, <2>2 DEF EndGood
  <2>5. \A i \in Positions' : EndGood(i)' /\ GoneGood(i)'
    BY <1>E, <2>2, <2>3 DEF EndGood, GoneGood, Positions
  <2>6. \A t \in Tasks : RemoveGood(t)'
    BY <1>Q, <2>2, <2>3, <2>4 DEF RemoveGood, Positions
  <2>7. \A t \in Tasks : ReadGood(t)'
    BY <1>Q, <2>3 DEF ReadGood
  <2> QED BY <2>3, <2>5, <2>6, <2>7 DEF OrderInv, QueueOrderly
<1>6. CASE DeleteAll
  <2>1. \A t \in Tasks : task[t].pc \in {"none", "dead"}
    BY <1>6 DEF DeleteAll, IInv, LockInv
  <2>2. queue' = <<>> /\ \A t \in Tasks : task'[t].remove = {} /\ task'[t].pc = task[t].pc
    <3>1. queue' = <<>> /\ task' = [t \in Tasks |-> [task[t] EXCEPT !.conns = {}, !.remove = {}]]
      BY <1>6 DEF DeleteAll
    <3> QED BY <1>T, <3>1 DEF TaskStates
  <2>3. main'.op = "update"
    BY <1>6, <1>T DEF DeleteAll, MainStates
  <2>4. Positions' = {}
    BY <2>2, EmptySeq DEF Positions
  <2> QED BY <2>1, <2>2, <2>3, <2>4
             DEF OrderInv, QueueOrderly, RemoveGood, ReadGood
<1> QED BY <1>1, <1>2, <1>3, <1>4, <1>5, <1>6

LEMMA OrderKeeps == IInv /\ OrderInv /\ [Next]_vars => OrderInv'
<1> SUFFICES ASSUME IInv, OrderInv, [Next]_vars
             PROVE  OrderInv'
  OBVIOUS
<1>1. CASE Peer \/ \E s \in Socks : DisconnectHost(s)
  BY <1>1, OrderIdleSteps DEF Peer
<1>2. CASE Accept \/ ListenStep
  BY <1>2, OrderIdleSteps, OrderPushSteps, OrderOtherSteps DEF ListenStep
<1>3. ASSUME NEW t \in Tasks, ReceiveStep(t) \/ SelectError(t)
      PROVE  OrderInv'
  BY <1>3, OrderReaderSteps, OrderPushSteps, OrderOtherSteps DEF ReceiveStep
<1>4. CASE MainStep
  BY <1>4, OrderIdleSteps, OrderPushSteps, OrderPopSteps, OrderOtherSteps
     DEF MainStep
<1>5. CASE Poll
  BY <1>5, OrderIdleSteps, OrderPopSteps DEF Poll
<1>6. CASE \/ BeginWalk("update") \/ BeginWalk("disconnect") \/ BeginDestroy
           \/ Destroyed \/ UNCHANGED vars
  BY <1>6, OrderIdleSteps DEF Destroyed
<1> QED BY <1>1, <1>2, <1>3, <1>4, <1>5, <1>6 DEF Next

(* As long as no flush fails and the application disconnects nobody, the    *)
(* main thread finds no event of a deleted object in the queue:             *)
(* NoAccessAfterDelete.                                                     *)
THEOREM NoAccessAfterDeleteHolds ==
    Spec => [](~FlushFails /\ MaxDisconnects = 0 => NoAccessAfterDelete)
<1>1. Init => OrderInv
  <2> SUFFICES ASSUME Init
               PROVE  OrderInv
    OBVIOUS
  <2>1. /\ main.op = "update" /\ queue = <<>>
        /\ \A t \in Tasks : task[t].pc = "none" /\ task[t].remove = {}
    BY DEF Init, MainIdle
  <2>2. Positions = {}
    BY <2>1, EmptySeq DEF Positions
  <2> QED BY <2>1, <2>2 DEF OrderInv, QueueOrderly, RemoveGood, ReadGood
<1>2. IInv /\ OrderInv => (~FlushFails /\ MaxDisconnects = 0 => NoAccessAfterDelete)
  <2> SUFFICES ASSUME IInv, OrderInv, Orderly, main.pc = "idle", queue # <<>>
               PROVE  Head(queue).sock \in Alive
    BY DEF Orderly, NoAccessAfterDelete
  <2>1. PICK s \in Socks : s = queue[1].sock /\ Head(queue).sock = s /\ 1 \in Positions
    BY HeadFacts DEF IInv
  <2>2. Known(s) /\ SockGood(s) /\ sock[s] \in SockStates
    BY <2>1 DEF IInv, EventInv, EventGood, SockInv, TypeOK
  <2>3. sock[s].obj # "deleted"
    BY <2>1 DEF OrderInv, QueueOrderly, GoneGood
  <2> QED BY <2>1, <2>2, <2>3 DEF SockGood, SockStates, Alive
<1> QED BY <1>1, <1>2, InitEstablishes, NextKeeps, OrderKeeps, PTL DEF Spec
=============================================================================
