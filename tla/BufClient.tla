----------------------------- MODULE BufClient -----------------------------
(***************************************************************************)
(* CBufClient, one connection after the other on the same CBufSock object: *)
(* connect() starts a receive thread, the thread reads blocks from the     *)
(* socket and pushes them into the receive queue, update() and send()      *)
(* advertise the disconnection, dataAvailable() handles it, disconnect()   *)
(* closes and empties the queue.  A reconnection deletes the thread object *)
(* of the connection before (p_thread.cpp:89), which cancels the thread    *)
(* without waiting for it, after the socket has been connected again.      *)
(***************************************************************************)
EXTENDS Naturals, Sequences

CONSTANTS MaxConns,        \* bound: connections made one after the other
          MaxMessages,     \* bound: blocks the peer sends per connection
          MaxDisconnects,  \* bound: calls of disconnect()
          Partial,         \* a block may arrive in two parts
          FlushFails,      \* flush() may fail once the peer has closed
          Stops            \* the application may destroy the client

ASSUME ConstantsAssumption ==
    /\ MaxConns \in Nat \ {0} /\ MaxMessages \in Nat /\ MaxDisconnects \in Nat
    /\ {Partial, FlushFails, Stops} \subseteq BOOLEAN

Conns == 1 .. MaxConns
NoConn == 0

VARIABLES sock,        \* the CNonBlockingBufSock and the peer behind it
          thread,      \* the receive thread of each connection
          main,        \* where the main thread is
          queue,       \* _RecvFifo
          left,        \* calls of disconnect() still allowed by the bound
          told,        \* history: disconnection callbacks per connection
          ended        \* history: how disconnect() ended each connection

vars == <<sock, thread, main, queue, left, told, ended>>

SockStates == [gen : Conns \cup {NoConn},    \* which connection it is
               phys : BOOLEAN,               \* Sock->connected()
               failed : BOOLEAN,             \* history: a flush has failed
               know : BOOLEAN,               \* _KnowConnected
               logical : BOOLEAN,            \* _ConnectedState
               part : Conns \cup {NoConn},   \* whose block is half read
               open : BOOLEAN,               \* the peer has not closed
               inbox : 0 .. MaxMessages,     \* blocks sent, not received
               sends : 0 .. MaxMessages]     \* blocks the peer will still send

(* a block keeps the connection it was read at; whole is FALSE when its     *)
(* bytes come from two connections                                          *)
Blocks == [type : {"User"}, gen : Conns, whole : BOOLEAN]
Disconnections == [type : {"Disconnection"}, gen : Conns]

ThreadStates == [pc : {"none", "test", "wait", "read", "push", "done"},
                 cancelled : BOOLEAN,
                 block : Blocks \cup {<<>>}]

MainLabels == {"idle", "thread", "clear", "callback", "join", "destroyed"}

TypeOK ==
    /\ sock \in SockStates
    /\ thread \in [Conns -> ThreadStates]
    /\ main \in MainLabels
    /\ queue \in Seq(Blocks \cup Disconnections)
    /\ left \in 0 .. MaxDisconnects
    /\ told \in [Conns -> Nat]
    /\ ended \in [Conns -> {"no", "active", "late"}]

Init ==
    /\ sock = [gen |-> NoConn, phys |-> FALSE, failed |-> FALSE, know |-> FALSE,
               logical |-> FALSE, part |-> NoConn, open |-> FALSE, inbox |-> 0, sends |-> 0]
    /\ thread = [g \in Conns |-> [pc |-> "none", cancelled |-> FALSE, block |-> <<>>]]
    /\ main = "idle"
    /\ queue = <<>>
    /\ left = MaxDisconnects
    /\ told = [g \in Conns |-> 0]
    /\ ended = [g \in Conns |-> "no"]

history == <<left, told, ended>>

----------------------------------------------------------------------------
(* The peer *)

PeerSends ==
    /\ sock.open /\ sock.sends > 0
    /\ sock' = [sock EXCEPT !.inbox = @ + 1, !.sends = @ - 1]
    /\ UNCHANGED <<thread, main, queue, history>>

PeerCloses ==
    /\ sock.open
    /\ sock' = [sock EXCEPT !.open = FALSE]
    /\ UNCHANGED <<thread, main, queue, history>>

----------------------------------------------------------------------------
(* Main thread: connect(), under its precondition "not connected" *)

(* slip: connect() forgets _ConnectedState *)
Slip_ConnectPhysically ==
    /\ main = "idle" /\ sock.gen < MaxConns
    /\ ~sock.logical /\ ~sock.phys
    /\ sock' = [sock EXCEPT !.gen = @ + 1, !.phys = TRUE, !.know = TRUE,
                            !.open = TRUE, !.inbox = 0, !.sends = MaxMessages]
    /\ main' = "thread"
    /\ UNCHANGED <<thread, queue, history>>

Connect ==
    /\ main = "idle" /\ sock.gen < MaxConns
    /\ ~sock.logical /\ ~sock.phys
    /\ sock' = [gen |-> sock.gen + 1, phys |-> TRUE, failed |-> FALSE, know |-> TRUE,
                logical |-> TRUE, part |-> sock.part, open |-> TRUE,
                inbox |-> 0, sends |-> MaxMessages]
    /\ main' = "thread"
    /\ UNCHANGED <<thread, queue, history>>

(* delete the thread before, if any, and start a new one *)
ReplaceThread ==
    /\ main = "thread"
    /\ thread' = [g \in Conns |->
                    IF g = sock.gen THEN [thread[g] EXCEPT !.pc = "test"]
                    ELSE IF g = sock.gen - 1 THEN [thread[g] EXCEPT !.cancelled = TRUE]
                    ELSE thread[g]]
    /\ main' = "idle"
    /\ UNCHANGED <<sock, queue, history>>

----------------------------------------------------------------------------
(* Main thread: update() and send() *)

Broken == ~sock.phys \/ (FlushFails /\ ~sock.open)

(* advertiseDisconnection, once per connection *)
Advertise ==
    queue' = IF sock.know THEN Append(queue, [type |-> "Disconnection", gen |-> sock.gen])
             ELSE queue

(* slip: update() closes without advertising *)
Slip_UpdateSilently ==
    /\ main = "idle" /\ sock.gen # NoConn
    /\ Broken
    /\ sock' = [sock EXCEPT !.phys = FALSE, !.know = FALSE,
                            !.failed = @ \/ sock.phys]
    /\ UNCHANGED <<thread, main, queue, history>>

(* update() closes a socket whose flush has failed *)
Update ==
    /\ main = "idle" /\ sock.gen # NoConn
    /\ Broken
    /\ Advertise
    /\ sock' = [sock EXCEPT !.phys = FALSE, !.know = FALSE, !.failed = @ \/ sock.phys]
    /\ UNCHANGED <<thread, main, history>>

(* slip: every failed send() advertises *)
Slip_SendFailsAgain ==
    /\ main = "idle" /\ sock.logical
    /\ Broken
    /\ queue' = Append(queue, [type |-> "Disconnection", gen |-> sock.gen])
    /\ UNCHANGED <<sock, thread, main, history>>

(* send() does not *)
SendFails ==
    /\ main = "idle" /\ sock.logical
    /\ Broken
    /\ Advertise
    /\ sock' = [sock EXCEPT !.know = FALSE, !.failed = @ \/ sock.phys]
    /\ UNCHANGED <<thread, main, history>>

----------------------------------------------------------------------------
(* Main thread: dataAvailable() and receive() *)

HeadIs(ty) == queue # <<>> /\ Head(queue).type = ty

HandleDisconnection ==
    /\ main = "idle" /\ HeadIs("Disconnection")
    /\ sock' = [sock EXCEPT !.logical = FALSE]
    /\ told' = [told EXCEPT ![Head(queue).gen] = @ + 1]
    /\ main' = "callback"
    /\ UNCHANGED <<thread, queue, left, ended>>

ExtractDisconnection ==
    /\ main = "callback"
    /\ queue' = Tail(queue)
    /\ main' = "idle"
    /\ UNCHANGED <<sock, thread, history>>

Receive ==
    /\ main = "idle" /\ HeadIs("User")
    /\ queue' = Tail(queue)
    /\ UNCHANGED <<sock, thread, main, history>>

----------------------------------------------------------------------------
(* Main thread: disconnect(), which layer 3 only calls when connectedState, *)
(* and the destructor                                                       *)

(* slip: the advertising is not prevented *)
Slip_CloseOnly ==
    IF sock.phys
    THEN /\ sock' = [sock EXCEPT !.phys = FALSE, !.logical = FALSE]
         /\ ended' = [ended EXCEPT ![sock.gen] = "active"]
    ELSE /\ ended' = [ended EXCEPT ![sock.gen] = "late"]
         /\ UNCHANGED sock

(* closes the socket and prevents the advertising, if physically connected *)
CloseSocket ==
    IF sock.phys
    THEN /\ sock' = [sock EXCEPT !.phys = FALSE, !.know = FALSE, !.logical = FALSE]
         /\ ended' = [ended EXCEPT ![sock.gen] = "active"]
    ELSE /\ ended' = [ended EXCEPT ![sock.gen] = "late"]
         /\ UNCHANGED sock

Disconnect ==
    /\ main = "idle" /\ left > 0
    /\ sock.logical
    /\ CloseSocket
    /\ left' = left - 1
    /\ main' = "clear"
    /\ UNCHANGED <<thread, queue, told>>

Clear ==
    /\ main = "clear"
    /\ queue' = <<>>
    /\ main' = "idle"
    /\ UNCHANGED <<sock, thread, history>>

BeginDestroy ==
    /\ Stops /\ main = "idle"
    /\ sock' = IF sock.phys
               THEN [sock EXCEPT !.phys = FALSE, !.know = FALSE, !.logical = FALSE]
               ELSE sock
    /\ queue' = IF sock.phys THEN <<>> ELSE queue
    /\ main' = "join"
    /\ UNCHANGED <<thread, history>>

Join ==
    /\ main = "join"
    /\ sock.gen # NoConn => thread[sock.gen].pc = "done"
    /\ main' = "destroyed"
    /\ UNCHANGED <<sock, thread, queue, history>>

(* nothing is left to do: destroyed, or the bound on connections is reached *)
Finished ==
    /\ main = "destroyed" \/ (main = "idle" /\ sock.gen = MaxConns)
    /\ UNCHANGED vars

----------------------------------------------------------------------------
(* Receive threads: CClientReceiveTask::run.  All of them work on the one   *)
(* socket object.  CTcpSock::disconnect() is a shutdown(): what had arrived *)
(* before it can still be read.                                             *)

Go(g, label) == thread' = [thread EXCEPT ![g].pc = label]

(* slip: the loop does not test connected() *)
Slip_NeverTest(g) ==
    /\ thread[g].pc = "test"
    /\ Go(g, "wait")
    /\ UNCHANGED <<sock, main, queue, history>>

TestConnected(g) ==
    /\ thread[g].pc = "test"
    /\ Go(g, IF sock.phys THEN "wait" ELSE "done")
    /\ UNCHANGED <<sock, main, queue, history>>

(* Sock->dataAvailable() returns true, or finds the socket disconnected *)
WaitData(g) ==
    /\ thread[g].pc = "wait"
    /\ sock.inbox > 0 \/ ~sock.open \/ ~sock.phys
    /\ Go(g, "read")
    /\ UNCHANGED <<sock, main, queue, history>>

(* receivePart, when it gets only a part of a block *)
ReadPart(g) ==
    /\ Partial
    /\ thread[g].pc = "read"
    /\ sock.inbox > 0 /\ sock.part = NoConn
    /\ sock' = [sock EXCEPT !.part = sock.gen]
    /\ Go(g, "test")
    /\ UNCHANGED <<main, queue, history>>

BlockRead(g) == [type |-> "User", gen |-> sock.gen,
                 whole |-> sock.part \in {NoConn, sock.gen}]

(* slip: receivePart's return value is ignored *)
Slip_ReadAnyway(g) ==
    /\ thread[g].pc = "read"
    /\ sock' = [sock EXCEPT !.inbox = @ - 1, !.part = NoConn]
    /\ thread' = [thread EXCEPT ![g].pc = "push", ![g].block = BlockRead(g)]
    /\ UNCHANGED <<main, queue, history>>

(* slip: the end of the stream is noted together with the last block *)
Slip_ReadBlockAndEnd(g) ==
    /\ thread[g].pc = "read"
    /\ sock.inbox > 0
    /\ sock' = [sock EXCEPT !.inbox = @ - 1, !.part = NoConn,
                            !.phys = sock.open \/ sock.inbox > 1]
    /\ thread' = [thread EXCEPT ![g].pc = "push", ![g].block = BlockRead(g)]
    /\ UNCHANGED <<main, queue, history>>

(* receivePart, when it completes a block *)
ReadBlock(g) ==
    /\ thread[g].pc = "read"
    /\ sock.inbox > 0
    /\ sock' = [sock EXCEPT !.inbox = @ - 1, !.part = NoConn]
    /\ thread' = [thread EXCEPT ![g].pc = "push", ![g].block = BlockRead(g)]
    /\ UNCHANGED <<main, queue, history>>

(* receivePart, at the end of the stream: it returns false between blocks   *)
(* and throws inside one                                                    *)
ReadEnd(g) ==
    /\ thread[g].pc = "read"
    /\ sock.inbox = 0 /\ (~sock.open \/ ~sock.phys)
    /\ sock' = [sock EXCEPT !.phys = FALSE]
    /\ Go(g, IF sock.part = NoConn THEN "test" ELSE "done")
    /\ UNCHANGED <<main, queue, history>>

(* it was woken for data another thread has taken meanwhile *)
ReadNothing(g) ==
    /\ thread[g].pc = "read"
    /\ sock.inbox = 0 /\ sock.open /\ sock.phys
    /\ Go(g, "test")
    /\ UNCHANGED <<sock, main, queue, history>>

PushBlock(g) ==
    /\ thread[g].pc = "push"
    /\ queue' = Append(queue, thread[g].block)
    /\ thread' = [thread EXCEPT ![g].pc = "test", ![g].block = <<>>]
    /\ UNCHANGED <<sock, main, history>>

(* the asynchronous cancellation takes effect, wherever the thread is *)
Cancel(g) ==
    /\ thread[g].cancelled /\ thread[g].pc # "done"
    /\ thread' = [thread EXCEPT ![g].pc = "done", ![g].block = <<>>]
    /\ UNCHANGED <<sock, main, queue, history>>

----------------------------------------------------------------------------
ThreadStep(g) ==
    \/ TestConnected(g) \/ WaitData(g) \/ ReadPart(g) \/ ReadBlock(g)
    \/ ReadEnd(g) \/ ReadNothing(g) \/ PushBlock(g)

MainStep == ReplaceThread \/ ExtractDisconnection \/ Clear \/ Join

Poll == HandleDisconnection \/ Receive

Next ==
    \/ PeerSends \/ PeerCloses
    \/ Connect \/ Update \/ SendFails \/ Poll \/ Disconnect \/ BeginDestroy
    \/ MainStep \/ Finished
    \/ \E g \in Conns : ThreadStep(g) \/ Cancel(g)

Spec == Init /\ [][Next]_vars

(* The threads run, a cancellation takes effect, and the application calls  *)
(* update() and polls again and again.                                      *)
Fairness ==
    /\ \A g \in Conns : WF_vars(ThreadStep(g)) /\ WF_vars(Cancel(g))
    /\ WF_vars(MainStep)
    /\ SF_vars(Update) /\ SF_vars(Poll)

FairSpec == Spec /\ Fairness

----------------------------------------------------------------------------
(* Properties *)

DisconnectionsOf(g) ==
    {i \in 1 .. Len(queue) : queue[i].type = "Disconnection" /\ queue[i].gen = g}

(* The application hears of the end of a connection at most once, and never *)
(* while another one is up, whatever the order of failed sends, updates and *)
(* reconnections.                                                           *)
ToldOnce ==
    \A g \in Conns :
        /\ told[g] <= 1
        /\ told[g] = 1 /\ ~ (main = "callback" /\ g = sock.gen) => DisconnectionsOf(g) = {}
        /\ DisconnectionsOf(g) # {} => g = sock.gen /\ ~sock.know

(* The type invariant, and ToldOnce. *)
ToldInOrder == TypeOK /\ ToldOnce

(* After a disconnect() that finds the socket physically connected no       *)
(* disconnection callback comes for this connection.                        *)
ActiveDisconnectIsSilent == \A g \in Conns : ended[g] = "active" => told[g] = 0

(* As long as no flush has failed on a connection, a client that is not     *)
(* connected for the application is not connected physically either: the    *)
(* assertions of connect() (buf_client.cpp:93) and of the destructor (:384) *)
(* hold.                                                                    *)
PhysicalImpliesLogical == main = "idle" /\ sock.phys /\ ~sock.failed => sock.logical

(* When the peer closes and no flush has failed, everything the receive     *)
(* thread has read comes before the disconnection event.  This is for the   *)
(* first connection: on the next ones the cancelled thread of the former    *)
(* connection may take a block from the socket and push it too late.        *)
AllReadBeforeDisconnection ==
    sock.gen = 1 /\ ~sock.failed =>
        \A i \in DisconnectionsOf(1) :
            thread[1].pc # "push" /\ \A j \in i + 1 .. Len(queue) : queue[j].type # "User"

(* "changed when a disconnection event has reached the front of the receive *)
(* queue" (buf_client.h:178): a client that has lost its connection gets    *)
(* there, as long as it is updated and polled, not destroyed, and the       *)
(* application does not throw the event away with a late disconnect().      *)
ConnectionLossIsNoticed ==
    sock.logical /\ ~sock.phys ~>
        \/ ~sock.logical \/ main \in {"join", "destroyed"}
        \/ ended[sock.gen] = "late"

(* The destructor ends. *)
DestructorEnds == main = "join" ~> main = "destroyed"

(* "Disconnects the remote host and empties the receive queue", "The       *)
(* disconnection callback will *not* be called" (buf_client.h:109, 113):    *)
(* nothing of a connection that the application has disconnected reaches it *)
(* any more, neither its end nor, on the next connection, what it has       *)
(* received, in whole or in part.                                           *)
DisconnectIsFinal ==
    /\ \A g \in Conns : ended[g] # "no" => told[g] = 0
    /\ main = "idle" /\ HeadIs("User") =>
          Head(queue).gen = sock.gen /\ Head(queue).whole
=============================================================================
