-------------------------- MODULE BufClient_proofs --------------------------
(***************************************************************************)
(* Proofs about BufClient, for every number of connections, of blocks and  *)
(* of calls of disconnect(), and with every fault switched on or off.      *)
(***************************************************************************)
EXTENDS BufClient, SequenceTheorems, TLAPS

(* There is an event of the end of a connection in the queue. *)
Pending(i) == i \in 1 .. Len(queue) /\ queue[i].type = "Disconnection"

(* The peer sends no more than the bound. *)
InboxInv == sock.inbox + sock.sends <= MaxMessages

(* Threads run for the connections made so far; one that is about to push   *)
(* has a block.                                                             *)
ThreadInv ==
    \A g \in Conns :
        /\ thread[g].pc # "none" \/ thread[g].cancelled => g <= sock.gen
        /\ thread[g].pc = "push" => thread[g].block \in Blocks

(* What a socket knows of its connection. *)
SockInv ==
    /\ sock.logical => sock.gen # NoConn
    /\ sock.know => sock.logical
    /\ sock.phys /\ ~sock.failed => sock.logical

(* At most one event is pending, and it is about the connection that is     *)
(* still up for the application.                                            *)
EventInv ==
    \A i \in 1 .. Len(queue) : Pending(i) =>
        /\ queue[i].gen = sock.gen
        /\ ~sock.know
        /\ ~sock.phys \/ sock.failed
        /\ main \in {"idle", "thread"} => sock.logical
        /\ told[queue[i].gen] = IF main = "callback" THEN 1 ELSE 0
        /\ \A j \in 1 .. Len(queue) : Pending(j) => i = j

(* Only connections made so far have been told of or have been ended, and   *)
(* the present one is then down for the application.                        *)
ToldInv ==
    /\ main = "thread" => sock.logical
    /\ main = "callback" => Pending(1)
    /\ \A g \in Conns :
          /\ told[g] <= 1
          /\ told[g] = 1 \/ ended[g] # "no" => g <= sock.gen
          /\ g = sock.gen /\ (told[g] = 1 \/ ended[g] = "active") => ~sock.logical
          /\ ended[g] = "active" => told[g] = 0

(* On the first connection: once its end has been found there is nothing to *)
(* read any more and nothing to push.                                       *)
Quiet == sock.inbox = 0 /\ ~sock.open /\ thread[1].pc # "push"

QuietInv ==
    sock.gen = 1 /\ ~sock.failed =>
        /\ sock.know /\ ~sock.phys => Quiet
        /\ \A i \in 1 .. Len(queue) : Pending(i) =>
              Quiet /\ \A j \in i + 1 .. Len(queue) : queue[j].type # "User"

IInv == /\ TypeOK /\ InboxInv /\ ThreadInv /\ SockInv
        /\ EventInv /\ ToldInv /\ QuietInv

----------------------------------------------------------------------------
(* What the changes of the queue, of a thread and of the socket do *)

LEMMA Pushed ==
    ASSUME TypeOK, NEW e \in Blocks \cup Disconnections, queue' = Append(queue, e)
    PROVE  /\ queue' \in Seq(Blocks \cup Disconnections)
           /\ Len(queue) \in Nat /\ Len(queue') = Len(queue) + 1
           /\ queue'[Len(queue) + 1] = e
           /\ \A i \in 1 .. Len(queue) : queue'[i] = queue[i]
BY AppendProperties DEF TypeOK

LEMMA Popped ==
    ASSUME TypeOK, queue # <<>>
    PROVE  /\ Head(queue) = queue[1]
           /\ Head(queue) \in Blocks \cup Disconnections
           /\ Tail(queue) \in Seq(Blocks \cup Disconnections)
           /\ Len(queue) \in Nat \ {0} /\ Len(Tail(queue)) = Len(queue) - 1
           /\ \A i \in 1 .. Len(Tail(queue)) : Tail(queue)[i] = queue[i + 1]
BY HeadTailProperties, EmptySeq DEF TypeOK

LEMMA Advertised ==
    ASSUME IInv, sock.gen # NoConn, Advertise
    PROVE  /\ queue' \in Seq(Blocks \cup Disconnections)
           /\ \/ ~sock.know /\ queue' = queue
              \/ /\ sock.know
                 /\ Len(queue') \in Nat \ {0}
                 /\ queue'[Len(queue')].gen = sock.gen
                 /\ \A i \in 1 .. Len(queue') :
                       queue'[i].type = "Disconnection" => i = Len(queue')
<1> DEFINE e == [type |-> "Disconnection", gen |-> sock.gen]
<1>1. CASE ~sock.know
  BY <1>1 DEF IInv, TypeOK, Advertise
<1>2. CASE sock.know
  <2>1. e \in Blocks \cup Disconnections
    BY DEF IInv, TypeOK, SockStates, Disconnections, NoConn
  <2>2. \A i \in 1 .. Len(queue) : queue[i].type # "Disconnection"
    BY <1>2 DEF IInv, EventInv, Pending
  <2>3. queue' = Append(queue, e) /\ e.gen = sock.gen
    BY <1>2 DEF Advertise
  <2> HIDE DEF e
  <2>4. /\ queue' \in Seq(Blocks \cup Disconnections)
        /\ Len(queue) \in Nat /\ Len(queue') = Len(queue) + 1
        /\ queue'[Len(queue) + 1] = e
        /\ \A i \in 1 .. Len(queue) : queue'[i] = queue[i]
    BY <2>1, <2>3, Pushed DEF IInv
  <2> QED BY <1>2, <2>2, <2>3, <2>4
<1> QED BY <1>1, <1>2 DEF IInv, TypeOK, SockStates

LEMMA ThreadMoves ==
    ASSUME IInv, NEW g \in Conns, NEW label \in {"test", "wait", "read", "done"},
           Go(g, label), thread[g].pc # "none", sock'.gen = sock.gen
    PROVE  /\ thread' \in [Conns -> ThreadStates]
           /\ ThreadInv'
           /\ thread'[1].pc = "push" => thread[1].pc = "push"
<1> DEFINE moved == [thread[g] EXCEPT !.pc = label]
<1>1. /\ thread \in [Conns -> ThreadStates] /\ thread[g] \in ThreadStates
      /\ 1 \in Conns
  BY ConstantsAssumption DEF IInv, TypeOK, Conns
<1>2. moved \in ThreadStates /\ moved.pc = label /\ moved.cancelled = thread[g].cancelled
  BY <1>1 DEF ThreadStates
<1>3. thread' = [thread EXCEPT ![g] = moved]
  BY DEF Go
<1> HIDE DEF moved
<1>4. thread' \in [Conns -> ThreadStates]
  BY <1>1, <1>2, <1>3
<1>5. /\ thread'[g].pc = label
      /\ \A h \in Conns \ {g} : thread'[h] = thread[h]
  BY <1>1, <1>2, <1>3
<1> QED BY <1>1, <1>4, <1>5 DEF IInv, ThreadInv

LEMMA ThreadRests ==
    ASSUME IInv, NEW g \in Conns, NEW label \in {"test", "done"},
           thread' = [thread EXCEPT ![g].pc = label, ![g].block = <<>>],
           g <= sock.gen, sock' = sock
    PROVE  /\ thread' \in [Conns -> ThreadStates]
           /\ ThreadInv'
           /\ thread'[1].pc = "push" => thread[1].pc = "push"
<1> DEFINE moved == [thread[g] EXCEPT !.pc = label, !.block = <<>>]
<1>1. /\ thread \in [Conns -> ThreadStates] /\ thread[g] \in ThreadStates
      /\ 1 \in Conns
  BY ConstantsAssumption DEF IInv, TypeOK, Conns
<1>2. moved \in ThreadStates /\ moved.pc = label /\ moved.cancelled = thread[g].cancelled
  BY <1>1 DEF ThreadStates
<1>3. thread' = [thread EXCEPT ![g] = moved]
  OBVIOUS
<1> HIDE DEF moved
<1>4. /\ thread' \in [Conns -> ThreadStates]
      /\ thread'[g].pc = label
      /\ \A h \in Conns \ {g} : thread'[h] = thread[h]
  BY <1>1, <1>2, <1>3
<1>5. \A h \in Conns : thread'[h].pc = "push" => h # g /\ thread[h].pc = "push"
  BY <1>4
<1> QED BY <1>1, <1>2, <1>3, <1>4, <1>5 DEF IInv, ThreadInv, TypeOK

LEMMA OnlyThreads ==
    ASSUME IInv, thread' \in [Conns -> ThreadStates], ThreadInv',
           thread'[1].pc = "push" => thread[1].pc = "push",
           UNCHANGED <<sock, main, queue, history>>
    PROVE  IInv'
<1>1. TypeOK' /\ InboxInv' /\ SockInv'
  BY DEF IInv, TypeOK, history, InboxInv, SockInv
<1>2. EventInv' /\ ToldInv'
  BY DEF IInv, EventInv, ToldInv, Pending, history
<1>3. QuietInv'
  BY DEF IInv, QuietInv, Quiet, Pending
<1> QED BY <1>1, <1>2, <1>3 DEF IInv

LEMMA BlockIsBlock ==
    ASSUME TypeOK, sock.gen # NoConn, NEW g
    PROVE  BlockRead(g) \in Blocks
BY DEF TypeOK, SockStates, Blocks, BlockRead, NoConn

LEMMA SocketCloses ==
    ASSUME TypeOK, sock.gen # NoConn, CloseSocket
    PROVE  /\ sock' \in SockStates
           /\ ended' \in [Conns -> {"no", "active", "late"}]
           /\ sock'.gen = sock.gen /\ sock'.inbox = sock.inbox
           /\ sock'.sends = sock.sends /\ sock'.failed = sock.failed
           /\ sock'.open = sock.open /\ ~sock'.phys
           /\ \A g \in Conns \ {sock.gen} : ended'[g] = ended[g]
           /\ IF sock.phys
              THEN /\ ~sock'.know /\ ~sock'.logical
                   /\ ended'[sock.gen] = "active"
              ELSE /\ sock' = sock
                   /\ ended'[sock.gen] = "late"
<1>0. sock \in SockStates /\ sock.gen \in Conns
      /\ ended \in [Conns -> {"no", "active", "late"}]
  BY DEF TypeOK, SockStates, NoConn
<1>1. CASE sock.phys
  <2>1. /\ sock' = [sock EXCEPT !.phys = FALSE, !.know = FALSE, !.logical = FALSE]
        /\ ended' = [ended EXCEPT ![sock.gen] = "active"]
    BY <1>1 DEF CloseSocket
  <2>2. sock' \in SockStates
    BY <1>0, <2>1 DEF SockStates
  <2>3. ended' \in [Conns -> {"no", "active", "late"}] /\ ended'[sock.gen] = "active"
        /\ \A g \in Conns \ {sock.gen} : ended'[g] = ended[g]
    BY <1>0, <2>1
  <2> QED BY <1>0, <1>1, <2>1, <2>2, <2>3 DEF SockStates
<1>2. CASE ~sock.phys
  BY <1>0, <1>2 DEF CloseSocket
<1> QED BY <1>1, <1>2

----------------------------------------------------------------------------
(* Every action keeps the invariant *)

LEMMA PeerSendsKeeps ==
    ASSUME IInv, PeerSends
    PROVE  IInv'
<1>F. sock.inbox + 1 \in 0 .. MaxMessages /\ sock.sends - 1 \in 0 .. MaxMessages
  BY ConstantsAssumption DEF IInv, TypeOK, SockStates, InboxInv, PeerSends
<1>1. TypeOK'
  BY <1>F DEF IInv, TypeOK, SockStates, PeerSends, history
<1>2. InboxInv'
  BY DEF IInv, PeerSends, TypeOK, SockStates, InboxInv
<1>3. ThreadInv'
  BY DEF IInv, PeerSends, ThreadInv
<1>4. SockInv'
  BY DEF IInv, PeerSends, SockInv
<1>5. EventInv'
  BY DEF IInv, PeerSends, history, EventInv, Pending
<1>6. ToldInv'
  BY DEF IInv, PeerSends, history, Pending, ToldInv
<1>7. QuietInv'
  BY DEF IInv, PeerSends, Pending, QuietInv, Quiet
<1> QED BY <1>1, <1>2, <1>3, <1>4, <1>5, <1>6, <1>7 DEF IInv

LEMMA PeerClosesKeeps ==
    ASSUME IInv, PeerCloses
    PROVE  IInv'
<1>1. TypeOK'
  BY ConstantsAssumption DEF IInv, TypeOK, SockStates, MainLabels, history, PeerCloses
<1>2. InboxInv'
  BY DEF IInv, PeerCloses, InboxInv
<1>3. ThreadInv'
  BY DEF IInv, PeerCloses, ThreadInv
<1>4. SockInv'
  BY DEF IInv, PeerCloses, SockInv
<1>5. EventInv'
  BY DEF IInv, PeerCloses, history, EventInv, Pending
<1>6. ToldInv'
  BY DEF IInv, PeerCloses, history, Pending, ToldInv
<1>7. QuietInv'
  BY DEF IInv, PeerCloses, Pending, QuietInv, Quiet
<1> QED BY <1>1, <1>2, <1>3, <1>4, <1>5, <1>6, <1>7 DEF IInv

LEMMA ConnectKeeps ==
    ASSUME IInv, Connect
    PROVE  IInv'
<1>1. TypeOK'
  <2>1. sock.gen + 1 \in Conns
    BY ConstantsAssumption DEF IInv, TypeOK, SockStates, Conns, NoConn, Connect
  <2>2. sock' \in SockStates
    BY <2>1, ConstantsAssumption DEF IInv, TypeOK, SockStates, Connect
  <2> QED BY <2>2 DEF IInv, TypeOK, MainLabels, history, Connect
<1>2. InboxInv'
  BY ConstantsAssumption DEF IInv, Connect, InboxInv
<1>3. ThreadInv'
  BY DEF IInv, Connect, history, NoConn, TypeOK, SockStates, Conns, ThreadInv
<1>4. SockInv'
  BY DEF IInv, Connect, history, NoConn, TypeOK, SockStates, Conns, SockInv
<1>5. EventInv'
  BY DEF IInv, Connect, EventInv, Pending
<1>6. ToldInv'
  BY DEF IInv, Connect, history, NoConn, TypeOK, SockStates, Conns, ToldInv
<1>7. QuietInv'
  BY DEF IInv, Connect, EventInv, Pending, QuietInv
<1> QED BY <1>1, <1>2, <1>3, <1>4, <1>5, <1>6, <1>7 DEF IInv

LEMMA ReplaceThreadKeeps ==
    ASSUME IInv, ReplaceThread
    PROVE  IInv'
<1>F. thread' \in [Conns -> ThreadStates]
  <2>1. \A g \in Conns : /\ thread[g] \in ThreadStates
                         /\ [thread[g] EXCEPT !.pc = "test"] \in ThreadStates
                         /\ [thread[g] EXCEPT !.cancelled = TRUE] \in ThreadStates
    BY DEF IInv, TypeOK, ThreadStates
  <2> QED BY <2>1 DEF ReplaceThread
<1>1. TypeOK'
  BY <1>F DEF IInv, TypeOK, MainLabels, history, ReplaceThread
<1>2. InboxInv'
  BY DEF IInv, ReplaceThread, InboxInv
<1>3. ThreadInv'
  BY DEF IInv, ReplaceThread, TypeOK, SockStates, Conns, ThreadInv, SockInv, ToldInv
<1>4. SockInv'
  BY DEF IInv, ReplaceThread, SockInv
<1>5. EventInv'
  BY DEF IInv, ReplaceThread, history, EventInv, Pending
<1>6. ToldInv'
  BY DEF IInv, ReplaceThread, history, ToldInv
<1>7. QuietInv'
  BY DEF IInv, ReplaceThread, TypeOK, SockStates, SockInv, EventInv, Pending,
         QuietInv, Quiet
<1> QED BY <1>1, <1>2, <1>3, <1>4, <1>5, <1>6, <1>7 DEF IInv

LEMMA UpdateKeeps ==
    ASSUME IInv, Update
    PROVE  IInv'
<1>F. /\ queue' \in Seq(Blocks \cup Disconnections)
      /\ \/ ~sock.know /\ queue' = queue
         \/ /\ sock.know
            /\ Len(queue') \in Nat \ {0}
            /\ queue'[Len(queue')].gen = sock.gen
            /\ \A i \in 1 .. Len(queue') :
                  queue'[i].type = "Disconnection" => i = Len(queue')
  BY Advertised DEF IInv, SockInv, Update
<1>1. TypeOK'
  BY <1>F DEF IInv, TypeOK, SockStates, history, Update
<1>2. InboxInv'
  BY DEF IInv, Update, InboxInv
<1>3. ThreadInv'
  BY DEF IInv, Update, ThreadInv
<1>4. SockInv'
  BY DEF IInv, Update, SockInv
<1>5. EventInv'
  BY <1>F DEF IInv, Update, history, NoConn, Broken, TypeOK, SockStates, SockInv,
               EventInv, Pending, ToldInv
<1>6. ToldInv'
  BY DEF IInv, Update, history, NoConn, Broken, ToldInv
<1>7. QuietInv'
  <2> SUFFICES ASSUME sock.gen = 1, ~sock.failed, ~sock.phys
               PROVE  QuietInv'
    BY DEF IInv, TypeOK, SockStates, Update, QuietInv
  <2>1. CASE ~sock.know
    BY <1>F, <2>1 DEF IInv, Update, QuietInv, Quiet, Pending
  <2>2. CASE sock.know
    <3>1. Quiet /\ Quiet' /\ ~sock'.know
      BY <2>2 DEF IInv, Update, QuietInv, Quiet
    <3> QED BY <1>F, <2>2, <3>1 DEF QuietInv, Pending
  <2> QED BY <2>1, <2>2
<1> QED BY <1>1, <1>2, <1>3, <1>4, <1>5, <1>6, <1>7 DEF IInv

LEMMA SendFailsKeeps ==
    ASSUME IInv, SendFails
    PROVE  IInv'
<1>F. /\ queue' \in Seq(Blocks \cup Disconnections)
      /\ \/ ~sock.know /\ queue' = queue
         \/ /\ sock.know
            /\ Len(queue') \in Nat \ {0}
            /\ queue'[Len(queue')].gen = sock.gen
            /\ \A i \in 1 .. Len(queue') :
                  queue'[i].type = "Disconnection" => i = Len(queue')
  BY Advertised DEF IInv, SockInv, SendFails
<1>1. TypeOK'
  BY <1>F DEF IInv, TypeOK, SockStates, history, SendFails
<1>2. InboxInv'
  BY DEF IInv, SendFails, InboxInv
<1>3. ThreadInv'
  BY DEF IInv, SendFails, ThreadInv
<1>4. SockInv'
  BY DEF IInv, SendFails, SockInv
<1>5. EventInv'
  BY <1>F DEF IInv, SendFails, history, NoConn, Broken, TypeOK, SockStates, SockInv,
               EventInv, Pending, ToldInv
<1>6. ToldInv'
  BY DEF IInv, SendFails, history, NoConn, Broken, ToldInv
<1>7. QuietInv'
  BY <1>F DEF IInv, SendFails, TypeOK, SockStates, Conns, Pending, ToldInv,
              QuietInv, Quiet
<1> QED BY <1>1, <1>2, <1>3, <1>4, <1>5, <1>6, <1>7 DEF IInv

LEMMA HandleDisconnectionKeeps ==
    ASSUME IInv, HandleDisconnection
    PROVE  IInv'
<1>F. /\ queue # <<>> /\ Head(queue) = queue[1]
      /\ queue[1] \in Blocks \cup Disconnections /\ Len(queue) \in Nat \ {0}
  BY Popped DEF IInv, HandleDisconnection, HeadIs
<1>G. /\ Pending(1) /\ queue[1].gen = sock.gen /\ sock.gen \in Conns
      /\ ~sock.know /\ (~sock.phys \/ sock.failed) /\ sock.logical
      /\ told[sock.gen] = 0
      /\ \A j \in 1 .. Len(queue) : Pending(j) => j = 1
  <2>1. Pending(1)
    BY <1>F DEF Pending, HeadIs, HandleDisconnection
  <2>2. queue[1].gen \in Conns
    BY <1>F, <2>1 DEF Pending, Blocks, Disconnections
  <2> QED BY <1>F, <2>1, <2>2 DEF IInv, EventInv, HandleDisconnection
<1>1. TypeOK'
  <2>1. sock' \in SockStates
    BY DEF IInv, TypeOK, SockStates, HandleDisconnection
  <2> QED BY <1>F, <1>G, <2>1 DEF IInv, TypeOK, MainLabels, HandleDisconnection
<1>2. InboxInv'
  BY DEF IInv, HandleDisconnection, InboxInv
<1>3. ThreadInv'
  BY DEF IInv, HandleDisconnection, ThreadInv
<1>4. SockInv'
  BY <1>G DEF IInv, HandleDisconnection, SockInv
<1>5. EventInv'
  BY <1>G DEF IInv, HandleDisconnection, TypeOK, EventInv, Pending
<1>6. ToldInv'
  BY <1>G DEF IInv, HandleDisconnection, Conns, Pending, ToldInv
<1>7. QuietInv'
  BY <1>G DEF IInv, HandleDisconnection, QuietInv, Quiet
<1> QED BY <1>1, <1>2, <1>3, <1>4, <1>5, <1>6, <1>7 DEF IInv

LEMMA ExtractDisconnectionKeeps ==
    ASSUME IInv, ExtractDisconnection
    PROVE  IInv'
<1>E. queue # <<>>
  BY EmptySeq DEF IInv, ToldInv, Pending, ExtractDisconnection
<1>F. queue' = Tail(queue)
  BY DEF ExtractDisconnection
<1>1. TypeOK'
  BY <1>E, <1>F, Popped DEF IInv, TypeOK, MainLabels, history, ExtractDisconnection
<1>2. InboxInv'
  BY DEF IInv, ExtractDisconnection, InboxInv
<1>3. ThreadInv'
  BY DEF IInv, ExtractDisconnection, ThreadInv
<1>4. SockInv'
  BY DEF IInv, ExtractDisconnection, SockInv
<1>5. EventInv'
  BY DEF IInv, ExtractDisconnection, EventInv, Pending, ToldInv
<1>6. ToldInv'
  BY DEF IInv, ExtractDisconnection, history, HeadIs, ToldInv
<1>7. QuietInv'
  BY DEF IInv, ExtractDisconnection, EventInv, Pending, ToldInv, QuietInv
<1> QED BY <1>1, <1>2, <1>3, <1>4, <1>5, <1>6, <1>7 DEF IInv

LEMMA ReceiveKeeps ==
    ASSUME IInv, Receive
    PROVE  IInv'
<1>E. queue # <<>>
  BY DEF Receive, HeadIs
<1>F. queue' = Tail(queue)
  BY DEF Receive
<1>1. TypeOK'
  BY <1>E, <1>F, Popped DEF IInv, TypeOK, MainLabels, history, Receive
<1>2. InboxInv'
  BY DEF IInv, Receive, InboxInv
<1>3. ThreadInv'
  BY DEF IInv, Receive, ThreadInv
<1>4. SockInv'
  BY DEF IInv, Receive, SockInv
<1>5. EventInv'
  BY DEF IInv, Receive, history, HeadIs, EventInv, Pending
<1>6. ToldInv'
  BY DEF IInv, Receive, history, HeadIs, ToldInv
<1>7. QuietInv'
  BY DEF IInv, Receive, Pending, QuietInv, Quiet
<1> QED BY <1>1, <1>2, <1>3, <1>4, <1>5, <1>6, <1>7 DEF IInv

LEMMA DisconnectKeeps ==
    ASSUME IInv, Disconnect
    PROVE  IInv'
<1>F. CloseSocket /\ sock.logical /\ sock.gen # NoConn
  BY DEF IInv, SockInv, Disconnect
<1>1. TypeOK'
  BY <1>F, SocketCloses, ConstantsAssumption DEF IInv, TypeOK, MainLabels, Disconnect
<1>2. InboxInv'
  BY <1>F, SocketCloses DEF IInv, Disconnect, InboxInv
<1>3. ThreadInv'
  BY <1>F, SocketCloses DEF IInv, Disconnect, ThreadInv
<1>4. SockInv'
  BY SocketCloses DEF IInv, Disconnect, SockInv
<1>5. EventInv'
  BY <1>F, SocketCloses DEF IInv, Disconnect, EventInv, Pending
<1>6. ToldInv'
  BY <1>F, SocketCloses DEF IInv, Disconnect, TypeOK, Conns, ToldInv
<1>7. QuietInv'
  BY <1>F, SocketCloses DEF IInv, Disconnect, Pending, QuietInv, Quiet
<1> QED BY <1>1, <1>2, <1>3, <1>4, <1>5, <1>6, <1>7 DEF IInv

LEMMA ClearKeeps ==
    ASSUME IInv, Clear
    PROVE  IInv'
<1>1. TypeOK'
  BY EmptySeq DEF IInv, TypeOK, MainLabels, history, Clear
<1>2. InboxInv'
  BY DEF IInv, Clear, InboxInv
<1>3. ThreadInv'
  BY DEF IInv, Clear, ThreadInv
<1>4. SockInv'
  BY DEF IInv, Clear, SockInv
<1>5. EventInv'
  BY DEF IInv, Clear, EventInv
<1>6. ToldInv'
  BY DEF IInv, Clear, history, ToldInv
<1>7. QuietInv'
  BY DEF IInv, Clear, QuietInv, Quiet
<1> QED BY <1>1, <1>2, <1>3, <1>4, <1>5, <1>6, <1>7 DEF IInv

LEMMA BeginDestroyKeeps ==
    ASSUME IInv, BeginDestroy
    PROVE  IInv'
<1>1. TypeOK'
  <2>1. sock' \in SockStates
    BY DEF IInv, TypeOK, SockStates, BeginDestroy
  <2>2. queue' \in Seq(Blocks \cup Disconnections)
    BY DEF IInv, TypeOK, BeginDestroy
  <2> QED BY <2>1, <2>2 DEF IInv, TypeOK, MainLabels, history, BeginDestroy
<1>2. InboxInv'
  BY DEF IInv, BeginDestroy, InboxInv
<1>3. ThreadInv'
  BY DEF IInv, BeginDestroy, ThreadInv
<1>4. SockInv'
  BY DEF IInv, BeginDestroy, SockInv
<1>5. EventInv'
  BY DEF IInv, BeginDestroy, history, EventInv, Pending
<1>6. ToldInv'
  BY DEF IInv, BeginDestroy, history, ToldInv
<1>7. QuietInv'
  BY DEF IInv, BeginDestroy, Pending, QuietInv, Quiet
<1> QED BY <1>1, <1>2, <1>3, <1>4, <1>5, <1>6, <1>7 DEF IInv

LEMMA JoinKeeps ==
    ASSUME IInv, Join
    PROVE  IInv'
<1>1. TypeOK'
  BY ConstantsAssumption DEF IInv, TypeOK, MainLabels, history, Join
<1>2. InboxInv'
  BY DEF IInv, Join, InboxInv
<1>3. ThreadInv'
  BY DEF IInv, Join, ThreadInv
<1>4. SockInv'
  BY DEF IInv, Join, SockInv
<1>5. EventInv'
  BY DEF IInv, Join, history, EventInv, Pending
<1>6. ToldInv'
  BY DEF IInv, Join, history, ToldInv
<1>7. QuietInv'
  BY DEF IInv, Join, Pending, QuietInv, Quiet
<1> QED BY <1>1, <1>2, <1>3, <1>4, <1>5, <1>6, <1>7 DEF IInv

LEMMA TestConnectedKeeps ==
    ASSUME IInv, NEW g \in Conns, TestConnected(g)
    PROVE  IInv'
BY ThreadMoves, OnlyThreads DEF TestConnected

LEMMA WaitDataKeeps ==
    ASSUME IInv, NEW g \in Conns, WaitData(g)
    PROVE  IInv'
BY ThreadMoves, OnlyThreads DEF WaitData

LEMMA ReadNothingKeeps ==
    ASSUME IInv, NEW g \in Conns, ReadNothing(g)
    PROVE  IInv'
BY ThreadMoves, OnlyThreads DEF ReadNothing

LEMMA ReadPartKeeps ==
    ASSUME IInv, NEW g \in Conns, ReadPart(g)
    PROVE  IInv'
<1>F. /\ thread' \in [Conns -> ThreadStates]
      /\ ThreadInv'
      /\ thread'[1].pc = "push" => thread[1].pc = "push"
  <2>1. sock'.gen = sock.gen
    BY DEF IInv, TypeOK, SockStates, ReadPart
  <2> QED BY <2>1, ThreadMoves DEF ReadPart
<1>1. TypeOK'
  <2>1. sock' \in SockStates
    BY DEF IInv, TypeOK, SockStates, ReadPart
  <2> QED BY <1>F, <2>1 DEF IInv, TypeOK, history, ReadPart
<1>2. InboxInv'
  BY DEF IInv, ReadPart, InboxInv
<1>3. SockInv'
  BY DEF IInv, ReadPart, SockInv
<1>4. EventInv'
  BY DEF IInv, ReadPart, history, EventInv, Pending
<1>5. ToldInv'
  BY DEF IInv, ReadPart, history, Pending, ToldInv
<1>6. QuietInv'
  BY DEF IInv, ReadPart, Pending, QuietInv, Quiet
<1> QED BY <1>F, <1>1, <1>2, <1>3, <1>4, <1>5, <1>6 DEF IInv

LEMMA ReadEndKeeps ==
    ASSUME IInv, NEW g \in Conns, ReadEnd(g)
    PROVE  IInv'
<1>F. /\ thread' \in [Conns -> ThreadStates]
      /\ ThreadInv'
      /\ thread'[1].pc = "push" => thread[1].pc = "push"
  <2>1. sock'.gen = sock.gen
    BY DEF IInv, TypeOK, SockStates, ReadEnd
  <2> QED BY <2>1, ThreadMoves DEF ReadEnd
<1>1. TypeOK'
  <2>1. sock' \in SockStates
    BY DEF IInv, TypeOK, SockStates, ReadEnd
  <2> QED BY <1>F, <2>1 DEF IInv, TypeOK, history, ReadEnd
<1>2. InboxInv'
  BY DEF IInv, ReadEnd, InboxInv
<1>3. SockInv'
  BY DEF IInv, ReadEnd, SockInv
<1>4. EventInv'
  BY DEF IInv, ReadEnd, history, EventInv, Pending
<1>5. ToldInv'
  BY DEF IInv, ReadEnd, history, Pending, ToldInv
<1>6. QuietInv'
  BY <1>F DEF IInv, ReadEnd, Conns, ThreadInv, Pending, QuietInv, Quiet
<1> QED BY <1>F, <1>1, <1>2, <1>3, <1>4, <1>5, <1>6 DEF IInv

LEMMA ReadBlockKeeps ==
    ASSUME IInv, NEW g \in Conns, ReadBlock(g)
    PROVE  IInv'
<1>E. sock.gen # NoConn /\ BlockRead(g) \in Blocks
  BY BlockIsBlock DEF IInv, ThreadInv, ReadBlock, Conns, NoConn, TypeOK, SockStates
<1>F. /\ thread' \in [Conns -> ThreadStates]
      /\ thread[g].pc = "read" /\ thread'[g].block \in Blocks
      /\ \A h \in Conns \ {g} : thread'[h] = thread[h]
  <2> DEFINE moved == [thread[g] EXCEPT !.pc = "push", !.block = BlockRead(g)]
  <2>1. moved \in ThreadStates /\ moved.block = BlockRead(g)
    BY <1>E DEF IInv, TypeOK, ThreadStates
  <2>2. thread' = [thread EXCEPT ![g] = moved]
    BY DEF ReadBlock
  <2> HIDE DEF moved
  <2> QED BY <1>E, <2>1, <2>2 DEF IInv, TypeOK, ReadBlock
<1>G. sock' \in SockStates /\ sock'.inbox = sock.inbox - 1 /\ sock'.sends = sock.sends
  <2>1. sock.inbox - 1 \in 0 .. MaxMessages
    BY ConstantsAssumption DEF IInv, TypeOK, SockStates, ReadBlock
  <2> QED BY <2>1 DEF IInv, TypeOK, SockStates, ReadBlock
<1>1. TypeOK'
  BY <1>F, <1>G DEF IInv, TypeOK, history, ReadBlock
<1>2. InboxInv'
  BY <1>G, ConstantsAssumption DEF IInv, InboxInv, TypeOK, SockStates
<1>3. ThreadInv'
  BY <1>F DEF IInv, ReadBlock, ThreadInv
<1>4. SockInv'
  BY DEF IInv, ReadBlock, SockInv
<1>5. EventInv'
  BY DEF IInv, ReadBlock, history, EventInv, Pending
<1>6. ToldInv'
  BY DEF IInv, ReadBlock, history, Pending, ToldInv
<1>7. QuietInv'
  BY DEF IInv, ReadBlock, Pending, QuietInv, Quiet
<1> QED BY <1>1, <1>2, <1>3, <1>4, <1>5, <1>6, <1>7 DEF IInv

LEMMA PushBlockKeeps ==
    ASSUME IInv, NEW g \in Conns, PushBlock(g)
    PROVE  IInv'
<1>E. thread[g].block \in Blocks /\ queue' = Append(queue, thread[g].block)
  BY DEF IInv, ThreadInv, PushBlock
<1>F. /\ thread' \in [Conns -> ThreadStates]
      /\ ThreadInv'
      /\ thread[g].pc = "push"
  BY ThreadRests DEF IInv, ThreadInv, PushBlock
<1>1. TypeOK'
  BY <1>E, <1>F, Pushed DEF IInv, TypeOK, history, PushBlock
<1>2. InboxInv'
  BY DEF IInv, PushBlock, InboxInv
<1>3. SockInv'
  BY DEF IInv, PushBlock, SockInv
<1>4. EventInv'
  <2>1. Len(queue) \in Nat /\ \A i \in 1 .. Len(queue) : queue'[i] = queue[i]
    BY <1>E, Pushed DEF IInv
  <2>2. \A i \in 1 .. Len(queue') : Pending(i)' => i \in 1 .. Len(queue) /\ Pending(i)
    BY <1>E, <2>1, Pushed DEF IInv, Pending, Blocks
  <2> QED BY <2>1, <2>2 DEF IInv, EventInv, PushBlock, history
<1>5. ToldInv'
  BY DEF IInv, PushBlock, history, Pending, ToldInv
<1>6. QuietInv'
  <2>1. sock.gen = 1 => g = 1
    BY <1>F DEF IInv, ThreadInv, Conns
  <2>2. \A i \in 1 .. Len(queue') : Pending(i)' => i \in 1 .. Len(queue) /\ Pending(i)
    BY <1>E, Pushed DEF IInv, Pending, Blocks
  <2>3. \A h \in Conns : thread'[h].pc = "push" => thread[h].pc = "push"
    BY ThreadRests DEF IInv, ThreadInv, PushBlock, TypeOK
  <2> QED BY <1>F, <2>1, <2>2, <2>3 DEF IInv, PushBlock, SockInv, QuietInv, Quiet
<1> QED BY <1>F, <1>1, <1>2, <1>3, <1>4, <1>5, <1>6 DEF IInv

LEMMA CancelKeeps ==
    ASSUME IInv, NEW g \in Conns, Cancel(g)
    PROVE  IInv'
BY ThreadRests, OnlyThreads DEF IInv, ThreadInv, Cancel

----------------------------------------------------------------------------
(* The invariant, and what it says *)

LEMMA InitEstablishes == Init => IInv
<1> SUFFICES ASSUME Init PROVE IInv
  OBVIOUS
<1>1. TypeOK
  BY ConstantsAssumption, EmptySeq
     DEF Init, TypeOK, SockStates, ThreadStates, MainLabels, NoConn
<1>2. InboxInv /\ ThreadInv /\ SockInv
  BY ConstantsAssumption DEF Init, InboxInv, ThreadInv, SockInv
<1>3. EventInv /\ ToldInv /\ QuietInv
  BY EmptySeq DEF Init, EventInv, ToldInv, QuietInv, NoConn, Conns
<1> QED BY <1>1, <1>2, <1>3 DEF IInv

LEMMA NextKeeps == IInv /\ [Next]_vars => IInv'
<1> SUFFICES ASSUME IInv, [Next]_vars PROVE IInv'
  OBVIOUS
<1>1. CASE UNCHANGED vars
  BY <1>1 DEF vars, IInv, TypeOK, InboxInv, ThreadInv, SockInv, EventInv, ToldInv,
              QuietInv, Quiet, Pending
<1>2. CASE PeerSends \/ PeerCloses
  BY <1>2, PeerSendsKeeps, PeerClosesKeeps
<1>3. CASE Connect \/ Update \/ SendFails
  BY <1>3, ConnectKeeps, UpdateKeeps, SendFailsKeeps
<1>4. CASE Poll
  BY <1>4, HandleDisconnectionKeeps, ReceiveKeeps DEF Poll
<1>5. CASE Disconnect \/ BeginDestroy
  BY <1>5, DisconnectKeeps, BeginDestroyKeeps
<1>6. CASE MainStep
  BY <1>6, ReplaceThreadKeeps, ExtractDisconnectionKeeps, ClearKeeps, JoinKeeps
     DEF MainStep
<1>7. ASSUME NEW g \in Conns, ThreadStep(g) \/ Cancel(g)
      PROVE  IInv'
  BY <1>7, TestConnectedKeeps, WaitDataKeeps, ReadPartKeeps, ReadBlockKeeps,
     ReadEndKeeps, ReadNothingKeeps, PushBlockKeeps, CancelKeeps DEF ThreadStep
<1>8. CASE Finished
  BY <1>1, <1>8 DEF Finished
<1> QED BY <1>1, <1>2, <1>3, <1>4, <1>5, <1>6, <1>7, <1>8 DEF Next

LEMMA InvariantHolds == Spec => []IInv
BY InitEstablishes, NextKeeps, PTL DEF Spec

(* The application hears of the end of each connection at most once, while  *)
(* no other is up: an event in the queue is about the connection whose end  *)
(* the client knows of and the application does not.                        *)
THEOREM ToldInOrderHolds == Spec => []ToldInOrder
<1>1. IInv => ToldInOrder
  BY DEF IInv, EventInv, ToldInv, Pending, ToldInOrder, ToldOnce, DisconnectionsOf
<1> QED BY <1>1, InvariantHolds, PTL

(* disconnect() of a socket that is still connected is never followed by    *)
(* the disconnection callback of this connection (buf_client.h:113).        *)
THEOREM DisconnectIsSilent == Spec => []ActiveDisconnectIsSilent
<1>1. IInv => ActiveDisconnectIsSilent
  BY DEF IInv, ToldInv, ActiveDisconnectIsSilent
<1> QED BY <1>1, InvariantHolds, PTL

(* The assertions of connect() and of the destructor hold as long as no     *)
(* flush has failed (buf_client.cpp:93 and 384).                            *)
THEOREM AssertionsHold == Spec => []PhysicalImpliesLogical
<1>1. IInv => PhysicalImpliesLogical
  BY DEF IInv, SockInv, PhysicalImpliesLogical
<1> QED BY <1>1, InvariantHolds, PTL

(* Nothing of the first connection is received after its end.               *)
THEOREM ReadBeforeTheEnd == Spec => []AllReadBeforeDisconnection
<1>1. IInv => AllReadBeforeDisconnection
  BY DEF IInv, QuietInv, Quiet, Pending, AllReadBeforeDisconnection, DisconnectionsOf
<1> QED BY <1>1, InvariantHolds, PTL
=============================================================================
