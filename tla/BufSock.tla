------------------------------ MODULE BufSock ------------------------------
(***************************************************************************)
(* One direction of a connection: CBufSock on the sending side, with its   *)
(* send queue, the buffer that flush() fills and sends, and the time and   *)
(* size triggers of update(); the byte stream of TCP; and                  *)
(* CNonBlockingBufSock::receivePart, which puts the blocks together again  *)
(* out of whatever parts arrive.                                           *)
(*                                                                         *)
(* On the wire a block is its length in HeaderSize bytes and its bytes.  A *)
(* byte is modelled as the block it comes from and its position, so that a *)
(* length is only read as such from the right bytes.                       *)
(***************************************************************************)
EXTENDS Integers, Sequences, SequencesExt, FiniteSetsExt, Folds

CONSTANTS HeaderSize,    \* sizeof(TBlockSize)
          Lengths,       \* lengths of the blocks that are sent
          MaxExpected,   \* _MaxExpectedBlockSize of the receiver
          WireSize,      \* bytes TCP holds before a send would block
          BigBuffer,     \* flush() drops the bytes sent when it is bigger, 20480
          ByTime,        \* the time trigger is enabled
          BySize,        \* the size trigger is enabled
          TriggerSize,   \* _TriggerSize when it is
          MaxBlocks,     \* bound: blocks sent
          Closes         \* the receiver may close the connection

ASSUME ConstantsAssumption ==
    /\ HeaderSize \in Nat \ {0} /\ WireSize \in Nat \ {0} /\ BigBuffer \in Nat
    /\ Lengths \subseteq Nat \ {0} /\ MaxExpected \in Nat /\ MaxBlocks \in Nat
    /\ TriggerSize \in Nat
    /\ {ByTime, BySize, Closes} \subseteq BOOLEAN

VARIABLES sendFifo,   \* SendFifo
          ready,      \* _ReadyToSendBuffer
          index,      \* _RTSBIndex
          due,        \* the time of the trigger has elapsed since the last flush
          error,      \* a send has failed: the connection is gone
          wire,       \* bytes sent and not received
          rcv,        \* the CNonBlockingBufSock that receives
          sent,       \* history: blocks pushed
          received    \* history: blocks received

sender == <<sendFifo, ready, index, due, error>>
vars == <<sender, wire, rcv, sent, received>>

Blocks == [num : 1 .. MaxBlocks, length : Lengths]
Bytes == [block : Blocks, at : Nat]

Receivers == [connected : BOOLEAN,      \* Sock->connected()
              reading : BOOLEAN,        \* _NowReadingBuffer
              length : Nat,             \* _Length, once it is complete
              got : Seq(Bytes)]         \* what is read of it, _BytesRead bytes

TypeOK ==
    /\ sendFifo \in Seq(Blocks)
    /\ ready \in Seq(Bytes)
    /\ index \in 0 .. Len(ready)
    /\ {due, error} \subseteq BOOLEAN
    /\ wire \in Seq(Bytes) /\ Len(wire) <= WireSize
    /\ rcv \in Receivers
    /\ sent \in Seq(Blocks) /\ received \in Seq(Blocks)

Init ==
    /\ sendFifo = <<>> /\ ready = <<>> /\ index = 0
    /\ due = FALSE /\ error = FALSE
    /\ wire = <<>>
    /\ rcv = [connected |-> TRUE, reading |-> FALSE, length |-> 0, got |-> <<>>]
    /\ sent = <<>> /\ received = <<>>

----------------------------------------------------------------------------
(* The sender *)

Whole(b) == HeaderSize + b.length

(* a block as bytes, the length first *)
Encode(b) == [i \in 1 .. Whole(b) |-> [block |-> b, at |-> i]]

(* slip: the send queue is read from the wrong end *)
Slip_EncodeAll(blocks) == FlattenSeq(Reverse([i \in 1 .. Len(blocks) |-> Encode(blocks[i])]))

EncodeAll(blocks) == FlattenSeq([i \in 1 .. Len(blocks) |-> Encode(blocks[i])])

(* SendFifo.size() counts a header of the same size for each block *)
QueueSize(fifo) == FoldLeft(LAMBDA n, b : n + Whole(b), 0, fifo)

Took(n, buf, from) == SubSeq(buf, from + 1, from + n)

(* slip: the index is not put back when the bytes sent are dropped *)
Slip_Sent(buf, from, n) ==
    LET end == from + n IN
    /\ wire' = wire \o Took(n, buf, from)
    /\ IF end = Len(buf) THEN ready' = <<>> /\ index' = 0
       ELSE IF Len(buf) > BigBuffer
       THEN ready' = SubSeq(buf, end + 1, Len(buf)) /\ index' = end
       ELSE ready' = buf /\ index' = end

(* after send() has taken n bytes of buf behind from *)
Sent(buf, from, n) ==
    LET end == from + n IN
    /\ wire' = wire \o Took(n, buf, from)
    /\ IF end = Len(buf) THEN ready' = <<>> /\ index' = 0
       ELSE IF Len(buf) > BigBuffer
       THEN ready' = SubSeq(buf, end + 1, Len(buf)) /\ index' = 0
       ELSE ready' = buf /\ index' = end

(* flush(): takes the send queue into the buffer and sends what TCP takes,  *)
(* nothing when it would block.  Once the peer has closed, send() succeeds  *)
(* until it fails, and then fails always.  ok is the returned value.        *)
Flush(fifo, ok) ==
    LET buf == ready \o EncodeAll(fifo)
        n == Min({WireSize - Len(wire), Len(buf) - index})
    IN
    /\ sendFifo' = <<>>
    /\ IF buf = <<>> THEN ok /\ UNCHANGED <<ready, index, wire, error>>
       ELSE \/ ok /\ ~error /\ Sent(buf, index, n) /\ UNCHANGED error
            \/ /\ ~ok /\ ~rcv.connected
               /\ ready' = <<>> /\ index' = 0
               /\ error' = TRUE
               /\ UNCHANGED wire

(* slip: a failed or incomplete flush is retried at the next call only if   *)
(* there is something new                                                   *)
Slip_UpdateWith(fifo) ==
    IF ByTime /\ due /\ fifo # <<>>
    THEN \E ok \in BOOLEAN : Flush(fifo, ok) /\ due' = ~ok
    ELSE sendFifo' = fifo /\ UNCHANGED <<ready, index, due, error, wire>>

(* update(), with fifo as the send queue *)
UpdateWith(fifo) ==
    IF ByTime /\ due
    THEN \E ok \in BOOLEAN : Flush(fifo, ok) /\ due' = ~ok
    ELSE IF BySize /\ QueueSize(fifo) > TriggerSize
    THEN \E ok \in BOOLEAN : Flush(fifo, ok) /\ UNCHANGED due
    ELSE sendFifo' = fifo /\ UNCHANGED <<ready, index, due, error, wire>>

Update ==
    /\ UpdateWith(sendFifo)
    /\ UNCHANGED <<rcv, sent, received>>

(* pushBuffer(), while the sender takes the socket for connected *)
PushBuffer(length) ==
    LET b == [num |-> Len(sent) + 1, length |-> length] IN
    /\ Len(sent) < MaxBlocks
    /\ UpdateWith(Append(sendFifo, b))
    /\ sent' = Append(sent, b)
    /\ UNCHANGED <<rcv, received>>

(* a call of flush() by the application *)
CallFlush ==
    /\ \E ok \in BOOLEAN : Flush(sendFifo, ok)
    /\ UNCHANGED <<due, rcv, sent, received>>

TimeElapses ==
    /\ ByTime /\ ~due
    /\ due' = TRUE
    /\ UNCHANGED <<sendFifo, ready, index, error, wire, rcv, sent, received>>

----------------------------------------------------------------------------
(* The receiver *)

(* recv() of at most n bytes *)
Recv(n) == SubSeq(wire, 1, Min({n, Len(wire)}))

Consume(bytes) == wire' = SubSeq(wire, Len(bytes) + 1, Len(wire))

(* slip: it takes the first bytes that come for the whole length *)
Slip_ReceiveLength ==
    LET bytes == Recv(HeaderSize) IN
    /\ rcv.connected /\ ~rcv.reading
    /\ wire # <<>>
    /\ Consume(bytes)
    /\ rcv' = [rcv EXCEPT !.reading = TRUE, !.got = <<>>, !.length = bytes[1].block.length]
    /\ UNCHANGED <<sender, sent, received>>

(* receivePart, first half: the length prefix, maybe in parts; a length     *)
(* that is too big throws, and the thread disconnects                       *)
ReceiveLength ==
    LET got == rcv.got \o Recv(HeaderSize - Len(rcv.got))
        length == got[1].block.length
    IN
    /\ rcv.connected /\ ~rcv.reading
    /\ wire # <<>>
    /\ Consume(Recv(HeaderSize - Len(rcv.got)))
    /\ rcv' = IF Len(got) < HeaderSize THEN [rcv EXCEPT !.got = got]
              ELSE IF length > MaxExpected THEN [rcv EXCEPT !.connected = FALSE, !.got = got]
              ELSE [rcv EXCEPT !.reading = TRUE, !.length = length, !.got = <<>>]
    /\ UNCHANGED <<sender, sent, received>>

(* receivePart, second half: the bytes of the block, maybe in parts *)
ReceivePayload ==
    LET got == rcv.got \o Recv(rcv.length - Len(rcv.got)) IN
    /\ rcv.connected /\ rcv.reading
    /\ wire # <<>>
    /\ Consume(Recv(rcv.length - Len(rcv.got)))
    /\ IF Len(got) = rcv.length
       THEN /\ rcv' = [rcv EXCEPT !.reading = FALSE, !.got = <<>>]
            /\ received' = Append(received, got[1].block)
       ELSE /\ rcv' = [rcv EXCEPT !.got = got]
            /\ UNCHANGED received
    /\ UNCHANGED <<sender, sent>>

Close ==
    /\ Closes /\ rcv.connected
    /\ rcv' = [rcv EXCEPT !.connected = FALSE]
    /\ UNCHANGED <<sender, wire, sent, received>>

Next ==
    \/ \E length \in Lengths : PushBuffer(length)
    \/ Update \/ CallFlush \/ TimeElapses
    \/ ReceiveLength \/ ReceivePayload \/ Close

Spec == Init /\ [][Next]_vars

(* update() is called evenly, time goes by and the receive thread runs *)
Fairness ==
    /\ SF_vars(Update)
    /\ WF_vars(TimeElapses)
    /\ WF_vars(ReceiveLength \/ ReceivePayload)

FairSpec == Spec /\ Fairness

----------------------------------------------------------------------------
(* Properties *)

Broken == error \/ ~rcv.connected

(* While the connection holds, the bytes under way are the blocks that are  *)
(* still to be received, each behind its length, with nothing between them: *)
(* the rest of the block being read, the wire, what flush() has left in its *)
(* buffer and the send queue.                                               *)
Pending == SubSeq(sent, Len(received) + 1, Len(sent))

BytesUnderWay ==
    LET lengthRead == IF rcv.reading THEN Took(HeaderSize, Encode(Pending[1]), 0) ELSE <<>>
        unsent == SubSeq(ready, index + 1, Len(ready))
    IN  lengthRead \o rcv.got \o wire \o unsent \o EncodeAll(sendFifo)

StreamIsWhole ==
    ~Broken => /\ rcv.reading => Pending # <<>> /\ rcv.length = Pending[1].length
               /\ BytesUnderWay = EncodeAll(Pending)

(* The bytes under way, and the types of what holds them. *)
BytesAreWhole == TypeOK /\ StreamIsWhole

(* The connection is a channel: blocks are received whole, once, in order,  *)
(* however they are cut by TCP and by the sends that would block.           *)
Abstract == INSTANCE Channel WITH broken <- Broken

ChannelSpec == Abstract!Spec

(* With the time trigger (the default, buf_sock.cpp:59) everything pushed   *)
(* is received as long as update() is called, although a send that would    *)
(* block leaves bytes behind.                                               *)
EverythingArrives ==
    \A n \in 1 .. MaxBlocks : Len(sent) >= n ~> Len(received) >= n \/ Broken
=============================================================================
