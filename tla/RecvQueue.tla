----------------------------- MODULE RecvQueue -----------------------------
(***************************************************************************)
(* The receive queue of layer 1 (CBufNetBase): a mutexed fifo, a volatile  *)
(* "data available" flag that saves taking the mutex, and a pipe that gets *)
(* one byte per message so that the main thread can sleep in select().     *)
(* Network threads push (pushMessageIntoReceiveQueue, buf_net_base.cpp:99) *)
(* and write the byte AFTER they have left the critical section; the main  *)
(* thread tests the flag, looks at the front, reads one byte and only then *)
(* handles the message (CBufServer::dataAvailable and receive,             *)
(* CBufClient::dataAvailable, receive and disconnect).  Several            *)
(* CBufNetBase objects may share one pipe (setExternalPipeForDataAvailable,*)
(* used by CUnifiedNetwork for all its connections).                       *)
(*                                                                         *)
(* A critical section of CFifoAccessor never blocks, so it is one step.    *)
(* write() and read() on the pipe block, so each is a step with a guard.   *)
(***************************************************************************)
EXTENDS Naturals, Sequences, FiniteSets

CONSTANTS Bases,       \* CBufNetBase objects that share the pipe
          Threads,     \* their network threads
          Owner,       \* Owner[t]: the object whose queue t pushes into
          Listeners,   \* the threads that push Connection events (CListenTask)
          Clients,     \* the objects that are CBufClient (they can be emptied)
          Main,        \* the main thread, a producer too (advertiseDisconnection)
          PipeCap,     \* capacity of the pipe, in bytes
          MaxPush,     \* bound: messages a network thread pushes
          MaxEvents,   \* bound: events the main thread pushes, per object
          MaxStale,    \* bound: disconnect is not called above this many
                       \* messages thrown away
          Blocking     \* the application uses sleepUntilDataAvailable ("don't
                       \* use dataAvailable()", buf_server.h:206), which is
                       \* only allowed on a pipe of one's own

ASSUME ConstantsAssumption ==
    /\ Owner \in [Threads -> Bases]
    /\ Listeners \subseteq Threads
    /\ Clients \subseteq Bases
    /\ Main \notin Threads
    /\ PipeCap \in Nat \ {0}
    /\ MaxPush \in Nat /\ MaxEvents \in Nat /\ MaxStale \in Nat
    /\ Blocking \in BOOLEAN
    /\ Blocking => \A b, c \in Bases : b = c

Producers == Threads \cup {Main}

VARIABLES fifo,        \* _RecvFifo of each object
          flag,        \* _DataAvailable of each object
          pipe,        \* bytes in the data available pipe
          tpc,         \* network threads: "idle", or "write" after the push
          mpc,         \* where the main thread is
          mbase,       \* the object whose method the main thread runs
          mval,        \* the event type it has read at the front of the queue
          msleep,      \* it is in sleepUntilDataAvailable, not dataAvailable
          mret,        \* where it goes on after a push of its own
          sent, got,   \* history: messages pushed and handed over (see Streams)
          stale        \* history: messages thrown away by disconnect

queueVars == <<fifo, flag, pipe>>
mainVars  == <<mpc, mbase, mval, msleep, mret>>
histVars  == <<sent, got, stale>>
vars == <<queueVars, tpc, mainVars, histVars>>

Types == {"User", "Event"}
Messages == [from : Producers, type : Types, num : Nat \ {0}]
MainLabels == {"idle", "select", "test", "front", "read", "ready",
               "callback", "extract", "write"}

TypeOK ==
    /\ fifo \in [Bases -> Seq(Messages)]
    /\ flag \in [Bases -> BOOLEAN]
    /\ pipe \in 0 .. PipeCap
    /\ tpc \in [Threads -> {"idle", "write"}]
    /\ mpc \in MainLabels
    /\ mbase \in Bases
    /\ mval \in Types
    /\ msleep \in BOOLEAN
    /\ mret \in {"idle", "callback"}
    /\ sent \in [Bases -> [Producers -> Nat]]
    /\ got \in [Bases -> [Producers -> Nat]]
    /\ stale \in Nat

Init ==
    /\ fifo = [b \in Bases |-> <<>>]
    /\ flag = [b \in Bases |-> FALSE]
    /\ pipe = 0
    /\ tpc = [t \in Threads |-> "idle"]
    /\ mpc = "idle"
    /\ mbase \in Bases
    /\ mval = "User"
    /\ msleep = FALSE
    /\ mret = "idle"
    /\ sent = [b \in Bases |-> [p \in Producers |-> 0]]
    /\ got = [b \in Bases |-> [p \in Producers |-> 0]]
    /\ stale = 0

----------------------------------------------------------------------------
(* Definitions named Slip_... are variants of the definition that follows  *)
(* them, with a mistake a change of the code could make.  No action uses   *)
(* them: they show that the properties below would notice.                 *)

(* the new message goes to the wrong end *)
Slip_PushFront(b, p, ty) ==
    /\ fifo' = [fifo EXCEPT ![b] =
                    <<[from |-> p, type |-> ty, num |-> sent[b][p] + 1]>> \o @]
    /\ flag' = [flag EXCEPT ![b] = TRUE]
    /\ sent' = [sent EXCEPT ![b][p] = @ + 1]
    /\ UNCHANGED <<got, stale>>

(* pushMessageIntoReceiveQueue, the critical section *)
Push(b, p, ty) ==
    /\ fifo' = [fifo EXCEPT ![b] =
                    Append(@, [from |-> p, type |-> ty, num |-> sent[b][p] + 1])]
    /\ flag' = [flag EXCEPT ![b] = TRUE]
    /\ sent' = [sent EXCEPT ![b][p] = @ + 1]
    /\ UNCHANGED <<got, stale>>

(* the flag is reset whatever is left in the queue *)
Slip_PopResetsFlag(b) ==
    /\ fifo[b] # <<>>
    /\ fifo' = [fifo EXCEPT ![b] = Tail(@)]
    /\ flag' = [flag EXCEPT ![b] = FALSE]
    /\ got' = [got EXCEPT ![b][Head(fifo[b]).from] = Head(fifo[b]).num]
    /\ UNCHANGED <<sent, stale>>

(* the flag is not updated *)
Slip_PopKeepsFlag(b) ==
    /\ fifo[b] # <<>>
    /\ fifo' = [fifo EXCEPT ![b] = Tail(@)]
    /\ got' = [got EXCEPT ![b][Head(fifo[b]).from] = Head(fifo[b]).num]
    /\ UNCHANGED <<flag, sent, stale>>

(* all messages of the queue are taken, only the newest is handed over *)
Slip_PopNewest(b) ==
    LET newest == fifo[b][Len(fifo[b])] IN
    /\ fifo[b] # <<>>
    /\ fifo' = [fifo EXCEPT ![b] = <<>>]
    /\ flag' = [flag EXCEPT ![b] = FALSE]
    /\ got' = [got EXCEPT ![b][newest.from] = newest.num]
    /\ UNCHANGED <<sent, stale>>

(* pop() followed by setDataAvailableFlag( ! empty() ), under the lock *)
Pop(b) ==
    /\ fifo[b] # <<>>
    /\ fifo' = [fifo EXCEPT ![b] = Tail(@)]
    /\ flag' = [flag EXCEPT ![b] = Tail(fifo[b]) # <<>>]
    /\ got' = [got EXCEPT ![b][Head(fifo[b]).from] = Head(fifo[b]).num]
    /\ UNCHANGED <<sent, stale>>

(* write() of one byte, which blocks while the pipe is full *)
WriteByte == pipe < PipeCap /\ pipe' = pipe + 1

(* read() does not block *)
Slip_ReadAnyway == pipe' = pipe - 1

(* read() of one byte, which blocks while the pipe is empty *)
ReadByte == pipe > 0 /\ pipe' = pipe - 1

----------------------------------------------------------------------------
(* Network threads *)

ThreadPush(t) ==
    /\ tpc[t] = "idle"
    /\ sent[Owner[t]][t] < MaxPush
    /\ Push(Owner[t], t, IF t \in Listeners THEN "Event" ELSE "User")
    /\ tpc' = [tpc EXCEPT ![t] = "write"]
    /\ UNCHANGED <<pipe, mainVars>>

(* the byte is only written for a message that finds the queue empty *)
Slip_WriteIfEmpty(t) ==
    /\ tpc[t] = "write"
    /\ IF Len(fifo[Owner[t]]) <= 1 THEN WriteByte ELSE UNCHANGED pipe
    /\ tpc' = [tpc EXCEPT ![t] = "idle"]
    /\ UNCHANGED <<fifo, flag, mainVars, histVars>>

ThreadWrite(t) ==
    /\ tpc[t] = "write"
    /\ WriteByte
    /\ tpc' = [tpc EXCEPT ![t] = "idle"]
    /\ UNCHANGED <<fifo, flag, mainVars, histVars>>

----------------------------------------------------------------------------
(* Main thread: dataAvailable and sleepUntilDataAvailable *)

CallDataAvailable(b) ==
    /\ mpc = "idle" /\ ~Blocking
    /\ mpc' = "test"
    /\ mbase' = b
    /\ msleep' = FALSE
    /\ UNCHANGED <<queueVars, tpc, mval, mret, histVars>>

CallSleep(b) ==
    /\ mpc = "idle" /\ Blocking
    /\ mpc' = "select"
    /\ mbase' = b
    /\ msleep' = TRUE
    /\ UNCHANGED <<queueVars, tpc, mval, mret, histVars>>

(* select() returns because the pipe is readable or usecMax has elapsed *)
Select ==
    /\ mpc = "select"
    /\ mpc' = "test"
    /\ UNCHANGED <<queueVars, tpc, mbase, mval, msleep, mret, histVars>>

TestFlag ==
    /\ mpc = "test"
    /\ mpc' = IF flag[mbase] THEN "front"
              ELSE IF msleep THEN "select" ELSE "idle"
    /\ UNCHANGED <<queueVars, tpc, mbase, mval, msleep, mret, histVars>>

Front ==
    /\ mpc = "front"
    /\ fifo[mbase] # <<>>
    /\ mval' = Head(fifo[mbase]).type
    /\ mpc' = "read"
    /\ UNCHANGED <<queueVars, tpc, mbase, msleep, mret, histVars>>

(* only the messages that receive() will pop have a byte *)
Slip_ReadForUserOnly ==
    /\ mpc = "read"
    /\ IF mval = "User" THEN ReadByte ELSE UNCHANGED pipe
    /\ mpc' = IF mval = "User" THEN "ready" ELSE "callback"
    /\ UNCHANGED <<fifo, flag, tpc, mbase, mval, msleep, mret, histVars>>

ReadPipe ==
    /\ mpc = "read"
    /\ ReadByte
    /\ mpc' = IF mval = "User" THEN "ready" ELSE "callback"
    /\ UNCHANGED <<fifo, flag, tpc, mbase, mval, msleep, mret, histVars>>

(* the connection or disconnection callback returns *)
CallbackReturns ==
    /\ mpc = "callback"
    /\ mpc' = "extract"
    /\ UNCHANGED <<queueVars, tpc, mbase, mval, msleep, mret, histVars>>

ExtractEvent ==
    /\ mpc = "extract"
    /\ Pop(mbase)
    /\ mpc' = "test"
    /\ UNCHANGED <<pipe, tpc, mbase, mval, msleep, mret>>

(* dataAvailable has returned true: the application calls receive *)
Receive ==
    /\ mpc = "ready"
    /\ Pop(mbase)
    /\ mpc' = "idle"
    /\ UNCHANGED <<pipe, tpc, mbase, mval, msleep, mret>>

----------------------------------------------------------------------------
(* Main thread: pushes of its own, from update() or send(), which the      *)
(* application calls between two receptions or inside a callback           *)

MainPush(b) ==
    /\ mpc \in {"idle", "callback"}
    /\ sent[b][Main] < MaxEvents
    /\ Push(b, Main, "Event")
    /\ mret' = mpc
    /\ mpc' = "write"
    /\ UNCHANGED <<pipe, tpc, mbase, mval, msleep>>

MainWrite ==
    /\ mpc = "write"
    /\ WriteByte
    /\ mpc' = mret
    /\ UNCHANGED <<fifo, flag, tpc, mbase, mval, msleep, mret, histVars>>

(* disconnect also drains the pipe, which may hold the bytes of others *)
Slip_ClearDrainsPipe(b) ==
    /\ mpc = "idle"
    /\ b \in Clients
    /\ stale < MaxStale
    /\ fifo[b] # <<>>
    /\ fifo' = [fifo EXCEPT ![b] = <<>>]
    /\ flag' = [flag EXCEPT ![b] = FALSE]
    /\ got' = [got EXCEPT ![b] = sent[b]]
    /\ stale' = stale + Len(fifo[b])
    /\ pipe' = 0
    /\ UNCHANGED <<tpc, mainVars, sent>>

(* CBufClient::disconnect empties the queue; the bytes stay in the pipe *)
Clear(b) ==
    /\ mpc = "idle"
    /\ b \in Clients
    /\ stale < MaxStale
    /\ fifo[b] # <<>>
    /\ fifo' = [fifo EXCEPT ![b] = <<>>]
    /\ flag' = [flag EXCEPT ![b] = FALSE]
    /\ got' = [got EXCEPT ![b] = sent[b]]
    /\ stale' = stale + Len(fifo[b])
    /\ UNCHANGED <<pipe, tpc, mainVars, sent>>

----------------------------------------------------------------------------
MainStep ==
    \/ Select \/ TestFlag \/ Front \/ ReadPipe
    \/ CallbackReturns \/ ExtractEvent \/ Receive \/ MainWrite

Next ==
    \/ \E t \in Threads : ThreadPush(t) \/ ThreadWrite(t)
    \/ \E b \in Bases : CallDataAvailable(b) \/ CallSleep(b)
                        \/ MainPush(b) \/ Clear(b)
    \/ MainStep

Spec == Init /\ [][Next]_vars

(* A thread in write() goes on when there is room, the main thread never   *)
(* stops inside a call, and the application polls every object again and   *)
(* again (the update loops of layers 3 and 5).                             *)
Fairness ==
    /\ \A t \in Threads : WF_vars(ThreadWrite(t))
    /\ WF_vars(MainStep)
    /\ \A b \in Bases : SF_vars(CallDataAvailable(b) \/ CallSleep(b))

FairSpec == Spec /\ Fairness

----------------------------------------------------------------------------
(* Properties *)

(* the messages in the queues, one by one *)
Cells == UNION {{b} \X (1 .. Len(fifo[b])) : b \in Bases}

Queued == Cardinality(Cells)

Writing == {t \in Threads : tpc[t] = "write"}
           \cup (IF mpc = "write" THEN {Main} ELSE {})

(* The main thread has read the byte of a message it has not popped yet:   *)
(* it is between read() and pop(), possibly in a push made by a callback.  *)
InHand ==
    IF \/ mpc \in {"ready", "callback", "extract"}
       \/ mpc = "write" /\ mret = "callback"
    THEN 1 ELSE 0

(* Every byte in the pipe, every byte a thread has still to write and the  *)
(* byte in the main thread's hand stand for exactly one message that is in *)
(* a queue, or that disconnect has thrown away: no byte is read twice or   *)
(* written for nothing although the push and the write are not atomic.     *)
Ledger == pipe + Cardinality(Writing) + InHand = Queued + stale

(* "if the main thread sees the Data Available flag is true but the pipe   *)
(* not written yet, it will block on read()" (buf_net_base.cpp:112): when  *)
(* it does, another thread is about to write, so it blocks for a moment    *)
(* only, whatever object's byte it gets from a shared pipe.                *)
ReadNeverStuck ==
    mpc = "read" => pipe > 0 \/ \E t \in Threads : tpc[t] = "write"

(* The event type is read in one critical section and the message popped   *)
(* in a later one: it is still the same message, whatever was pushed in    *)
(* between, and neither front() nor pop() meets an empty queue ("Because   *)
(* _DataAvailable is true, the receive queue is not empty at this point",  *)
(* buf_server.cpp:389; nlassert( ! empty() ) and the event type asserted   *)
(* in receive, :534 and :542).                                             *)
FrontIsStable ==
    /\ mpc = "front" => fifo[mbase] # <<>>
    /\ \/ mpc = "read" \/ InHand = 1
       => /\ fifo[mbase] # <<>>
          /\ Head(fifo[mbase]).type = mval
    /\ mpc = "ready" => mval = "User"
    /\ InHand = 1 /\ mpc # "ready" => mval = "Event"

(* The unlocked test of the flag loses no wake-up: outside the critical    *)
(* sections the flag says whether the queue holds something.               *)
FlagIsExact == \A b \in Bases : flag[b] <=> fifo[b] # <<>>

(* The messages of one producer that are in a queue are exactly those it   *)
(* has pushed and the queue has not handed over, in the order of pushing,  *)
(* however the pushes of several threads interleave in one fifo.           *)
QueueOrder ==
    \A b \in Bases :
        /\ \A p \in Producers : got[b][p] <= sent[b][p]
        /\ \A i \in 1 .. Len(fifo[b]) :
              fifo[b][i].num \in got[b][fifo[b][i].from] + 1 .. sent[b][fifo[b][i].from]
        /\ \A i, j \in 1 .. Len(fifo[b]) :
              i < j /\ fifo[b][i].from = fifo[b][j].from
                 => fifo[b][i].num < fifo[b][j].num
        /\ \A p \in Producers : \A n \in got[b][p] + 1 .. sent[b][p] :
              \E i \in 1 .. Len(fifo[b]) : fifo[b][i].from = p /\ fifo[b][i].num = n

(* Refinement: every queue is a set of ordered streams without loss or     *)
(* duplication.                                                            *)
Abstract == INSTANCE Streams
StreamsSpec == Abstract!Spec

(* Whatever has been pushed is handed over (or emptied by disconnect),     *)
(* although the writers may have to wait for the main thread to drain the  *)
(* pipe.                                                                   *)
EverythingDelivered ==
    \A b \in Bases : \A p \in Producers : \A n \in 1 .. MaxPush + MaxEvents :
        sent[b][p] >= n ~> got[b][p] >= n
=============================================================================
