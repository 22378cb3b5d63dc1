-------------------------- MODULE RecvQueue_proofs --------------------------
(***************************************************************************)
(* Proofs about RecvQueue, for every number of objects, threads and        *)
(* messages and every capacity of the pipe.                                *)
(***************************************************************************)
EXTENDS RecvQueue, FiniteSetTheorems, SequenceTheorems, TLAPS

(* What each of the two changes of a queue does, as facts on sequences *)
LEMMA PushFacts ==
    ASSUME TypeOK, NEW b \in Bases, NEW p \in Producers, NEW ty \in Types,
           Push(b, p, ty)
    PROVE  /\ fifo' \in [Bases -> Seq(Messages)]
           /\ flag' \in [Bases -> BOOLEAN]
           /\ sent' \in [Bases -> [Producers -> Nat]]
           /\ Len(fifo'[b]) = Len(fifo[b]) + 1
           /\ \A i \in 1 .. Len(fifo[b]) : fifo'[b][i] = fifo[b][i]
           /\ fifo'[b][Len(fifo[b]) + 1]
                = [from |-> p, type |-> ty, num |-> sent[b][p] + 1]
           /\ \A c \in Bases \ {b} : fifo'[c] = fifo[c] /\ sent'[c] = sent[c]
           /\ fifo'[b] # <<>>
<1> DEFINE m == [from |-> p, type |-> ty, num |-> sent[b][p] + 1]
<1>1. m \in Messages
  BY DEF TypeOK, Messages, Producers
<1>2. fifo[b] \in Seq(Messages)
  BY DEF TypeOK
<1>3. fifo' = [fifo EXCEPT ![b] = Append(fifo[b], m)]
  BY DEF Push
<1>4. /\ Append(fifo[b], m) \in Seq(Messages)
      /\ Len(Append(fifo[b], m)) = Len(fifo[b]) + 1
      /\ \A i \in 1 .. Len(fifo[b]) : Append(fifo[b], m)[i] = fifo[b][i]
      /\ Append(fifo[b], m)[Len(fifo[b]) + 1] = m
  <2> HIDE DEF m
  <2> QED BY <1>1, <1>2, AppendProperties
<1>5. fifo'[b] = Append(fifo[b], m)
  BY <1>3 DEF TypeOK
<1>6. fifo'[b] # <<>>
  <2> HIDE DEF m
  <2> QED BY <1>1, <1>2, <1>4, <1>5, AppendProperties
<1>7. sent' \in [Bases -> [Producers -> Nat]] /\ flag' \in [Bases -> BOOLEAN]
  BY DEF TypeOK, Push
<1>8. fifo' \in [Bases -> Seq(Messages)]
  <2> HIDE DEF m
  <2> QED BY <1>3, <1>4 DEF TypeOK
<1>9. \A c \in Bases \ {b} : fifo'[c] = fifo[c] /\ sent'[c] = sent[c]
  BY DEF Push, TypeOK
<1> QED BY <1>4, <1>5, <1>6, <1>7, <1>8, <1>9

LEMMA PopFacts ==
    ASSUME TypeOK, NEW b \in Bases, Pop(b)
    PROVE  /\ fifo' \in [Bases -> Seq(Messages)]
           /\ flag' \in [Bases -> BOOLEAN]
           /\ got' \in [Bases -> [Producers -> Nat]]
           /\ Len(fifo[b]) \in Nat \ {0}
           /\ Len(fifo'[b]) = Len(fifo[b]) - 1
           /\ \A i \in 1 .. Len(fifo'[b]) : fifo'[b][i] = fifo[b][i + 1]
           /\ Head(fifo[b]) \in Messages
           /\ Head(fifo[b]) = fifo[b][1]
           /\ fifo'[b] = Tail(fifo[b])
           /\ \A c \in Bases \ {b} : fifo'[c] = fifo[c] /\ got'[c] = got[c]
<1>1. fifo[b] \in Seq(Messages) /\ fifo[b] # <<>>
  BY DEF TypeOK, Pop
<1>2. /\ Head(fifo[b]) \in Messages
      /\ Tail(fifo[b]) \in Seq(Messages)
      /\ Len(Tail(fifo[b])) = Len(fifo[b]) - 1
      /\ \A i \in 1 .. Len(Tail(fifo[b])) : Tail(fifo[b])[i] = fifo[b][i + 1]
  BY <1>1, HeadTailProperties
<1>3. Len(fifo[b]) \in Nat \ {0} /\ Head(fifo[b]) = fifo[b][1]
  BY <1>1, EmptySeq
<1>4. fifo'[b] = Tail(fifo[b]) /\ fifo' \in [Bases -> Seq(Messages)]
  BY <1>2 DEF TypeOK, Pop
<1>5. flag' \in [Bases -> BOOLEAN]
  BY DEF TypeOK, Pop
<1>6. got' \in [Bases -> [Producers -> Nat]]
  BY <1>2 DEF TypeOK, Pop, Messages
<1>7. \A c \in Bases \ {b} : fifo'[c] = fifo[c] /\ got'[c] = got[c]
  BY DEF TypeOK, Pop
<1> QED BY <1>2, <1>3, <1>4, <1>5, <1>6, <1>7

(* TypeOK is inductive on its own. *)
LEMMA TypeStep == TypeOK /\ [Next]_vars => TypeOK'
<1> SUFFICES ASSUME TypeOK, [Next]_vars PROVE TypeOK'
  OBVIOUS
<1> USE ConstantsAssumption
<1>1. ASSUME NEW t \in Threads, ThreadPush(t) PROVE TypeOK'
  <2>1. Owner[t] \in Bases /\ t \in Producers
    BY DEF Producers
  <2>2. PICK ty \in Types : Push(Owner[t], t, ty)
    BY <1>1 DEF ThreadPush, Types
  <2>3. /\ fifo' \in [Bases -> Seq(Messages)]
        /\ flag' \in [Bases -> BOOLEAN]
        /\ sent' \in [Bases -> [Producers -> Nat]]
    BY <2>1, <2>2, PushFacts
  <2> QED BY <1>1, <2>2, <2>3 DEF TypeOK, ThreadPush, Push, mainVars
<1>2. ASSUME NEW t \in Threads, ThreadWrite(t) PROVE TypeOK'
  BY <1>2 DEF TypeOK, ThreadWrite, WriteByte, mainVars, histVars
<1>3. ASSUME NEW b \in Bases, CallDataAvailable(b) \/ CallSleep(b) PROVE TypeOK'
  BY <1>3 DEF TypeOK, CallDataAvailable, CallSleep, queueVars, histVars, MainLabels
<1>4. ASSUME NEW b \in Bases, MainPush(b) PROVE TypeOK'
  <2>1. Main \in Producers /\ "Event" \in Types
    BY DEF Producers, Types
  <2>2. Push(b, Main, "Event")
    BY <1>4 DEF MainPush
  <2>3. /\ fifo' \in [Bases -> Seq(Messages)]
        /\ flag' \in [Bases -> BOOLEAN]
        /\ sent' \in [Bases -> [Producers -> Nat]]
    BY <2>1, <2>2, PushFacts
  <2> QED BY <1>4, <2>2, <2>3 DEF TypeOK, MainPush, Push, MainLabels
<1>5. ASSUME NEW b \in Bases, Clear(b) PROVE TypeOK'
  <2>1. /\ fifo' \in [Bases -> Seq(Messages)]
        /\ flag' \in [Bases -> BOOLEAN]
        /\ got' \in [Bases -> [Producers -> Nat]]
    BY <1>5, EmptySeq DEF TypeOK, Clear
  <2>2. stale' \in Nat
    BY <1>5, LenProperties DEF TypeOK, Clear
  <2> QED BY <1>5, <2>1, <2>2 DEF TypeOK, Clear, mainVars
<1>6. ASSUME Select \/ TestFlag \/ ReadPipe \/ CallbackReturns \/ MainWrite
      PROVE  TypeOK'
  BY <1>6 DEF TypeOK, Select, TestFlag, ReadPipe, CallbackReturns, MainWrite,
              ReadByte, WriteByte, queueVars, histVars, MainLabels
<1>7. ASSUME Front PROVE TypeOK'
  <2>1. Head(fifo[mbase]) \in Messages
    BY <1>7, HeadTailProperties DEF TypeOK, Front
  <2> QED BY <1>7, <2>1 DEF TypeOK, Front, Messages, queueVars, histVars, MainLabels
<1>8. ASSUME ExtractEvent \/ Receive PROVE TypeOK'
  <2>1. Pop(mbase) /\ mbase \in Bases
    BY <1>8 DEF ExtractEvent, Receive, TypeOK
  <2>2. /\ fifo' \in [Bases -> Seq(Messages)]
        /\ flag' \in [Bases -> BOOLEAN]
        /\ got' \in [Bases -> [Producers -> Nat]]
    BY <2>1, PopFacts
  <2> QED BY <1>8, <2>1, <2>2 DEF TypeOK, ExtractEvent, Receive, Pop, MainLabels
<1>9. CASE UNCHANGED vars
  BY <1>9 DEF TypeOK, vars, queueVars, mainVars, histVars
<1> QED BY <1>1, <1>2, <1>3, <1>4, <1>5, <1>6, <1>7, <1>8, <1>9 DEF Next, MainStep

LEMMA TypeInit == Init => TypeOK
<1> SUFFICES ASSUME Init PROVE TypeOK
  OBVIOUS
<1>1. fifo \in [Bases -> Seq(Messages)] /\ flag \in [Bases -> BOOLEAN]
  BY DEF Init
<1>2. pipe \in 0 .. PipeCap /\ tpc \in [Threads -> {"idle", "write"}]
  BY ConstantsAssumption DEF Init
<1>3. /\ mpc \in MainLabels /\ mbase \in Bases /\ mval \in Types
      /\ msleep \in BOOLEAN /\ mret \in {"idle", "callback"}
  BY DEF Init, MainLabels, Types
<1>4. /\ sent \in [Bases -> [Producers -> Nat]]
      /\ got \in [Bases -> [Producers -> Nat]]
      /\ stale \in Nat
  BY DEF Init
<1> QED BY <1>1, <1>2, <1>3, <1>4 DEF TypeOK

(* Type correctness of the receive queue. *)
THEOREM TypeCorrect == Spec => []TypeOK
  BY TypeInit, TypeStep, PTL DEF Spec
----------------------------------------------------------------------------
(* FlagIsExact and FrontIsStable: the main thread is the only one that     *)
(* pops, so what it has seen at the front stays there.                     *)

FrontInv == TypeOK /\ FlagIsExact /\ FrontIsStable

LEMMA FrontInit == Init => FrontInv
  BY TypeInit DEF Init, FrontInv, FlagIsExact, FrontIsStable, InHand

(* A push appends, so it keeps the head of a queue that is not empty. *)
LEMMA PushKeepsHead ==
    ASSUME TypeOK, NEW b \in Bases, NEW p \in Producers, NEW ty \in Types,
           Push(b, p, ty)
    PROVE  \A c \in Bases : fifo[c] # <<>> =>
               fifo'[c] # <<>> /\ Head(fifo'[c]) = Head(fifo[c])
<1> SUFFICES ASSUME NEW c \in Bases, fifo[c] # <<>>
             PROVE  fifo'[c] # <<>> /\ Head(fifo'[c]) = Head(fifo[c])
  OBVIOUS
<1>1. CASE c # b
  BY <1>1, PushFacts
<1>2. CASE c = b
  <2>1. fifo[b] \in Seq(Messages) /\ fifo'[b] \in Seq(Messages) /\ fifo'[b] # <<>>
    BY PushFacts DEF TypeOK
  <2>2. Len(fifo[b]) \in Nat \ {0}
    BY <1>2, <2>1, EmptySeq
  <2>3. Head(fifo[b]) = fifo[b][1] /\ Head(fifo'[b]) = fifo'[b][1]
    BY <1>2, <2>1, EmptySeq
  <2>4. fifo'[b][1] = fifo[b][1]
    <3>1. 1 \in 1 .. Len(fifo[b])
      BY <2>2
    <3>2. \A i \in 1 .. Len(fifo[b]) : fifo'[b][i] = fifo[b][i]
      BY PushFacts
    <3> QED BY <3>1, <3>2
  <2> QED BY <1>2, <2>1, <2>3, <2>4
<1> QED BY <1>1, <1>2

LEMMA FrontStep == FrontInv /\ [Next]_vars => FrontInv'
<1> SUFFICES ASSUME FrontInv, [Next]_vars PROVE FrontInv'
  OBVIOUS
<1> USE ConstantsAssumption
<1>0. TypeOK /\ TypeOK'
  BY TypeStep DEF FrontInv
<1>1. ASSUME NEW b \in Bases, NEW p \in Producers, NEW ty \in Types, Push(b, p, ty)
      PROVE  /\ FlagIsExact'
             /\ \A c \in Bases : fifo[c] # <<>> =>
                    fifo'[c] # <<>> /\ Head(fifo'[c]) = Head(fifo[c])
  <2>1. \A c \in Bases : fifo[c] # <<>> =>
            fifo'[c] # <<>> /\ Head(fifo'[c]) = Head(fifo[c])
    BY <1>0, <1>1, PushKeepsHead
  <2>2. /\ fifo'[b] # <<>> /\ \A c \in Bases \ {b} : fifo'[c] = fifo[c]
    BY <1>0, <1>1, PushFacts
  <2>3. flag' = [flag EXCEPT ![b] = TRUE] /\ flag \in [Bases -> BOOLEAN]
    BY <1>0, <1>1 DEF Push, TypeOK
  <2>4. \A c \in Bases : flag[c] <=> fifo[c] # <<>>
    BY DEF FrontInv, FlagIsExact
  <2>5. FlagIsExact'
    BY <2>2, <2>3, <2>4 DEF FlagIsExact
  <2> QED BY <2>1, <2>5
<1>2. ASSUME NEW t \in Threads, ThreadPush(t) PROVE FrontInv'
  <2>1. PICK ty \in Types : Push(Owner[t], t, ty)
    BY <1>2 DEF ThreadPush, Types
  <2>2. Owner[t] \in Bases /\ t \in Producers
    BY DEF Producers
  <2>3. FrontIsStable'
    BY <1>0, <1>1, <1>2, <2>1, <2>2
       DEF FrontInv, FrontIsStable, InHand, TypeOK, ThreadPush, mainVars
  <2> QED BY <1>0, <1>1, <2>1, <2>2, <2>3 DEF FrontInv
<1>3. ASSUME NEW b \in Bases, MainPush(b) PROVE FrontInv'
  <2>1. Main \in Producers /\ "Event" \in Types /\ Push(b, Main, "Event")
    BY <1>3 DEF MainPush, Producers, Types
  <2>2. FrontIsStable'
    BY <1>0, <1>1, <1>3, <2>1 DEF FrontInv, FrontIsStable, InHand, TypeOK, MainPush
  <2> QED BY <1>0, <1>1, <2>1, <2>2 DEF FrontInv
<1>4. ASSUME ExtractEvent \/ Receive PROVE FrontInv'
  <2>1. Pop(mbase) /\ mbase \in Bases
    BY <1>0, <1>4 DEF ExtractEvent, Receive, TypeOK
  <2>2. FlagIsExact'
    BY <1>0, <2>1, PopFacts DEF FrontInv, FlagIsExact, Pop, TypeOK
  <2>3. FrontIsStable'
    BY <1>4 DEF ExtractEvent, Receive, FrontIsStable, InHand
  <2> QED BY <1>0, <2>2, <2>3 DEF FrontInv
<1>5. ASSUME NEW b \in Bases, Clear(b) PROVE FrontInv'
  <2>1. FlagIsExact'
    BY <1>0, <1>5 DEF FrontInv, FlagIsExact, Clear, TypeOK
  <2>2. FrontIsStable'
    BY <1>5 DEF Clear, FrontIsStable, InHand, mainVars
  <2> QED BY <1>0, <2>1, <2>2 DEF FrontInv
<1>6. ASSUME NEW t \in Threads, ThreadWrite(t) PROVE FrontInv'
  BY <1>0, <1>6
     DEF ThreadWrite, FrontInv, FlagIsExact, FrontIsStable, InHand, mainVars
<1>7. ASSUME NEW b \in Bases, CallDataAvailable(b) \/ CallSleep(b) PROVE FrontInv'
  BY <1>0, <1>7 DEF CallDataAvailable, CallSleep, queueVars,
                    FrontInv, FlagIsExact, FrontIsStable, InHand
<1>8. ASSUME Select \/ TestFlag \/ Front PROVE FrontInv'
  BY <1>0, <1>8 DEF Select, TestFlag, Front, queueVars, FrontInv, TypeOK,
                    FlagIsExact, FrontIsStable, InHand
<1>9. ASSUME ReadPipe \/ CallbackReturns \/ MainWrite PROVE FrontInv'
  BY <1>0, <1>9 DEF ReadPipe, CallbackReturns, MainWrite, queueVars, FrontInv,
                    TypeOK, Types, FlagIsExact, FrontIsStable, InHand
<1>10. CASE UNCHANGED vars
  BY <1>0, <1>10 DEF vars, queueVars, mainVars, FrontInv, FlagIsExact,
                     FrontIsStable, InHand
<1> QED BY <1>2, <1>3, <1>4, <1>5, <1>6, <1>7, <1>8, <1>9, <1>10 DEF Next, MainStep

(* The front the main thread has looked at is the front it pops. *)
THEOREM FrontStays == Spec => []FrontIsStable
<1>1. Spec => []FrontInv
  BY FrontInit, FrontStep, PTL DEF Spec
<1> QED BY <1>1, PTL DEF FrontInv

(* The unlocked flag loses no wake-up. *)
THEOREM FlagStaysExact == Spec => []FlagIsExact
<1>1. Spec => []FrontInv
  BY FrontInit, FrontStep, PTL DEF Spec
<1> QED BY <1>1, PTL DEF FrontInv
----------------------------------------------------------------------------
(* Ledger: the two sets it counts change by one element at a time. *)

LEMMA PushCells ==
    ASSUME TypeOK, NEW b \in Bases, NEW p \in Producers, NEW ty \in Types,
           Push(b, p, ty)
    PROVE  /\ Cells' = Cells \cup {<<b, Len(fifo[b]) + 1>>}
           /\ <<b, Len(fifo[b]) + 1>> \notin Cells
<1>1. Len(fifo[b]) \in Nat
  BY LenProperties DEF TypeOK
<1>2. Len(fifo'[b]) = Len(fifo[b]) + 1
  BY PushFacts
<1>3. \A c \in Bases \ {b} : Len(fifo'[c]) = Len(fifo[c])
  BY PushFacts
<1>4. 1 .. Len(fifo'[b]) = (1 .. Len(fifo[b])) \cup {Len(fifo[b]) + 1}
  BY <1>1, <1>2
<1>5. Cells' = Cells \cup {<<b, Len(fifo[b]) + 1>>}
  <2> DEFINE n == Len(fifo[b])
  <2>1. ASSUME NEW x PROVE x \in Cells' <=> x \in Cells \/ x = <<b, n + 1>>
    <3>1. x \in Cells' <=> \E c \in Bases : x \in {c} \X (1 .. Len(fifo'[c]))
      BY DEF Cells
    <3>2. x \in Cells <=> \E c \in Bases : x \in {c} \X (1 .. Len(fifo[c]))
      BY DEF Cells
    <3>3. x \in {b} \X (1 .. Len(fifo'[b]))
            <=> x \in {b} \X (1 .. n) \/ x = <<b, n + 1>>
      BY <1>4
    <3>4. \A c \in Bases \ {b} :
            x \in {c} \X (1 .. Len(fifo'[c])) <=> x \in {c} \X (1 .. Len(fifo[c]))
      BY <1>3
    <3> QED BY <3>1, <3>2, <3>3, <3>4
  <2> QED BY <2>1
<1>6. <<b, Len(fifo[b]) + 1>> \notin Cells
  BY <1>1 DEF Cells
<1> QED BY <1>5, <1>6

LEMMA PopCells ==
    ASSUME TypeOK, NEW b \in Bases, Pop(b)
    PROVE  /\ Cells' = Cells \ {<<b, Len(fifo[b])>>}
           /\ <<b, Len(fifo[b])>> \in Cells
<1> DEFINE n == Len(fifo[b])
<1>1. n \in Nat \ {0} /\ Len(fifo'[b]) = n - 1
  BY PopFacts
<1>2. \A c \in Bases \ {b} : Len(fifo'[c]) = Len(fifo[c])
  BY PopFacts
<1>3. 1 .. Len(fifo'[b]) = (1 .. n) \ {n}
  BY <1>1
<1>4. ASSUME NEW x PROVE x \in Cells' <=> x \in Cells /\ x # <<b, n>>
  <2>1. x \in Cells' <=> \E c \in Bases : x \in {c} \X (1 .. Len(fifo'[c]))
    BY DEF Cells
  <2>2. x \in Cells <=> \E c \in Bases : x \in {c} \X (1 .. Len(fifo[c]))
    BY DEF Cells
  <2>3. x \in {b} \X (1 .. Len(fifo'[b])) <=> x \in {b} \X (1 .. n) /\ x # <<b, n>>
    BY <1>3
  <2>4. \A c \in Bases \ {b} :
          x \in {c} \X (1 .. Len(fifo'[c]))
            <=> x \in {c} \X (1 .. Len(fifo[c])) /\ x # <<b, n>>
    BY <1>2
  <2> QED BY <2>1, <2>2, <2>3, <2>4
<1>5. <<b, n>> \in Cells
  BY <1>1 DEF Cells
<1> QED BY <1>4, <1>5

LEMMA ClearCells ==
    ASSUME TypeOK, NEW b \in Bases, Clear(b)
    PROVE  /\ Cells = Cells' \cup ({b} \X (1 .. Len(fifo[b])))
           /\ Cells' \cap ({b} \X (1 .. Len(fifo[b]))) = {}
<1>1. Len(fifo'[b]) = 0 /\ \A c \in Bases \ {b} : fifo'[c] = fifo[c]
  BY DEF TypeOK, Clear
<1>2. 1 .. Len(fifo'[b]) = {}
  BY <1>1
<1>3. ASSUME NEW x
      PROVE  /\ x \in Cells <=> x \in Cells' \/ x \in {b} \X (1 .. Len(fifo[b]))
             /\ ~(x \in Cells' /\ x \in {b} \X (1 .. Len(fifo[b])))
  <2>1. x \in Cells' <=> \E c \in Bases : x \in {c} \X (1 .. Len(fifo'[c]))
    BY DEF Cells
  <2>2. x \in Cells <=> \E c \in Bases : x \in {c} \X (1 .. Len(fifo[c]))
    BY DEF Cells
  <2>3. x \notin {b} \X (1 .. Len(fifo'[b]))
    BY <1>2
  <2>4. x \in Cells' <=>
          \E c \in Bases \ {b} : x \in {c} \X (1 .. Len(fifo[c]))
    BY <1>1, <2>1, <2>3
  <2> QED BY <2>2, <2>4
<1> QED BY <1>3

LedgerInv == /\ FrontInv
             /\ IsFiniteSet(Writing)
             /\ IsFiniteSet(Cells)
             /\ Ledger

LEMMA LedgerInit == Init => LedgerInv
<1> SUFFICES ASSUME Init PROVE LedgerInv
  OBVIOUS
<1>1. Writing = {} /\ InHand = 0
  BY DEF Init, Writing, InHand
<1>2. Cells = {}
  BY DEF Init, Cells
<1>3. pipe = 0 /\ stale = 0
  BY DEF Init
<1> QED BY <1>1, <1>2, <1>3, FrontInit, FS_EmptySet DEF LedgerInv, Ledger, Queued

LEMMA LedgerStep == LedgerInv /\ [Next]_vars => LedgerInv'
<1> SUFFICES ASSUME LedgerInv, [Next]_vars PROVE LedgerInv'
  OBVIOUS
<1> USE ConstantsAssumption
<1>0. /\ FrontInv /\ FrontInv' /\ TypeOK
      /\ IsFiniteSet(Writing) /\ IsFiniteSet(Cells) /\ Ledger
      /\ Cardinality(Writing) \in Nat /\ Cardinality(Cells) \in Nat
      /\ pipe \in Nat /\ stale \in Nat /\ InHand \in {0, 1}
  <2>1. InHand \in {0, 1}
    BY DEF InHand
  <2> QED BY <2>1, FrontStep, FS_CardinalityType DEF LedgerInv, FrontInv, TypeOK
(* the two set variables of the ledger, one element more or less *)
<1>1. ASSUME NEW x, x \notin Writing, Writing' = Writing \cup {x}
      PROVE  IsFiniteSet(Writing') /\ Cardinality(Writing') = Cardinality(Writing) + 1
  BY <1>0, <1>1, FS_AddElement
<1>2. ASSUME NEW x, x \in Writing, Writing' = Writing \ {x}
      PROVE  IsFiniteSet(Writing') /\ Cardinality(Writing') = Cardinality(Writing) - 1
  BY <1>0, <1>2, FS_RemoveElement
<1>3. ASSUME NEW x, x \notin Cells, Cells' = Cells \cup {x}
      PROVE  IsFiniteSet(Cells') /\ Cardinality(Cells') = Cardinality(Cells) + 1
  BY <1>0, <1>3, FS_AddElement
<1>4. ASSUME NEW x, x \in Cells, Cells' = Cells \ {x}
      PROVE  IsFiniteSet(Cells') /\ Cardinality(Cells') = Cardinality(Cells) - 1
  BY <1>0, <1>4, FS_RemoveElement
<1>5. ASSUME NEW t \in Threads, ThreadPush(t) PROVE LedgerInv'
  <2>1. PICK ty \in Types : Push(Owner[t], t, ty)
    BY <1>5 DEF ThreadPush, Types
  <2>2. IsFiniteSet(Cells') /\ Cardinality(Cells') = Cardinality(Cells) + 1
    BY <1>0, <1>3, <2>1, PushCells DEF Producers
  <2>3. t \notin Writing /\ Writing' = Writing \cup {t}
    BY <1>0, <1>5 DEF ThreadPush, Writing, mainVars, TypeOK
  <2>4. IsFiniteSet(Writing') /\ Cardinality(Writing') = Cardinality(Writing) + 1
    BY <1>1, <2>3
  <2>5. pipe' = pipe /\ stale' = stale /\ InHand' = InHand
    BY <1>5, <2>1 DEF ThreadPush, Push, mainVars, InHand
  <2> QED BY <1>0, <2>2, <2>4, <2>5 DEF LedgerInv, Ledger, Queued
<1>6. ASSUME NEW t \in Threads, ThreadWrite(t) PROVE LedgerInv'
  <2>1. Cells' = Cells
    BY <1>6 DEF ThreadWrite, Cells
  <2>2. t \in Writing /\ Writing' = Writing \ {t}
    BY <1>0, <1>6 DEF ThreadWrite, Writing, mainVars, TypeOK
  <2>3. IsFiniteSet(Writing') /\ Cardinality(Writing') = Cardinality(Writing) - 1
    BY <1>2, <2>2
  <2>4. pipe' = pipe + 1 /\ stale' = stale /\ InHand' = InHand
    BY <1>6 DEF ThreadWrite, WriteByte, mainVars, histVars, InHand
  <2> QED BY <1>0, <2>1, <2>3, <2>4 DEF LedgerInv, Ledger, Queued
<1>7. ASSUME NEW b \in Bases, MainPush(b) PROVE LedgerInv'
  <2>1. Push(b, Main, "Event") /\ "Event" \in Types /\ Main \in Producers
    BY <1>7 DEF MainPush, Types, Producers
  <2>2. IsFiniteSet(Cells') /\ Cardinality(Cells') = Cardinality(Cells) + 1
    BY <1>0, <1>3, <2>1, PushCells
  <2>3. Main \notin Writing /\ Writing' = Writing \cup {Main}
    BY <1>7 DEF MainPush, Writing
  <2>4. IsFiniteSet(Writing') /\ Cardinality(Writing') = Cardinality(Writing) + 1
    BY <1>1, <2>3
  <2>5. pipe' = pipe /\ stale' = stale /\ InHand' = InHand
    BY <1>7, <2>1 DEF MainPush, Push, InHand
  <2> QED BY <1>0, <2>2, <2>4, <2>5 DEF LedgerInv, Ledger, Queued
<1>8. ASSUME MainWrite PROVE LedgerInv'
  <2>1. Cells' = Cells
    BY <1>8 DEF MainWrite, Cells
  <2>2. Main \in Writing /\ Writing' = Writing \ {Main}
    BY <1>0, <1>8 DEF MainWrite, Writing, TypeOK
  <2>3. IsFiniteSet(Writing') /\ Cardinality(Writing') = Cardinality(Writing) - 1
    BY <1>2, <2>2
  <2>4. pipe' = pipe + 1 /\ stale' = stale /\ InHand' = InHand
    BY <1>0, <1>8 DEF MainWrite, WriteByte, histVars, InHand, TypeOK
  <2> QED BY <1>0, <2>1, <2>3, <2>4 DEF LedgerInv, Ledger, Queued
<1>9. ASSUME ExtractEvent \/ Receive PROVE LedgerInv'
  <2>1. Pop(mbase) /\ mbase \in Bases
    BY <1>0, <1>9 DEF ExtractEvent, Receive, TypeOK
  <2>2. IsFiniteSet(Cells') /\ Cardinality(Cells') = Cardinality(Cells) - 1
    BY <1>0, <1>4, <2>1, PopCells
  <2>3. Writing' = Writing
    BY <1>9 DEF ExtractEvent, Receive, Writing
  <2>4. pipe' = pipe /\ stale' = stale /\ InHand = 1 /\ InHand' = 0
    BY <1>9, <2>1 DEF ExtractEvent, Receive, Pop, InHand
  <2> QED BY <1>0, <2>2, <2>3, <2>4 DEF LedgerInv, Ledger, Queued
<1>10. ASSUME ReadPipe PROVE LedgerInv'
  <2>1. Cells' = Cells /\ Writing' = Writing
    BY <1>10 DEF ReadPipe, Cells, Writing
  <2>2. pipe' = pipe - 1 /\ stale' = stale /\ InHand = 0 /\ InHand' = 1
    BY <1>10 DEF ReadPipe, ReadByte, histVars, InHand
  <2> QED BY <1>0, <2>1, <2>2 DEF LedgerInv, Ledger, Queued
<1>11. ASSUME NEW b \in Bases, Clear(b) PROVE LedgerInv'
  <2> DEFINE n == Len(fifo[b])
             gone == {b} \X (1 .. n)
  <2>1. n \in Nat
    BY <1>0, LenProperties DEF TypeOK
  <2>2. IsFiniteSet(gone) /\ Cardinality(gone) = n
    <3>1. IsFiniteSet({b}) /\ Cardinality({b}) = 1
      BY FS_Singleton
    <3>2. IsFiniteSet(1 .. n) /\ Cardinality(1 .. n) = n
      BY <2>1, FS_Interval
    <3>3. IsFiniteSet(gone) /\ Cardinality(gone) = Cardinality({b}) * Cardinality(1 .. n)
      BY <3>1, <3>2, FS_Product
    <3> QED BY <2>1, <3>1, <3>2, <3>3
  <2>3. Cells = Cells' \cup gone /\ Cells' \cap gone = {}
    BY <1>0, <1>11, ClearCells
  <2>4. IsFiniteSet(Cells') /\ Cardinality(Cells') \in Nat
    BY <1>0, <2>3, FS_Subset, FS_CardinalityType
  <2>5. Cardinality(Cells) = Cardinality(Cells') + n
    <3>1. Cardinality(Cells' \cup gone)
            = Cardinality(Cells') + Cardinality(gone) - Cardinality(Cells' \cap gone)
      BY <2>2, <2>4, FS_Union
    <3>2. Cardinality(Cells' \cap gone) = 0
      BY <2>3, FS_EmptySet
    <3>3. Cardinality(Cells' \cup gone) = Cardinality(Cells)
      BY <2>3
    <3> HIDE DEF gone, n
    <3> QED BY <2>1, <2>2, <2>4, <3>1, <3>2, <3>3
  <2>6. /\ Writing' = Writing /\ InHand' = InHand
        /\ pipe' = pipe /\ stale' = stale + n
    BY <1>11 DEF Clear, mainVars, Writing, InHand
  <2> HIDE DEF n, gone
  <2> QED BY <1>0, <2>1, <2>4, <2>5, <2>6 DEF LedgerInv, Ledger, Queued
<1>12. ASSUME NEW b \in Bases, CallDataAvailable(b) \/ CallSleep(b) PROVE LedgerInv'
  <2>1. /\ Cells' = Cells /\ Writing' = Writing /\ InHand' = InHand
        /\ pipe' = pipe /\ stale' = stale
    BY <1>12 DEF CallDataAvailable, CallSleep, queueVars, histVars,
                 Cells, Writing, InHand
  <2> QED BY <1>0, <2>1 DEF LedgerInv, Ledger, Queued
<1>13. ASSUME Select \/ TestFlag \/ Front \/ CallbackReturns PROVE LedgerInv'
  <2>1. /\ Cells' = Cells /\ Writing' = Writing /\ InHand' = InHand
        /\ pipe' = pipe /\ stale' = stale
    BY <1>13 DEF Select, TestFlag, Front, CallbackReturns, queueVars, histVars,
                 Cells, Writing, InHand
  <2> QED BY <1>0, <2>1 DEF LedgerInv, Ledger, Queued
<1>14. CASE UNCHANGED vars
  <2>1. /\ Cells' = Cells /\ Writing' = Writing /\ InHand' = InHand
        /\ pipe' = pipe /\ stale' = stale
    BY <1>14 DEF vars, queueVars, mainVars, histVars, Cells, Writing, InHand
  <2> QED BY <1>0, <2>1 DEF LedgerInv, Ledger, Queued
<1> QED BY <1>5, <1>6, <1>7, <1>8, <1>9, <1>10, <1>11, <1>12, <1>13, <1>14
        DEF Next, MainStep

(* A message in a queue and nothing in hand leave a byte in the pipe or on *)
(* its way.                                                                *)
LEMMA LedgerImpliesReadNeverStuck == LedgerInv => ReadNeverStuck
<1> SUFFICES ASSUME LedgerInv, mpc = "read", \A t \in Threads : tpc[t] # "write"
             PROVE  pipe > 0
  BY DEF ReadNeverStuck
<1>1. TypeOK /\ pipe \in Nat /\ stale \in Nat
  BY ConstantsAssumption DEF LedgerInv, FrontInv, TypeOK
<1>2. Writing = {} /\ InHand = 0
  BY DEF Writing, InHand
<1>3. Cells # {}
  <2>1. fifo[mbase] \in Seq(Messages) /\ fifo[mbase] # <<>> /\ mbase \in Bases
    BY <1>1 DEF LedgerInv, FrontInv, FrontIsStable, TypeOK
  <2>2. Len(fifo[mbase]) \in Nat \ {0}
    BY <2>1, EmptySeq
  <2>3. <<mbase, 1>> \in Cells
    BY <2>1, <2>2 DEF Cells
  <2> QED BY <2>3
<1>4. Cardinality(Cells) \in Nat /\ Cardinality(Cells) # 0
  BY <1>3, FS_CardinalityType, FS_EmptySet DEF LedgerInv
<1>5. pipe = Cardinality(Cells) + stale
  BY <1>1, <1>2, FS_EmptySet DEF LedgerInv, Ledger, Queued
<1> QED BY <1>1, <1>4, <1>5

(* One byte for each message, for every number of objects and threads. *)
THEOREM LedgerHolds == Spec => []Ledger
<1>1. LedgerInv => Ledger
  BY DEF LedgerInv
<1> QED BY <1>1, LedgerInit, LedgerStep, PTL DEF Spec

(* The blocking read() of dataAvailable waits only for a thread that is    *)
(* already in write().                                                     *)
THEOREM ReadNeverBlocksForGood == Spec => []ReadNeverStuck
  BY LedgerInit, LedgerStep, LedgerImpliesReadNeverStuck, PTL DEF Spec

----------------------------------------------------------------------------
(* QueueOrder, and from it the refinement of Streams *)

OrderInv == FrontInv /\ QueueOrder

LEMMA OrderInit == Init => OrderInv
<1> SUFFICES ASSUME Init PROVE QueueOrder
  BY FrontInit DEF OrderInv
<1> QED BY DEF Init, QueueOrder

(* What QueueOrder says of one queue, for numbers and messages with names *)
OrderOf(q, g, s) ==
    /\ \A p \in Producers : g[p] <= s[p]
    /\ \A i \in 1 .. Len(q) : q[i].num \in g[q[i].from] + 1 .. s[q[i].from]
    /\ \A i, j \in 1 .. Len(q) :
          i < j /\ q[i].from = q[j].from => q[i].num < q[j].num
    /\ \A p \in Producers : \A n \in g[p] + 1 .. s[p] :
          \E i \in 1 .. Len(q) : q[i].from = p /\ q[i].num = n

LEMMA OrderPerQueue ==
    QueueOrder <=> \A b \in Bases : OrderOf(fifo[b], got[b], sent[b])
  BY DEF QueueOrder, OrderOf

LEMMA PushOrder ==
    ASSUME TypeOK, QueueOrder, NEW b \in Bases, NEW p \in Producers, NEW ty \in Types,
           Push(b, p, ty)
    PROVE  QueueOrder'
<1> DEFINE n == Len(fifo[b])
           o == fifo[b]
           q == fifo'[b]
           g == got[b]
           s == sent[b]
           s2 == sent'[b]
<1>1. /\ n \in Nat
      /\ \A i \in 1 .. n : o[i] \in Messages
      /\ Len(q) = n + 1 /\ Len(o) = n
      /\ \A i \in 1 .. n : q[i] = o[i]
      /\ q[n + 1].from = p /\ q[n + 1].num = s[p] + 1
  <2>1. o \in Seq(Messages)
    BY DEF TypeOK
  <2>2. n \in Nat /\ \A i \in 1 .. n : o[i] \in Messages
    BY <2>1, LenProperties, ElementOfSeq
  <2>3. /\ Len(q) = n + 1
        /\ \A i \in 1 .. n : q[i] = o[i]
        /\ q[n + 1] = [from |-> p, type |-> ty, num |-> s[p] + 1]
    BY PushFacts
  <2> QED BY <2>2, <2>3
<1>2. /\ s2[p] = s[p] + 1
      /\ \A r \in Producers \ {p} : s2[r] = s[r]
      /\ \A r \in Producers : s[r] \in Nat /\ g[r] \in Nat
  BY DEF Push, TypeOK
<1>3. OrderOf(o, g, s)
  BY OrderPerQueue
<1>4. \A i \in 1 .. n : o[i].from \in Producers /\ o[i].num \in Nat
  BY <1>1 DEF Messages
<1> HIDE DEF n, o, q, g, s, s2
<1>5. OrderOf(q, g, s2)
  <2>1. \A r \in Producers : g[r] <= s2[r] /\ g[r] <= s[r] /\ s2[r] >= s[r] /\ s2[r] \in Nat
    BY <1>2, <1>3 DEF OrderOf
  <2>2. ASSUME NEW i \in 1 .. Len(q)
        PROVE  q[i].num \in g[q[i].from] + 1 .. s2[q[i].from]
    <3>1. CASE i = n + 1
      BY <1>1, <1>2, <2>1, <3>1
    <3>2. CASE i \in 1 .. n
      <4>1. q[i] = o[i] /\ o[i].from \in Producers /\ o[i].num \in Nat
        BY <1>1, <1>4, <3>2
      <4>2. o[i].num \in g[o[i].from] + 1 .. s[o[i].from]
        BY <1>1, <1>3, <3>2 DEF OrderOf
      <4> QED BY <1>2, <2>1, <4>1, <4>2
    <3> QED BY <1>1, <3>1, <3>2
  <2>3. ASSUME NEW i \in 1 .. Len(q), NEW j \in 1 .. Len(q),
               i < j, q[i].from = q[j].from
        PROVE  q[i].num < q[j].num
    <3>1. i \in 1 .. n /\ q[i] = o[i]
      BY <1>1, <2>3
    <3>2. CASE j = n + 1
      <4>1. o[i].num \in g[p] + 1 .. s[p]
        BY <1>1, <1>3, <2>3, <3>1, <3>2 DEF OrderOf
      <4> QED BY <1>1, <1>2, <1>4, <3>1, <3>2, <4>1
    <3>3. CASE j \in 1 .. n
      BY <1>1, <1>3, <2>3, <3>1, <3>3 DEF OrderOf
    <3> QED BY <1>1, <3>2, <3>3
  <2>4. ASSUME NEW r \in Producers, NEW m \in g[r] + 1 .. s2[r]
        PROVE  \E i \in 1 .. Len(q) : q[i].from = r /\ q[i].num = m
    <3>1. CASE m \in g[r] + 1 .. s[r]
      <4>1. PICK i \in 1 .. n : o[i].from = r /\ o[i].num = m
        BY <1>1, <1>3, <3>1 DEF OrderOf
      <4> QED BY <1>1, <4>1
    <3>2. CASE m \notin g[r] + 1 .. s[r]
      <4>1. r = p /\ m = s[p] + 1
        BY <1>2, <2>1, <3>2
      <4> QED BY <1>1, <4>1
    <3> QED BY <3>1, <3>2
  <2> QED BY <2>1, <2>2, <2>3, <2>4 DEF OrderOf
<1>6. \A c \in Bases \ {b} : OrderOf(fifo'[c], got'[c], sent'[c])
  BY OrderPerQueue, PushFacts DEF Push
<1>7. OrderOf(fifo'[b], got'[b], sent'[b])
  BY <1>5 DEF q, g, s2, Push
<1> QED BY <1>6, <1>7 DEF QueueOrder, OrderOf

(* The head of a queue is the next message of its producer. *)
LEMMA HeadIsNext ==
    ASSUME NEW b \in Bases, TypeOK, QueueOrder, fifo[b] # <<>>
    PROVE  fifo[b][1].num = got[b][fifo[b][1].from] + 1
<1> DEFINE o == fifo[b]
           g == got[b]
           s == sent[b]
           p == o[1].from
<1>1. /\ Len(o) \in Nat \ {0}
      /\ \A i \in 1 .. Len(o) : o[i] \in Messages
  BY EmptySeq, ElementOfSeq DEF TypeOK
<1>2. \A i \in 1 .. Len(o) : o[i].from \in Producers /\ o[i].num \in Nat
  BY <1>1 DEF Messages
<1>3. OrderOf(o, g, s)
  BY OrderPerQueue
<1>4. p \in Producers /\ g[p] \in Nat /\ s[p] \in Nat
  BY <1>1, <1>2 DEF TypeOK
<1> HIDE DEF o, g, s
<1>5. o[1].num \in g[p] + 1 .. s[p]
  BY <1>1, <1>3 DEF OrderOf
<1>6. PICK i \in 1 .. Len(o) : o[i].from = p /\ o[i].num = g[p] + 1
  <2>1. g[p] + 1 \in g[p] + 1 .. s[p]
    BY <1>4, <1>5
  <2> QED BY <1>3, <1>4, <2>1 DEF OrderOf
<1>7. CASE i = 1
  BY <1>6, <1>7 DEF o, g
<1>8. CASE i > 1
  <2>1. o[1].num < o[i].num
    BY <1>1, <1>3, <1>6, <1>8 DEF OrderOf
  <2> QED BY <1>1, <1>2, <1>4, <1>5, <1>6, <2>1
<1> QED BY <1>1, <1>7, <1>8

LEMMA PopOrder ==
    ASSUME TypeOK, QueueOrder, NEW b \in Bases, Pop(b)
    PROVE  QueueOrder'
<1> DEFINE o == fifo[b]
           q == fifo'[b]
           g == got[b]
           g2 == got'[b]
           s == sent[b]
           p == o[1].from
<1>1. /\ Len(o) \in Nat \ {0} /\ Len(q) = Len(o) - 1
      /\ \A i \in 1 .. Len(q) : q[i] = o[i + 1]
      /\ Head(o) = o[1]
  BY PopFacts
<1>2. \A i \in 1 .. Len(o) : o[i].from \in Producers /\ o[i].num \in Nat
  <2>1. \A i \in 1 .. Len(o) : o[i] \in Messages
    BY ElementOfSeq DEF TypeOK
  <2> QED BY <2>1 DEF Messages
<1>3. /\ p \in Producers /\ g2[p] = o[1].num
      /\ \A r \in Producers \ {p} : g2[r] = g[r]
      /\ \A r \in Producers : g[r] \in Nat /\ s[r] \in Nat /\ g2[r] \in Nat
  BY <1>1, <1>2 DEF Pop, TypeOK
<1>4. g2[p] = g[p] + 1
  BY <1>3, HeadIsNext DEF Pop
<1>5. OrderOf(o, g, s)
  BY OrderPerQueue
<1> HIDE DEF o, q, g, g2, s
<1>6. OrderOf(q, g2, s)
  <2>1. o[1].num \in g[p] + 1 .. s[p]
    BY <1>1, <1>5 DEF OrderOf
  <2>2. \A r \in Producers : g2[r] <= s[r]
    BY <1>3, <1>4, <1>5, <2>1 DEF OrderOf
  <2>3. ASSUME NEW i \in 1 .. Len(q)
        PROVE  q[i].num \in g2[q[i].from] + 1 .. s[q[i].from]
    <3>1. i + 1 \in 2 .. Len(o) /\ q[i] = o[i + 1]
      BY <1>1
    <3>2. o[i + 1].num \in g[o[i + 1].from] + 1 .. s[o[i + 1].from]
      BY <1>1, <1>5, <3>1 DEF OrderOf
    <3>3. CASE o[i + 1].from = p
      <4>1. o[1].num < o[i + 1].num
        BY <1>1, <1>5, <3>1, <3>3 DEF OrderOf
      <4> QED BY <1>1, <1>2, <1>3, <1>4, <3>1, <3>2, <3>3, <4>1
    <3>4. CASE o[i + 1].from # p
      BY <1>1, <1>2, <1>3, <3>1, <3>2, <3>4
    <3> QED BY <3>3, <3>4
  <2>4. ASSUME NEW i \in 1 .. Len(q), NEW j \in 1 .. Len(q),
               i < j, q[i].from = q[j].from
        PROVE  q[i].num < q[j].num
    <3>1. /\ i + 1 \in 1 .. Len(o) /\ j + 1 \in 1 .. Len(o) /\ i + 1 < j + 1
          /\ q[i] = o[i + 1] /\ q[j] = o[j + 1]
      BY <1>1, <2>4
    <3>2. \A x, y \in 1 .. Len(o) : x < y /\ o[x].from = o[y].from => o[x].num < o[y].num
      BY <1>5 DEF OrderOf
    <3> QED BY <3>1, <3>2, <2>4
  <2>5. ASSUME NEW r \in Producers, NEW m \in g2[r] + 1 .. s[r]
        PROVE  \E i \in 1 .. Len(q) : q[i].from = r /\ q[i].num = m
    <3>1. m \in g[r] + 1 .. s[r]
      BY <1>3, <1>4
    <3>2. PICK k \in 1 .. Len(o) : o[k].from = r /\ o[k].num = m
      BY <1>5, <3>1 DEF OrderOf
    <3>3. k # 1
      BY <1>1, <1>3, <3>2
    <3>4. k - 1 \in 1 .. Len(q) /\ q[k - 1] = o[k]
      BY <1>1, <3>2, <3>3
    <3> QED BY <3>2, <3>4
  <2> QED BY <2>2, <2>3, <2>4, <2>5 DEF OrderOf
<1>7. \A c \in Bases \ {b} : OrderOf(fifo'[c], got'[c], sent'[c])
  BY OrderPerQueue, PopFacts DEF Pop
<1>8. OrderOf(fifo'[b], got'[b], sent'[b])
  BY <1>6 DEF q, g2, s, Pop
<1> QED BY <1>7, <1>8 DEF QueueOrder, OrderOf

LEMMA ClearOrder ==
    ASSUME TypeOK, QueueOrder, NEW b \in Bases, Clear(b)
    PROVE  QueueOrder'
<1>1. \A c \in Bases \ {b} : OrderOf(fifo'[c], got'[c], sent'[c])
  BY OrderPerQueue DEF Clear, TypeOK
<1>2. fifo'[b] = <<>> /\ got'[b] = sent[b] /\ sent'[b] = sent[b]
  BY DEF Clear, TypeOK
<1>3. \A p \in Producers : sent[b][p] \in Nat
  BY DEF TypeOK
<1>4. OrderOf(fifo'[b], got'[b], sent'[b])
  BY <1>2, <1>3 DEF OrderOf
<1> QED BY <1>1, <1>4 DEF QueueOrder, OrderOf

LEMMA OrderStep == OrderInv /\ [Next]_vars => OrderInv'
<1> SUFFICES ASSUME OrderInv, [Next]_vars PROVE QueueOrder'
  BY FrontStep DEF OrderInv
<1> USE DEF OrderInv, FrontInv
<1>1. ASSUME NEW t \in Threads, ThreadPush(t) PROVE QueueOrder'
  BY <1>1, PushOrder, ConstantsAssumption DEF ThreadPush, Producers, Types
<1>2. ASSUME NEW b \in Bases, MainPush(b) PROVE QueueOrder'
  BY <1>2, PushOrder DEF MainPush, Producers, Types
<1>3. CASE ExtractEvent \/ Receive
  BY <1>3, PopOrder DEF ExtractEvent, Receive, TypeOK
<1>4. ASSUME NEW b \in Bases, Clear(b) PROVE QueueOrder'
  BY <1>4, ClearOrder
<1>5. ASSUME UNCHANGED <<fifo, sent, got>> PROVE QueueOrder'
  BY <1>5 DEF QueueOrder
<1>6. ASSUME NEW t \in Threads, ThreadWrite(t) PROVE QueueOrder'
  BY <1>5, <1>6 DEF ThreadWrite, histVars
<1>7. ASSUME NEW b \in Bases, CallDataAvailable(b) \/ CallSleep(b) PROVE QueueOrder'
  BY <1>5, <1>7 DEF CallDataAvailable, CallSleep, queueVars, histVars
<1>8. CASE Select \/ TestFlag \/ Front \/ ReadPipe \/ CallbackReturns \/ MainWrite
  BY <1>5, <1>8 DEF Select, TestFlag, Front, ReadPipe, CallbackReturns, MainWrite,
                    queueVars, histVars
<1>9. CASE UNCHANGED vars
  BY <1>5, <1>9 DEF vars, queueVars, histVars
<1> QED BY <1>1, <1>2, <1>3, <1>4, <1>6, <1>7, <1>8, <1>9 DEF Next, MainStep

(* Per producer the queue holds exactly what has been pushed and not yet   *)
(* handed over, in order.                                                  *)
THEOREM OrderIsKept == Spec => []QueueOrder
<1>1. OrderInv => QueueOrder
  BY DEF OrderInv
<1> QED BY <1>1, OrderInit, OrderStep, PTL DEF Spec

(* Every step of the mutexed queue is a step of the abstract streams. *)
LEMMA StreamsStep == OrderInv /\ [Next]_vars => [Abstract!Next]_<<sent, got>>
<1> SUFFICES ASSUME OrderInv, [Next]_vars
             PROVE  Abstract!Next \/ UNCHANGED <<sent, got>>
  OBVIOUS
<1> USE DEF OrderInv, FrontInv
<1>1. ASSUME NEW b \in Bases, NEW p \in Producers, NEW ty \in Types, Push(b, p, ty)
      PROVE  Abstract!Next
  BY <1>1 DEF Push, Abstract!Next, Abstract!Produce
<1>2. ASSUME NEW b \in Bases, Pop(b) PROVE Abstract!Next
  <2> DEFINE m == fifo[b][1]
  <2>1. fifo[b] # <<>> /\ Head(fifo[b]) = m /\ m \in Messages
    <3>1. fifo[b] # <<>>
      BY <1>2 DEF Pop
    <3>2. Head(fifo[b]) \in Messages /\ Head(fifo[b]) = fifo[b][1]
      BY <1>2, PopFacts
    <3> QED BY <3>1, <3>2
  <2>2. m.from \in Producers /\ m.num = got[b][m.from] + 1
    BY <2>1, HeadIsNext DEF Messages
  <2>3. got' = [got EXCEPT ![b][m.from] = @ + 1] /\ sent' = sent
    BY <1>2, <2>1, <2>2 DEF Pop
  <2>4. got[b][m.from] < sent[b][m.from]
    <3>1. Len(fifo[b]) \in Nat \ {0}
      BY <1>2, PopFacts
    <3>2. m.num \in got[b][m.from] + 1 .. sent[b][m.from]
      BY <3>1 DEF QueueOrder
    <3>3. got[b][m.from] \in Nat /\ sent[b][m.from] \in Nat
      BY <2>2 DEF TypeOK
    <3> HIDE DEF m
    <3> QED BY <2>2, <3>2, <3>3
  <2>5. Abstract!Consume(b, m.from)
    BY <2>3, <2>4 DEF Abstract!Consume
  <2> HIDE DEF m
  <2> QED BY <2>2, <2>5 DEF Abstract!Next
<1>3. ASSUME NEW b \in Bases, Clear(b) PROVE Abstract!Next
  BY <1>3 DEF Clear, Abstract!Next, Abstract!Discard
<1>4. CASE \E t \in Threads : ThreadPush(t)
  BY <1>1, <1>4, ConstantsAssumption DEF ThreadPush, Producers, Types
<1>5. CASE \E b \in Bases : MainPush(b)
  BY <1>1, <1>5 DEF MainPush, Producers, Types
<1>6. CASE ExtractEvent \/ Receive
  BY <1>2, <1>6 DEF ExtractEvent, Receive, TypeOK
<1>7. CASE \/ \E t \in Threads : ThreadWrite(t)
           \/ \E b \in Bases : CallDataAvailable(b) \/ CallSleep(b)
           \/ Select \/ TestFlag \/ Front \/ ReadPipe \/ CallbackReturns \/ MainWrite
           \/ UNCHANGED vars
  BY <1>7 DEF ThreadWrite, CallDataAvailable, CallSleep, Select, TestFlag, Front,
              ReadPipe, CallbackReturns, MainWrite, vars, queueVars, histVars
<1> QED BY <1>3, <1>4, <1>5, <1>6, <1>7 DEF Next, MainStep

(* The receive queue implements the abstract streams: no message is lost,  *)
(* duplicated or reordered, except that disconnect discards a whole queue. *)
THEOREM ImplementsStreams == Spec => StreamsSpec
<1>1. Init => Abstract!Init
  BY DEF Init, Abstract!Init
<1> QED BY <1>1, OrderInit, OrderStep, StreamsStep, PTL
        DEF Spec, StreamsSpec, Abstract!Spec
=============================================================================
