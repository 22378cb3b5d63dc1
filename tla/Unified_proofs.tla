--------------------------- MODULE Unified_proofs ---------------------------
(***************************************************************************)
(* Proofs about layer 5, for every number of services and ids: the types,  *)
(* that a message is attributed to the service that has sent it, and that  *)
(* the callbacks and the table by name agree.                              *)
(***************************************************************************)
EXTENDS Naming_proofs

----------------------------------------------------------------------------
(* What holds whatever happens *)

(* who is accepted has got an id *)
Answered ==
    \A s \in Services : \A k \in 1 .. Len(toSv[s]) :
       toSv[s][k].kind = "RG" /\ toSv[s][k].ok => toSv[s][k].sid # NoSId

Identity(s) ==
    /\ status[s] \in {"ready", "running"} => mySid[s] # NoSId
    /\ status[s] = "ready" => \A i \in before[s] : list[s][i] \in Services
    /\ \A c \in Services : \A k \in 1 .. Len(events[s][c]) :
          events[s][c][k].kind = "UN_SIDENT" => events[s][c][k].sid # NoSId

(* before the main loop there are no connections, and nobody is told *)
Early(s) ==
    /\ status[s] \notin {"running", "leaving"} =>
          cnxId[s] = Unknown /\ up[s] = Unlisted /\ named[s] = {}
    /\ status[s] \notin {"ready", "running", "leaving"} => entry[s] = NoEntries
    /\ status[s] = "ready" => \A i \in SIds : entry[s][i].connections = <<>>
    /\ status[s] \in {"off", "asking", "ready"} => \A t \in Services :
          events[t][s] = <<>> /\ cnxId[t][s] = AppIdDeadConnection /\ <<s, t>> \notin open

CnxTypes ==
    /\ entry \in [Services -> [SIds -> CnxEntries]]
    /\ named \in [Services -> SUBSET (Names \X SIds)]
    /\ before \in [Services -> SUBSET SIds]
    /\ open \subseteq Services \X Services
    /\ events \in [Services -> [Services -> Seq(Events)]]
    /\ cnxId \in [Services -> [Services -> SIds \cup {AppIdDeadConnection}]]
    /\ up \in [Services -> [SIds -> Services \cup {NoOne}]]
    /\ upTwice \in BOOLEAN /\ late \in BOOLEAN

Steady == CnxTypes /\ Answered /\ \A s \in Services : Identity(s) /\ Early(s)

LEMMA NamesFacts == \A s \in Services : Name[s] \in Names
BY DEF Names

LEMMA RecordFacts ==
    ASSUME NEW of \in Services \cup {NoOne}, NEW c \in Services \cup {NoOne}
    PROVE  /\ [of |-> of, connections |-> <<>>] \in CnxEntries
           /\ [of |-> of, connections |-> <<c>>] \in CnxEntries
           /\ NotUsed \in CnxEntries
           /\ [NotUsed EXCEPT !.of = of] = [of |-> of, connections |-> <<>>]
BY DEF CnxEntries, NotUsed

LEMMA EventFacts ==
    ASSUME NEW kind \in {"UN_SIDENT", "disconnection"}, NEW sid \in SIds \cup {NoSId}
    PROVE  /\ Event(kind, sid) \in Events
           /\ Event(kind, sid).kind = kind /\ Event(kind, sid).sid = sid
BY DEF Event, Events

(* the first of a set of services in an answer *)
LEMMA FirstListed ==
    ASSUME NEW E \in SUBSET Listed, E # {}
    PROVE  First(E) \in E
<1> DEFINE R == {e.rank : e \in E}
<1>1. R \in SUBSET Nat /\ R # {}
  BY DEF Listed
<1>2. PICK x \in R : \A y \in R : x <= y
  <2> HIDE DEF R
  <2> QED BY <1>1, Least
<1>3. \E e \in E : \A d \in E : e.rank <= d.rank
  BY <1>2
<1> QED BY <1>3 DEF First

(* what others send to a service comes after what it has not read *)
LEMMA NsTells ==
    ASSUME NamingInv, NsStep
    PROVE  /\ UNCHANGED <<status, mySid, list>>
           /\ \A t \in Services :
                 \/ toSv'[t] = toSv[t]
                 \/ \E m \in ToSv : /\ toSv'[t] = Append(toSv[t], m)
                                    /\ m.kind = "RG" /\ m.ok => m.sid # NoSId
<1>0. NamingTypeOK /\ TableOK /\ AwaitedAreThere
  BY TableParts DEF NamingInv
<1>1. UNCHANGED <<status, mySid, list>>
  BY DEF NsStep, NsRegister, NsDisconnect, NsAck, Kill, NsCheck, NsTimeout, NsRestart,
         clientVars
<1> DEFINE Grows(t) == \/ toSv'[t] = toSv[t]
                       \/ \E m \in ToSv : /\ toSv'[t] = Append(toSv[t], m)
                                          /\ m.kind = "RG" /\ m.ok => m.sid # NoSId
<1>2. ASSUME NEW S, NEW m \in ToSv, Tell(S, m), m.kind = "RG" /\ m.ok => m.sid # NoSId,
             NEW t \in Services
      PROVE  Grows(t)
  BY <1>2 DEF Tell, Told
<1>3. ASSUME NEW e \in Entries
      PROVE  Unregistration(e) \in ToSv /\ Unregistration(e).kind = "UNB"
  BY <1>3, UnregistrationFacts DEF Unregistration
<1>4. ASSUME NEW E \in SUBSET table, E # {}
      PROVE  First(E) \in Entries
  BY <1>0, <1>4, FirstIsIn DEF TableOK
<1>5. ASSUME NEW s \in Services, NsRegister(s), NEW t \in Services
      PROVE  Grows(t)
  <2> DEFINE r == Head(toNs[s])
             again == r.kind = "RRG"
             sid == Wanted(r.sid)
  <2>1. r.sid \in SIds \cup {NoSId}
    <3> r \in ToNs
      BY <1>0, <1>5, TakenFacts DEF NsRegister
    <3> QED BY DEF ToNs
  <2>2. sid \in SIds \cup {NoSId}
    BY <2>1, WantedIsFree
  <2>3. \/ sid # NoSId /\ Register(s, sid, again)
        \/ Tell(IF again THEN {} ELSE {s}, Answer(FALSE, NoSId, {}))
    BY <1>5 DEF NsRegister
  <2> HIDE DEF sid, again
  <2>4. CASE Tell(IF again THEN {} ELSE {s}, Answer(FALSE, NoSId, {}))
    <3>1. Answer(FALSE, NoSId, {}) \in ToSv /\ Answer(FALSE, NoSId, {}).ok = FALSE
      <4> {} \in {L \in SUBSET Listed : IsFiniteSet(L)}
        BY FS_EmptySet
      <4> QED BY DEF Answer, ToSv
    <3> QED BY <1>2, <2>4, <3>1
  <2>5. CASE sid # NoSId /\ Register(s, sid, again)
    <3> DEFINE new == [rank |-> NextRank, sid |-> sid, inst |-> s, waiting |-> FALSE,
                       acks |-> NoAcks]
               after == table \cup {new}
               answer == Answer(TRUE, sid, Replied(s, after))
               news == [kind |-> "RGB", sid |-> sid, inst |-> s]
    <3>1. table' = after /\ (toSv'[t] = toSv[t] \/ toSv'[t] = Told(t, answer)
                                                \/ toSv'[t] = Told(t, news))
      BY <2>5 DEF Register
    <3>2. TableOK'
      BY <1>0, <2>2, <2>5, RegisterAdds
    <3>3. sid \in SIds
      BY <2>2, <2>5
    <3>4. answer \in ToSv /\ answer.kind = "RG" /\ answer.sid = sid
      <4>1. after \in SUBSET Entries /\ IsFiniteSet(after)
        BY <3>1, <3>2 DEF TableOK
      <4>2. Replied(s, after) \in {L \in SUBSET Listed : IsFiniteSet(L)}
        <5> HIDE DEF after
        <5> QED BY <4>1, RepliedFacts
      <4> HIDE DEF after
      <4> QED BY <3>3, <4>2 DEF Answer, ToSv
    <3>5. news \in ToSv /\ news.kind = "RGB"
      BY <3>3 DEF ToSv
    <3> HIDE DEF answer, news, after
    <3> QED BY <2>5, <3>1, <3>4, <3>5 DEF Told
  <2> QED BY <2>3, <2>4, <2>5
<1>6. ASSUME NEW s \in Services, NsDisconnect(s), NEW t \in Services
      PROVE  Grows(t)
  <2> DEFINE mine == {e \in table : e.inst = s /\ ~e.waiting}
  <2>1. \/ UNCHANGED toSv
        \/ mine # {} /\ Tell(Accessible(s, table), Unregistration(First(mine)))
    BY <1>6 DEF NsDisconnect
  <2>2. mine \in SUBSET table
    OBVIOUS
  <2> HIDE DEF mine
  <2> QED BY <1>2, <1>3, <1>4, <2>1, <2>2
<1>7. ASSUME NEW i \in SIds, Kill(i), NEW t \in Services
      PROVE  Grows(t)
  <2> DEFINE same == {d \in table : d.sid = i}
  <2>1. same # {} /\ Tell(Accessible(First(same).inst, table), Unregistration(First(same)))
    BY <1>7 DEF Kill, Used
  <2>2. same \in SUBSET table
    OBVIOUS
  <2> HIDE DEF same
  <2> QED BY <1>2, <1>3, <1>4, <2>1, <2>2
<1>8. ASSUME \/ NsCheck \/ NsTimeout \/ NsRestart \/ \E s \in Services : NsAck(s),
             NEW t \in Services
      PROVE  Grows(t)
  BY <1>8 DEF NsCheck, NsTimeout, NsRestart, NsAck
<1> QED BY <1>1, <1>5, <1>6, <1>7, <1>8 DEF NsStep

LEMMA AnsweredStep ==
    ASSUME NamingInv, Answered, [NamingNext]_namingVars
    PROVE  Answered'
<1>0. NamingTypeOK
  BY DEF NamingInv
<1> DEFINE Good(q) == \A k \in 1 .. Len(q) : q[k].kind = "RG" /\ q[k].ok => q[k].sid # NoSId
<1>1. \A t \in Services : Good(toSv[t]) /\ toSv[t] \in Seq(ToSv)
  BY <1>0 DEF Answered, NamingTypeOK
<1>2. ASSUME NEW q \in Seq(ToSv), Good(q), NEW m \in ToSv,
             m.kind = "RG" /\ m.ok => m.sid # NoSId
      PROVE  Good(Append(q, m))
  BY <1>2, AppendIsThere
<1>3. ASSUME NEW q \in Seq(ToSv), Good(q), q # <<>>
      PROVE  Good(Tail(q))
  BY <1>3, TailIsThere
<1>4. Good(<<>>)
  OBVIOUS
<1>5. CASE NsStep
  <2>1. \A t \in Services :
                 \/ toSv'[t] = toSv[t]
                 \/ \E m \in ToSv : /\ toSv'[t] = Append(toSv[t], m)
                                    /\ m.kind = "RG" /\ m.ok => m.sid # NoSId
    BY <1>5, NsTells
  <2>2. \A t \in Services : Good(toSv'[t])
    <3> HIDE DEF Good
    <3> QED BY <1>1, <1>2, <2>1
  <2> QED BY <2>2 DEF Answered
<1>6. ASSUME NEW s \in Services, ClientStep(s) PROVE Answered'
  <2>1. \/ toSv' = toSv
        \/ toSv[s] # <<>> /\ toSv' = [toSv EXCEPT ![s] = Tail(@)]
        \/ toSv' = [toSv EXCEPT ![s] = <<>>]
    BY <1>6 DEF ClientStep, Start, ReadAnswer, EnterLoop, ReadRegistration, MessageIs,
                ReadUnregistration, Reconnect, Die, Leave, Gone, ReadBy
  <2>2. \A t \in Services : \/ toSv'[t] = toSv[t]
                            \/ toSv[t] # <<>> /\ toSv'[t] = Tail(toSv[t])
                            \/ toSv'[t] = <<>>
    BY <1>0, <2>1 DEF NamingTypeOK
  <2>3. \A t \in Services : Good(toSv'[t])
    <3> HIDE DEF Good
    <3> QED BY <1>1, <1>3, <1>4, <2>2
  <2> QED BY <2>3 DEF Answered
<1>7. CASE UNCHANGED namingVars
  BY <1>7 DEF namingVars, Answered
<1> QED BY <1>5, <1>6, <1>7 DEF NamingNext

----------------------------------------------------------------------------
(* Each action keeps it *)

LEMMA TellUpTypes ==
    ASSUME CnxTypes, NEW s \in Services, NEW I \in SUBSET SIds, NEW T,
           \A i \in I : T[i] \in Services, TellUp(s, I, T)
    PROVE  /\ named' \in [Services -> SUBSET (Names \X SIds)]
           /\ up' \in [Services -> [SIds -> Services \cup {NoOne}]]
           /\ upTwice' \in BOOLEAN
           /\ \A t \in Services \ {s} : named'[t] = named[t] /\ up'[t] = up[t]
<1> DEFINE N == {<<Name[T[i]], i>> : i \in I}
           U == [i \in SIds |-> IF i \in I THEN T[i] ELSE up[s][i]]
<1>1. N \in SUBSET (Names \X SIds)
  BY NamesFacts
<1>2. U \in [SIds -> Services \cup {NoOne}]
  BY DEF CnxTypes
<1>3. /\ named' = [named EXCEPT ![s] = named[s] \cup N]
      /\ up' = [up EXCEPT ![s] = U]
      /\ upTwice' = (upTwice \/ \E i \in I : up[s][i] # NoOne)
  BY DEF TellUp, CnxTypes
<1>4. /\ named \in [Services -> SUBSET (Names \X SIds)]
      /\ up \in [Services -> [SIds -> Services \cup {NoOne}]] /\ upTwice \in BOOLEAN
  BY DEF CnxTypes
<1> HIDE DEF N, U
<1> QED BY <1>1, <1>2, <1>3, <1>4

LEMMA TellUpFacts ==
    ASSUME CnxTypes, NEW s \in Services, NEW I \in SUBSET SIds, NEW T,
           \A i \in I : T[i] \in Services, TellUp(s, I, T)
    PROVE  /\ \A n : n \in named'[s] <=> \/ n \in named[s]
                                        \/ \E j \in I : n = <<Name[T[j]], j>>
           /\ \A j \in I : up'[s][j] = T[j]
           /\ \A j \in SIds \ I : up'[s][j] = up[s][j]
           /\ upTwice' => upTwice \/ \E j \in I : up[s][j] # NoOne
<1> DEFINE N == {<<Name[T[i]], i>> : i \in I}
           U == [i \in SIds |-> IF i \in I THEN T[i] ELSE up[s][i]]
<1>1. U \in [SIds -> Services \cup {NoOne}]
  BY DEF CnxTypes
<1>2. /\ named' = [named EXCEPT ![s] = named[s] \cup N]
      /\ up' = [up EXCEPT ![s] = U]
      /\ upTwice' = (upTwice \/ \E j \in I : up[s][j] # NoOne)
  BY DEF TellUp, CnxTypes
<1>3. /\ named \in [Services -> SUBSET (Names \X SIds)]
      /\ up \in [Services -> [SIds -> Services \cup {NoOne}]] /\ upTwice \in BOOLEAN
  BY DEF CnxTypes
<1>4. \A i \in SIds : U[i] = IF i \in I THEN T[i] ELSE up[s][i]
  OBVIOUS
<1> HIDE DEF N, U
<1>5. named'[s] = named[s] \cup N /\ up'[s] = U
  BY <1>2, <1>3
<1>6. \A n : n \in named'[s] <=> n \in named[s] \/ \E j \in I : n = <<Name[T[j]], j>>
  BY <1>5 DEF N
<1> QED BY <1>2, <1>4, <1>5, <1>6

(* nothing of layer 5 changes *)
LEMMA ElseSteady ==
    ASSUME NamingInv, Steady, Answered', UNCHANGED unifiedVars,
           NsStep \/ \E s \in Services : Start(s) \/ Reconnect(s)
    PROVE  Steady'
<1>1. /\ UNCHANGED <<entry, named, before, open, events, cnxId, up, upTwice, late>>
      /\ UNCHANGED <<mySid, list>>
  BY NsTells DEF unifiedVars, cnxVars, upVars, Start, Reconnect, clientVars
<1>2. \A t \in Services : \/ status'[t] = status[t]
                          \/ status[t] = "off" /\ status'[t] = "asking"
  <2>1. CASE NsStep
    BY <2>1, NsTells
  <2>2. ASSUME NEW s \in Services, Start(s) \/ Reconnect(s)
        PROVE  \A t \in Services : \/ status'[t] = status[t]
                                   \/ status[t] = "off" /\ status'[t] = "asking"
    BY <2>2 DEF Start, Reconnect, clientVars, NamingInv, NamingTypeOK
  <2> QED BY <2>1, <2>2
<1>3. CnxTypes'
  BY <1>1 DEF Steady, CnxTypes
<1>4. ASSUME NEW t \in Services PROVE Identity(t)' /\ Early(t)'
  <2>1. Identity(t) /\ Early(t)
    BY DEF Steady
  <2> QED BY <2>1, <1>1, <1>2 DEF Identity, Early
<1> QED BY <1>3, <1>4 DEF Steady

LEMMA AnswerIs ==
    ASSUME NamingTypeOK, NEW s \in Services, MessageIs(s, "RG")
    PROVE  LET m == Head(toSv[s])
           IN /\ m \in ToSv /\ m.sid \in SIds \cup {NoSId} /\ m.ok \in BOOLEAN
              /\ m.services \in SUBSET Listed /\ IsFiniteSet(m.services)
<1>1. Head(toSv[s]) \in ToSv /\ Head(toSv[s]).kind = "RG"
  BY TailIsThere DEF MessageIs, NamingTypeOK
<1> QED BY <1>1 DEF ToSv

(* an id that is in an answer is in the list that is made of it *)
LEMMA ListOfHas ==
    ASSUME NEW services \in SUBSET Listed, IsFiniteSet(services), NEW e \in services
    PROVE  ListOf(services)[e.sid] \in Services
<1> DEFINE same == {d \in services : d.sid = e.sid}
           R == {d.rank : d \in same}
<1>1. e.sid \in SIds /\ same # {} /\ same \subseteq services
  BY DEF Listed
<1>2. ListOf(services)[e.sid]
         = (CHOOSE d \in same : \A x \in same : x.rank <= d.rank).inst
  BY <1>1 DEF ListOf
<1>3. IsFiniteSet(same) /\ same \in SUBSET Listed
  BY <1>1, FS_Subset
<1>4. R \in SUBSET Nat /\ R # {}
  BY <1>1 DEF Listed
<1> HIDE DEF same
<1>5. IsFiniteSet(R)
  <2> DEFINE f == [d \in same |-> d.rank]
  <2>1. R = {f[d] : d \in same} /\ DOMAIN f = same /\ f = [d \in same |-> f[d]]
    OBVIOUS
  <2> HIDE DEF f, R
  <2> QED BY <1>3, <2>1, FiniteImage
<1>6. PICK x \in R : \A y \in R : y <= x
  <2> HIDE DEF R
  <2> QED BY <1>4, <1>5, Greatest
<1>7. \E d \in same : \A y \in same : y.rank <= d.rank
  BY <1>6
<1>8. (CHOOSE d \in same : \A y \in same : y.rank <= d.rank) \in same
  BY <1>7
<1> QED BY <1>2, <1>3, <1>8 DEF Listed

LEMMA RegisteredSteady ==
    ASSUME NamingInv, Steady, NEW s \in Services, Registered(s), Answered'
    PROVE  Steady'
<1> DEFINE m == Head(toSv[s])
           same(i) == {e \in m.services : e.sid = i}
<1>0. NamingTypeOK /\ CnxTypes
  BY DEF NamingInv, Steady
<1>1. /\ status[s] = "asking" /\ MessageIs(s, "RG")
      /\ UNCHANGED <<named, open, events, cnxId, up, upTwice, late>>
      /\ entry' = [entry EXCEPT ![s] =
                [i \in SIds |-> IF same(i) # {} /\ i # m.sid
                                THEN [NotUsed EXCEPT !.of = First(same(i)).inst]
                                ELSE entry[s][i]]]
  BY <1>0 DEF Registered, ReadAnswer, upVars, CnxTypes
<1>2. m \in ToSv /\ m.sid \in SIds \cup {NoSId} /\ m.services \in SUBSET Listed
      /\ IsFiniteSet(m.services)
  BY <1>0, <1>1, AnswerIs
<1>3. /\ before' = [before EXCEPT ![s] =
                IF m.ok
                THEN {e.sid : e \in {d \in m.services :
                                        d.rank < First(same(m.sid)).rank}}
                ELSE {}]
  BY DEF Registered
<1>4. \/ /\ m.ok /\ status' = [status EXCEPT ![s] = "ready"]
         /\ mySid' = [mySid EXCEPT ![s] = m.sid]
         /\ list' = [list EXCEPT ![s] = ListOf(m.services)]
      \/ /\ ~m.ok /\ status' = [status EXCEPT ![s] = "leaving"]
         /\ UNCHANGED <<mySid, list>>
  BY DEF Registered, ReadAnswer
<1>5. m.ok => m.sid # NoSId
  <2>1. m = toSv[s][1] /\ 1 \in 1 .. Len(toSv[s]) /\ m.kind = "RG"
    BY <1>0, <1>1, TailIsThere DEF MessageIs, NamingTypeOK
  <2> HIDE DEF m
  <2> QED BY <2>1 DEF Steady, Answered
<1>6. \A i \in SIds :
         LET n == IF same(i) # {} /\ i # m.sid
                  THEN [NotUsed EXCEPT !.of = First(same(i)).inst] ELSE entry[s][i]
         IN n \in CnxEntries /\ n.connections = <<>>
  <2> TAKE i \in SIds
  <2>0. entry[s][i] \in CnxEntries /\ entry[s][i].connections = <<>>
    <3>1. entry[s] = NoEntries
      BY <1>1 DEF Steady, Early
    <3>2. NoEntries[i].connections = <<>>
      BY DEF NoEntries, NotUsed
    <3>3. entry[s][i] \in CnxEntries
      BY <1>0 DEF CnxTypes
    <3> QED BY <3>1, <3>2, <3>3
  <2>1. CASE same(i) # {}
    <3>1. First(same(i)) \in same(i) /\ same(i) \in SUBSET Listed
      <4>1. same(i) \in SUBSET Listed
        BY <1>2
      <4> QED BY <4>1, <2>1, FirstListed
    <3>2. First(same(i)).inst \in Services
      BY <3>1 DEF Listed
    <3>3. /\ [NotUsed EXCEPT !.of = First(same(i)).inst] \in CnxEntries
          /\ [NotUsed EXCEPT !.of = First(same(i)).inst].connections = <<>>
      BY <3>2, RecordFacts, ConstantsAssumption
    <3> QED BY <3>3, <2>0
  <2>2. CASE same(i) = {}
    BY <2>2, <2>0
  <2> QED BY <2>1, <2>2
<1>7. /\ entry' \in [Services -> [SIds -> CnxEntries]]
      /\ \A i \in SIds : entry'[s][i].connections = <<>>
      /\ \A t \in Services \ {s} : entry'[t] = entry[t]
  <2> DEFINE E == [i \in SIds |-> IF same(i) # {} /\ i # m.sid
                                  THEN [NotUsed EXCEPT !.of = First(same(i)).inst]
                                  ELSE entry[s][i]]
  <2>1. E \in [SIds -> CnxEntries] /\ \A i \in SIds : E[i].connections = <<>>
    BY <1>6
  <2>2. entry' = [entry EXCEPT ![s] = E] /\ entry \in [Services -> [SIds -> CnxEntries]]
    BY <1>0, <1>1 DEF CnxTypes
  <2> HIDE DEF E
  <2> QED BY <2>1, <2>2
<1>8. /\ before' \in [Services -> SUBSET SIds]
      /\ \A i \in before'[s] : m.ok /\ \E e \in m.services : i = e.sid
      /\ \A t \in Services \ {s} : before'[t] = before[t]
  <2> DEFINE B == IF m.ok
                  THEN {e.sid : e \in {d \in m.services :
                                        d.rank < First(same(m.sid)).rank}}
                  ELSE {}
  <2>1. \A i \in B : m.ok /\ \E e \in m.services : i = e.sid
    OBVIOUS
  <2>2. B \in SUBSET SIds
    BY <1>2, <2>1 DEF Listed
  <2>3. before' = [before EXCEPT ![s] = B] /\ before \in [Services -> SUBSET SIds]
    BY <1>0, <1>3 DEF CnxTypes
  <2> HIDE DEF B, m
  <2> QED BY <2>1, <2>2, <2>3
<1> HIDE DEF m
<1>9. CnxTypes'
  BY <1>0, <1>1, <1>7, <1>8 DEF CnxTypes
<1>10. /\ status'[s] \in {"ready", "leaving"}
       /\ status'[s] = "ready" => m.ok /\ mySid'[s] = m.sid /\ list'[s] = ListOf(m.services)
       /\ \A t \in Services \ {s} : UNCHANGED <<status[t], mySid[t], list[t]>>
  BY <1>0, <1>4 DEF NamingTypeOK
<1>11. ASSUME NEW t \in Services \ {s} PROVE Identity(t)' /\ Early(t)'
  <2>1. Identity(t) /\ Early(t)
    BY DEF Steady
  <2> QED BY <2>1, <1>1, <1>7, <1>8, <1>10 DEF Identity, Early
<1>12. Identity(s)' /\ Early(s)'
  <2>1. Identity(s) /\ Early(s)
    BY DEF Steady
  <2>2. status'[s] = "ready" => \A i \in before'[s] : list'[s][i] \in Services
    BY <1>2, <1>8, <1>10, ListOfHas
  <2>3. Identity(s)'
    BY <2>1, <2>2, <1>1, <1>5, <1>10 DEF Identity
  <2>4. Early(s)'
    BY <2>1, <1>1, <1>7, <1>10 DEF Early
  <2> QED BY <2>3, <2>4
<1> QED BY <1>9, <1>11, <1>12 DEF Steady

(* What the actions do, connection by connection *)
There(s) == {i \in before[s] : status[list[s][i]] \in Alive}

LEMMA ConnectDoes ==
    ASSUME NamingInv, Steady, NEW s \in Services, Connect(s)
    PROVE  /\ status[s] = "ready" /\ status'[s] = "running" /\ mySid[s] \in SIds
           /\ \A t \in Services \ {s} : status'[t] = status[t]
           /\ UNCHANGED <<nsVars, toNs, toSv, link, mySid, list, doubtful, cnxId, late>>
           /\ \A i \in before[s] : i \in SIds /\ list[s][i] \in Services
           /\ entry' \in [Services -> [SIds -> CnxEntries]]
           /\ \A t \in Services \ {s} : entry'[t] = entry[t]
           /\ \A i \in SIds :
                 /\ entry'[s][i].of = entry[s][i].of
                 /\ entry'[s][i].connections = IF i \notin before[s] THEN <<>>
                       ELSE IF i \in There(s) THEN <<list[s][i]>> ELSE <<NoOne>>
           /\ open' \subseteq Services \X Services
           /\ \A c, t \in Services :
                 <<c, t>> \in open' <=> \/ <<c, t>> \in open
                                        \/ c = s /\ \E i \in There(s) : t = list[s][i]
           /\ events' \in [Services -> [Services -> Seq(Events)]]
           /\ \A c, t \in Services :
                 events'[t][c] = IF c = s /\ \E i \in There(s) : t = list[s][i]
                                 THEN Append(events[t][c], Event("UN_SIDENT", mySid[s]))
                                 ELSE events[t][c]
           /\ TellUp(s, There(s), list[s])
           /\ before' \in [Services -> SUBSET SIds] /\ before'[s] = {}
           /\ \A t \in Services \ {s} : before'[t] = before[t]
<1> DEFINE servers == {list[s][i] : i \in There(s)}
<1>0. NamingTypeOK /\ CnxTypes /\ Identity(s) /\ Early(s)
  BY DEF NamingInv, Steady
<1>1. /\ status[s] = "ready" /\ status' = [status EXCEPT ![s] = "running"]
      /\ UNCHANGED <<nsVars, toNs, toSv, link, mySid, list, doubtful, cnxId, late>>
  BY DEF Connect, EnterLoop, histVars
<1>2. mySid[s] \in SIds /\ \A i \in before[s] : i \in SIds /\ list[s][i] \in Services
  BY <1>0, <1>1 DEF Identity, NamingTypeOK, CnxTypes
<1>3. /\ status \in [Services -> Alive \cup {"off", "dead"}]
      /\ entry \in [Services -> [SIds -> CnxEntries]]
      /\ before \in [Services -> SUBSET SIds]
      /\ open \subseteq Services \X Services
      /\ events \in [Services -> [Services -> Seq(Events)]]
  BY <1>0 DEF CnxTypes, NamingTypeOK
<1>4. /\ entry' = [entry EXCEPT ![s] =
                [i \in SIds |->
                   IF i \notin before[s] THEN entry[s][i]
                   ELSE [entry[s][i] EXCEPT !.connections =
                            IF i \in There(s) THEN <<list[s][i]>> ELSE <<NoOne>>]]]
      /\ open' = open \cup ({s} \X servers)
      /\ events' = [t \in Services |->
                IF t \in servers
                THEN [events[t] EXCEPT ![s] = Append(events[t][s],
                                                     Event("UN_SIDENT", mySid[s]))]
                ELSE events[t]]
      /\ TellUp(s, There(s), list[s])
      /\ before' = [before EXCEPT ![s] = {}]
  BY <1>3 DEF Connect, There
<1>5. There(s) \in SUBSET before[s] /\ servers \subseteq Services
  BY <1>2 DEF There
<1>6. ASSUME NEW i \in SIds, i \in before[s]
      PROVE  LET n == [entry[s][i] EXCEPT !.connections =
                            IF i \in There(s) THEN <<list[s][i]>> ELSE <<NoOne>>]
             IN /\ n \in CnxEntries /\ n.of = entry[s][i].of
                /\ n.connections = IF i \in There(s) THEN <<list[s][i]>> ELSE <<NoOne>>
  <2> DEFINE c == IF i \in There(s) THEN list[s][i] ELSE NoOne
  <2>1. c \in Services \cup {NoOne}
    BY <1>2, <1>6
  <2>2. entry[s][i] \in CnxEntries
    BY <1>3
  <2>3. (IF i \in There(s) THEN <<list[s][i]>> ELSE <<NoOne>>) = <<c>>
    OBVIOUS
  <2> HIDE DEF c
  <2>4. [entry[s][i] EXCEPT !.connections = <<c>>] \in CnxEntries
    BY <2>1, <2>2 DEF CnxEntries
  <2>5. /\ [entry[s][i] EXCEPT !.connections = <<c>>].of = entry[s][i].of
        /\ [entry[s][i] EXCEPT !.connections = <<c>>].connections = <<c>>
    BY <2>2 DEF CnxEntries
  <2> QED BY <2>3, <2>4, <2>5
<1>7. /\ entry' \in [Services -> [SIds -> CnxEntries]]
      /\ \A t \in Services \ {s} : entry'[t] = entry[t]
      /\ \A i \in SIds :
            /\ entry'[s][i].of = entry[s][i].of
            /\ entry'[s][i].connections = IF i \notin before[s] THEN <<>>
                       ELSE IF i \in There(s) THEN <<list[s][i]>> ELSE <<NoOne>>
  <2> DEFINE E == [i \in SIds |->
                   IF i \notin before[s] THEN entry[s][i]
                   ELSE [entry[s][i] EXCEPT !.connections =
                            IF i \in There(s) THEN <<list[s][i]>> ELSE <<NoOne>>]]
  <2>1. \A i \in SIds : entry[s][i] \in CnxEntries /\ entry[s][i].connections = <<>>
    BY <1>0, <1>1, <1>3 DEF Early
  <2>2. /\ E \in [SIds -> CnxEntries]
        /\ \A i \in SIds :
            /\ E[i].of = entry[s][i].of
            /\ E[i].connections = IF i \notin before[s] THEN <<>>
                       ELSE IF i \in There(s) THEN <<list[s][i]>> ELSE <<NoOne>>
    BY <1>6, <2>1
  <2>3. entry' = [entry EXCEPT ![s] = E]
    BY <1>4
  <2> HIDE DEF E
  <2>4. entry'[s] = E
    BY <2>3, <1>3
  <2> QED BY <2>2, <2>3, <2>4, <1>3
<1>8. /\ events' \in [Services -> [Services -> Seq(Events)]]
      /\ \A c, t \in Services :
                 events'[t][c] = IF c = s /\ t \in servers
                                 THEN Append(events[t][c], Event("UN_SIDENT", mySid[s]))
                                 ELSE events[t][c]
  <2>1. Event("UN_SIDENT", mySid[s]) \in Events
    BY <1>2, EventFacts
  <2>2. \A t \in Services :
           Append(events[t][s], Event("UN_SIDENT", mySid[s])) \in Seq(Events)
    BY <2>1, <1>3, AppendProperties
  <2> HIDE DEF servers
  <2> QED BY <2>2, <1>3, <1>4
<1>9. \A t : t \in servers <=> \E i \in There(s) : t = list[s][i]
  OBVIOUS
<1>10. /\ open' \subseteq Services \X Services
       /\ \A c, t \in Services :
             <<c, t>> \in open' <=> <<c, t>> \in open \/ (c = s /\ t \in servers)
  <2> HIDE DEF servers
  <2> QED BY <1>3, <1>4, <1>5
<1>11. before' \in [Services -> SUBSET SIds] /\ before'[s] = {}
       /\ \A t \in Services \ {s} : before'[t] = before[t]
  BY <1>3, <1>4
<1>12. status'[s] = "running" /\ \A t \in Services \ {s} : status'[t] = status[t]
  BY <1>1, <1>3
<1> HIDE DEF servers
<1>13. \A c, t \in Services :
          <<c, t>> \in open' <=> \/ <<c, t>> \in open
                                 \/ c = s /\ \E i \in There(s) : t = list[s][i]
  BY <1>9, <1>10
<1>14. \A c, t \in Services :
          events'[t][c] = IF c = s /\ \E i \in There(s) : t = list[s][i]
                          THEN Append(events[t][c], Event("UN_SIDENT", mySid[s]))
                          ELSE events[t][c]
  BY <1>8, <1>9
<1> QED BY <1>1, <1>2, <1>4, <1>7, <1>8, <1>10, <1>11, <1>12, <1>13, <1>14

LEMMA ConnectSteady ==
    ASSUME NamingInv, Steady, NEW s \in Services, Connect(s), Answered'
    PROVE  Steady'
<1>0. NamingTypeOK /\ CnxTypes /\ \A t \in Services : Identity(t) /\ Early(t)
  BY DEF NamingInv, Steady
<1> DEFINE X == Event("UN_SIDENT", mySid[s])
<1>1. /\ status[s] = "ready" /\ status'[s] = "running" /\ mySid[s] \in SIds
      /\ \A t \in Services \ {s} : status'[t] = status[t]
      /\ UNCHANGED <<mySid, list, cnxId, late>>
      /\ entry' \in [Services -> [SIds -> CnxEntries]]
      /\ \A t \in Services \ {s} : entry'[t] = entry[t]
      /\ open' \subseteq Services \X Services
      /\ events' \in [Services -> [Services -> Seq(Events)]]
      /\ before' \in [Services -> SUBSET SIds]
      /\ \A t \in Services \ {s} : before'[t] = before[t]
  BY ConnectDoes
<1>2. /\ \A t \in Services, c \in Services \ {s} :
            events'[t][c] = events[t][c] /\ (<<c, t>> \in open' <=> <<c, t>> \in open)
      /\ \A t \in Services : events'[t][s] = events[t][s] \/ events'[t][s] = Append(events[t][s], X)
  <2>1. \A c, t \in Services :
                 <<c, t>> \in open' <=> \/ <<c, t>> \in open
                                        \/ c = s /\ \E i \in There(s) : t = list[s][i]
    BY ConnectDoes
  <2>2. \A c, t \in Services :
                 events'[t][c] = IF c = s /\ \E i \in There(s) : t = list[s][i]
                                 THEN Append(events[t][c], X)
                                 ELSE events[t][c]
    BY ConnectDoes
  <2> HIDE DEF X
  <2> QED BY <2>1, <2>2
<1>3. /\ named' \in [Services -> SUBSET (Names \X SIds)]
      /\ up' \in [Services -> [SIds -> Services \cup {NoOne}]]
      /\ upTwice' \in BOOLEAN
      /\ \A t \in Services \ {s} : named'[t] = named[t] /\ up'[t] = up[t]
  <2>1. \A i \in before[s] : i \in SIds /\ list[s][i] \in Services
    BY ConnectDoes
  <2>2. There(s) \in SUBSET SIds /\ \A i \in There(s) : list[s][i] \in Services
    BY <2>1 DEF There
  <2>3. TellUp(s, There(s), list[s]) /\ CnxTypes
    BY <1>0, ConnectDoes
  <2> DEFINE T == list[s]
             I == There(s)
  <2> HIDE DEF T, I
  <2>4. I \in SUBSET SIds /\ (\A i \in I : T[i] \in Services) /\ TellUp(s, I, T)
    BY <2>2, <2>3 DEF I, T
  <2> QED BY <2>3, <2>4, TellUpTypes
<1>4. CnxTypes'
  BY <1>0, <1>1, <1>3 DEF CnxTypes
<1>5. X \in Events /\ X.kind = "UN_SIDENT" /\ X.sid # NoSId
  BY <1>1, EventFacts, ConstantsAssumption DEF SIds, NoSId
<1> HIDE DEF X
<1>6. ASSUME NEW t \in Services, NEW c \in Services, NEW k \in 1 .. Len(events'[t][c]),
             events'[t][c][k].kind = "UN_SIDENT"
      PROVE  events'[t][c][k].sid # NoSId
  <2>1. \/ events'[t][c] = events[t][c]
        \/ events'[t][c] = Append(events[t][c], X)
    BY <1>2
  <2>2. events[t][c] \in Seq(Events)
    BY <1>0 DEF CnxTypes
  <2>3. \A n \in 1 .. Len(events[t][c]) :
           events[t][c][n].kind = "UN_SIDENT" => events[t][c][n].sid # NoSId
    BY <1>0 DEF Identity
  <2>4. CASE events'[t][c] = events[t][c]
    BY <2>3, <2>4, <1>6
  <2>5. CASE events'[t][c] = Append(events[t][c], X)
    <3>1. \/ k \in 1 .. Len(events[t][c]) /\ events'[t][c][k] = events[t][c][k]
          \/ events'[t][c][k] = X
      <4> DEFINE q == events[t][c]
      <4>1. q \in Seq(Events) /\ events'[t][c] = Append(q, X)
        BY <2>2, <2>5
      <4> HIDE DEF q
      <4>2. \A n \in 1 .. Len(Append(q, X)) :
               \/ n \in 1 .. Len(q) /\ Append(q, X)[n] = q[n]
               \/ n = Len(q) + 1 /\ Append(q, X)[n] = X
        BY <4>1, <1>5, AppendIsThere
      <4>3. \/ k \in 1 .. Len(q) /\ events'[t][c][k] = q[k]
            \/ events'[t][c][k] = X
        BY <4>1, <4>2
      <4> QED BY <4>3 DEF q
    <3> QED BY <3>1, <2>3, <1>5, <1>6
  <2> QED BY <2>1, <2>4, <2>5
<1>7. ASSUME NEW t \in Services PROVE Identity(t)' /\ Early(t)'
  <2>1. Identity(t) /\ Early(t)
    BY <1>0
  <2>2. Identity(t)'
    BY <2>1, <1>1, <1>6 DEF Identity
  <2>3. Early(t)'
    <3>1. CASE t = s
      BY <3>1, <1>1 DEF Early
    <3>2. CASE t # s
      BY <3>2, <2>1, <1>1, <1>2, <1>3 DEF Early
    <3> QED BY <3>1, <3>2
  <2> QED BY <2>2, <2>3
<1> QED BY <1>4, <1>7 DEF Steady

LEMMA AnnouncedDoes ==
    ASSUME NamingInv, Steady, NEW s \in Services, Announced(s)
    PROVE  LET m == Head(toSv[s])
           IN /\ status[s] = "running" /\ MessageIs(s, "RGB") /\ ReadBy(s)
              /\ m \in ToSv /\ m.sid \in SIds /\ m.inst \in Services
              /\ UNCHANGED <<nsVars, toNs, link, status, mySid, doubtful, named, before, open,
                             events, cnxId, up, upTwice, late>>
              /\ list' = [list EXCEPT ![s][m.sid] = m.inst]
              /\ entry' \in [Services -> [SIds -> CnxEntries]]
              /\ \A t \in Services \ {s} : entry'[t] = entry[t]
              /\ \A i \in SIds :
                    entry'[s][i] = IF i = m.sid /\ list[s][i] = NoOne /\ i # mySid[s]
                                      /\ entry[s][i] = NotUsed
                                   THEN [of |-> m.inst, connections |-> <<>>]
                                   ELSE entry[s][i]
<1> DEFINE m == Head(toSv[s])
<1>0. NamingTypeOK /\ entry \in [Services -> [SIds -> CnxEntries]]
  BY DEF NamingInv, Steady, CnxTypes
<1>1. /\ status[s] = "running" /\ MessageIs(s, "RGB") /\ ReadBy(s)
      /\ UNCHANGED <<nsVars, toNs, link, status, mySid, doubtful, named, before, open,
                             events, cnxId, up, upTwice, late>>
      /\ list' = [list EXCEPT ![s][m.sid] = m.inst]
  BY DEF Announced, ReadRegistration, histVars, upVars
<1>2. m \in ToSv /\ m.kind = "RGB"
  BY <1>0, <1>1, TailIsThere DEF MessageIs, NamingTypeOK
<1>3. m.sid \in SIds /\ m.inst \in Services
  BY <1>2 DEF ToSv
<1>4. entry' = IF /\ list[s][m.sid] = NoOne
                  /\ m.sid # mySid[s]
                  /\ entry[s][m.sid] = NotUsed
               THEN [entry EXCEPT ![s][m.sid].of = m.inst]
               ELSE entry
  BY DEF Announced
<1> HIDE DEF m
<1>5. entry[s][m.sid] = NotUsed =>
         [entry[s][m.sid] EXCEPT !.of = m.inst] = [of |-> m.inst, connections |-> <<>>]
  BY <1>3, RecordFacts
<1>6. entry[s][m.sid] = NotUsed =>
         [entry EXCEPT ![s][m.sid].of = m.inst]
            = [entry EXCEPT ![s][m.sid] = [of |-> m.inst, connections |-> <<>>]]
  BY <1>0, <1>3, <1>5
<1>7. [of |-> m.inst, connections |-> <<>>] \in CnxEntries
  BY <1>3, RecordFacts
<1>8. /\ entry' \in [Services -> [SIds -> CnxEntries]]
      /\ \A t \in Services \ {s} : entry'[t] = entry[t]
      /\ \A i \in SIds :
            entry'[s][i] = IF i = m.sid /\ list[s][i] = NoOne /\ i # mySid[s]
                              /\ entry[s][i] = NotUsed
                           THEN [of |-> m.inst, connections |-> <<>>]
                           ELSE entry[s][i]
  <2> DEFINE new == [of |-> m.inst, connections |-> <<>>]
  <2>1. entry' = entry \/ entry' = [entry EXCEPT ![s][m.sid] = new]
    BY <1>4, <1>6
  <2>2. entry' # entry => list[s][m.sid] = NoOne /\ m.sid # mySid[s] /\ entry[s][m.sid] = NotUsed
    BY <1>4
  <2>3. list[s][m.sid] = NoOne /\ m.sid # mySid[s] /\ entry[s][m.sid] = NotUsed
           => entry' = [entry EXCEPT ![s][m.sid] = new]
    BY <1>4, <1>6
  <2>4. new \in CnxEntries
    BY <1>7
  <2> HIDE DEF new
  <2>5. CASE entry' = [entry EXCEPT ![s][m.sid] = new] /\ list[s][m.sid] = NoOne
             /\ m.sid # mySid[s] /\ entry[s][m.sid] = NotUsed
    BY <2>4, <2>5, <1>0, <1>3 DEF new
  <2>6. CASE ~(list[s][m.sid] = NoOne /\ m.sid # mySid[s] /\ entry[s][m.sid] = NotUsed)
    BY <2>2, <2>6, <1>0, <1>3
  <2> QED BY <2>3, <2>5, <2>6
<1> QED BY <1>1, <1>2, <1>3, <1>8 DEF m

LEMMA AnnouncedSteady ==
    ASSUME NamingInv, Steady, NEW s \in Services, Announced(s), Answered'
    PROVE  Steady'
<1>0. NamingTypeOK /\ CnxTypes /\ \A t \in Services : Identity(t) /\ Early(t)
  BY DEF NamingInv, Steady
<1>1. /\ status[s] = "running"
      /\ UNCHANGED <<status, mySid, named, before, open, events, cnxId, up, upTwice, late>>
      /\ entry' \in [Services -> [SIds -> CnxEntries]]
      /\ \A t \in Services \ {s} : entry'[t] = entry[t]
  BY AnnouncedDoes
<1>2. \A t \in Services \ {s} : list'[t] = list[t]
  BY <1>0 DEF Announced, ReadRegistration, NamingTypeOK
<1>3. CnxTypes'
  BY <1>0, <1>1 DEF CnxTypes
<1>4. ASSUME NEW t \in Services PROVE Identity(t)' /\ Early(t)'
  <2>1. Identity(t) /\ Early(t)
    BY <1>0
  <2>2. CASE t = s
    BY <2>1, <2>2, <1>1 DEF Identity, Early
  <2>3. CASE t # s
    BY <2>1, <2>3, <1>1, <1>2 DEF Identity, Early
  <2> QED BY <2>2, <2>3
<1> QED BY <1>3, <1>4 DEF Steady

(* uc->reset() of the entry of an id *)
Peers(s, i) == {c \in Services : entry[s][i].connections = <<c>>}

LEMMA ResetDoes ==
    ASSUME CnxTypes, NEW s \in Services, NEW i \in SIds, ResetEntry(s, i)
    PROVE  /\ entry' \in [Services -> [SIds -> CnxEntries]]
           /\ \A t \in Services \ {s} : entry'[t] = entry[t]
           /\ entry'[s][i] = NotUsed
           /\ \A j \in SIds \ {i} : entry'[s][j] = entry[s][j]
           /\ open' \subseteq open
           /\ \A c, t \in Services :
                 <<c, t>> \in open' => /\ ~(c = s /\ t \in Peers(s, i))
                                       /\ ~(t = s /\ c \in Peers(s, i))
           /\ events' \in [Services -> [Services -> Seq(Events)]]
           /\ \A c, t \in Services :
                 \/ events'[t][c] = events[t][c]
                 \/ /\ c = s
                    /\ events'[t][c] = Append(events[t][c], Event("disconnection", NoSId))
           /\ cnxId' \in [Services -> [Services -> SIds \cup {AppIdDeadConnection}]]
           /\ \A t \in Services \ {s} : cnxId'[t] = cnxId[t]
           /\ \A c \in Services : cnxId'[s][c] = IF c \in Peers(s, i) THEN AppIdDeadConnection
                                                 ELSE cnxId[s][c]
<1> DEFINE P == Peers(s, i)
           C == open \cap ({s} \X P)
           X == Event("disconnection", NoSId)
           D == [c \in Services |-> IF c \in P THEN AppIdDeadConnection ELSE cnxId[s][c]]
<1>0. /\ entry \in [Services -> [SIds -> CnxEntries]]
      /\ open \subseteq Services \X Services
      /\ events \in [Services -> [Services -> Seq(Events)]]
      /\ cnxId \in [Services -> [Services -> SIds \cup {AppIdDeadConnection}]]
  BY DEF CnxTypes
<1>1. /\ entry' = [entry EXCEPT ![s][i] = NotUsed]
      /\ open' = open \ (({s} \X P) \cup (P \X {s}))
      /\ events' = Closing(C)
      /\ cnxId' = [cnxId EXCEPT ![s] = D]
  BY <1>0 DEF ResetEntry, Peers
<1>2. /\ entry' \in [Services -> [SIds -> CnxEntries]]
      /\ \A t \in Services \ {s} : entry'[t] = entry[t]
      /\ entry'[s][i] = NotUsed
      /\ \A j \in SIds \ {i} : entry'[s][j] = entry[s][j]
  BY <1>0, <1>1, RecordFacts, ConstantsAssumption
<1>3. P \subseteq Services
  BY DEF Peers
<1>4. X \in Events
  BY EventFacts
<1> HIDE DEF P, X
<1>5. /\ open' \subseteq open
      /\ \A c, t \in Services :
            <<c, t>> \in open' => ~(c = s /\ t \in P) /\ ~(t = s /\ c \in P)
  BY <1>1
<1>6. \A c, t \in Services : <<c, t>> \in C <=> <<c, t>> \in open /\ c = s /\ t \in P
  BY <1>3
<1>7. events' = [t \in Services |-> [c \in Services |->
         IF <<c, t>> \in C THEN Append(events[t][c], X) ELSE events[t][c]]]
  BY <1>1 DEF Closing, X
<1> HIDE DEF C
<1>8. /\ events' \in [Services -> [Services -> Seq(Events)]]
      /\ \A c, t \in Services :
            events'[t][c] = IF <<c, t>> \in C THEN Append(events[t][c], X) ELSE events[t][c]
  <2>1. \A c, t \in Services : /\ events[t][c] \in Seq(Events)
                               /\ Append(events[t][c], X) \in Seq(Events)
    BY <1>0, <1>4, AppendProperties
  <2> QED BY <1>7, <2>1
<1>9. /\ cnxId' \in [Services -> [Services -> SIds \cup {AppIdDeadConnection}]]
      /\ \A t \in Services \ {s} : cnxId'[t] = cnxId[t]
      /\ \A c \in Services : cnxId'[s][c] = IF c \in P THEN AppIdDeadConnection
                                            ELSE cnxId[s][c]
  <2>1. D \in [Services -> SIds \cup {AppIdDeadConnection}]
    BY <1>0
  <2>2. \A c \in Services : D[c] = IF c \in P THEN AppIdDeadConnection ELSE cnxId[s][c]
    OBVIOUS
  <2> HIDE DEF D
  <2> QED BY <2>1, <2>2, <1>0, <1>1
<1> HIDE DEF D
<1> QED BY <1>2, <1>5, <1>6, <1>8, <1>9 DEF P, X

LEMMA UnannouncedDoes ==
    ASSUME NamingInv, Steady, NEW s \in Services, Unannounced(s)
    PROVE  LET i == Head(toSv[s]).sid
               e == entry[s][i]
           IN /\ status[s] = "running" /\ MessageIs(s, "UNB") /\ ReadBy(s)
              /\ Head(toSv[s]) \in ToSv /\ i \in SIds
              /\ UNCHANGED <<nsVars, link, mySid, doubtful, before, upTwice, late>>
              /\ list' = [list EXCEPT ![s][i] = NoOne]
              /\ \A t \in Services \ {s} : status'[t] = status[t]
              /\ status'[s] = IF mySid[s] = i THEN "leaving" ELSE "running"
              /\ \/ /\ i = mySid[s] \/ e = NotUsed
                    /\ UNCHANGED <<named, open, events, cnxId, entry, up>>
                 \/ /\ i # mySid[s] /\ e # NotUsed
                    /\ ResetEntry(s, i)
                    /\ up' = [up EXCEPT ![s][i] = NoOne]
                    /\ named' = IF e.connections = <<>> THEN named
                                ELSE [named EXCEPT ![s] = named[s] \ {<<Name[e.of], i>>}]
<1> DEFINE i == Head(toSv[s]).sid
           e == entry[s][i]
<1>0. NamingTypeOK /\ named \in [Services -> SUBSET (Names \X SIds)]
  BY DEF NamingInv, Steady, CnxTypes
<1>1. /\ status[s] = "running" /\ MessageIs(s, "UNB") /\ ReadBy(s)
      /\ UNCHANGED <<nsVars, link, mySid, doubtful, before, upTwice, late>>
      /\ list' = [list EXCEPT ![s][i] = NoOne]
  BY DEF Unannounced, ReadUnregistration, histVars
<1>2. Head(toSv[s]) \in ToSv /\ Head(toSv[s]).kind = "UNB"
  BY <1>0, <1>1, TailIsThere DEF MessageIs, NamingTypeOK
<1>3. i \in SIds
  BY <1>2 DEF ToSv
<1>4. status' = [status EXCEPT ![s] = IF mySid[s] = i THEN "leaving" ELSE status[s]]
  BY <1>0 DEF Unannounced, ReadUnregistration, NamingTypeOK
<1>5. IF i = mySid[s] \/ e = NotUsed
      THEN UNCHANGED <<named, open, events, cnxId, entry, up>>
      ELSE /\ ResetEntry(s, i)
           /\ up' = [up EXCEPT ![s][i] = NoOne]
           /\ named' = IF e.connections = <<>> THEN named
                       ELSE [named EXCEPT ![s] = named[s] \ {<<Name[e.of], i>>}]
  BY <1>0 DEF Unannounced
<1> HIDE DEF i, e
<1>6. /\ \A t \in Services \ {s} : status'[t] = status[t]
      /\ status'[s] = IF mySid[s] = i THEN "leaving" ELSE "running"
  BY <1>0, <1>1, <1>4 DEF NamingTypeOK
<1> QED BY <1>1, <1>2, <1>3, <1>5, <1>6 DEF i, e

(* of the events one is read, or a disconnection is added *)
LEMMA EventsIdentify ==
    ASSUME NEW q \in Seq(Events), NEW r,
           \/ r = q \/ r = Append(q, Event("disconnection", NoSId))
           \/ q # <<>> /\ r = Tail(q),
           \A k \in 1 .. Len(q) : q[k].kind = "UN_SIDENT" => q[k].sid # NoSId
    PROVE  \A k \in 1 .. Len(r) : r[k].kind = "UN_SIDENT" => r[k].sid # NoSId
<1> DEFINE X == Event("disconnection", NoSId)
<1>1. X \in Events /\ X.kind = "disconnection"
  BY EventFacts
<1> HIDE DEF X
<1>2. CASE r = Append(q, X)
  BY <1>1, <1>2, AppendIsThere
<1>3. CASE q # <<>> /\ r = Tail(q)
  BY <1>3, TailIsThere
<1> QED BY <1>2, <1>3 DEF X

LEMMA UnannouncedSteady ==
    ASSUME NamingInv, Steady, NEW s \in Services, Unannounced(s), Answered'
    PROVE  Steady'
<1> DEFINE i == Head(toSv[s]).sid
           e == entry[s][i]
           X == Event("disconnection", NoSId)
<1>0. NamingTypeOK /\ CnxTypes /\ \A t \in Services : Identity(t) /\ Early(t)
  BY DEF NamingInv, Steady
<1>1. /\ status[s] = "running" /\ i \in SIds
      /\ UNCHANGED <<mySid, before, upTwice, late>>
      /\ list' = [list EXCEPT ![s][i] = NoOne]
      /\ \A t \in Services \ {s} : status'[t] = status[t]
      /\ status'[s] = IF mySid[s] = i THEN "leaving" ELSE "running"
  BY UnannouncedDoes
<1>2. \/ UNCHANGED <<named, open, events, cnxId, entry, up>>
      \/ /\ ResetEntry(s, i)
         /\ up' = [up EXCEPT ![s][i] = NoOne]
         /\ named' = IF e.connections = <<>> THEN named
                     ELSE [named EXCEPT ![s] = named[s] \ {<<Name[e.of], i>>}]
  BY UnannouncedDoes
<1> HIDE DEF i, e, X
<1>3. \A t \in Services \ {s} : list'[t] = list[t]
  BY <1>0, <1>1 DEF NamingTypeOK
<1>4. /\ entry' \in [Services -> [SIds -> CnxEntries]]
      /\ open' \subseteq open
      /\ events' \in [Services -> [Services -> Seq(Events)]]
      /\ cnxId' \in [Services -> [Services -> SIds \cup {AppIdDeadConnection}]]
      /\ \A t \in Services \ {s} : entry'[t] = entry[t] /\ cnxId'[t] = cnxId[t]
      /\ \A c \in Services : cnxId'[s][c] \in {cnxId[s][c], AppIdDeadConnection}
      /\ \A c, t \in Services : \/ events'[t][c] = events[t][c]
                                \/ c = s /\ events'[t][c] = Append(events[t][c], X)
  <2>1. CASE UNCHANGED <<named, open, events, cnxId, entry, up>>
    BY <2>1, <1>0 DEF CnxTypes
  <2>2. CASE ResetEntry(s, i)
    <3>1. CnxTypes /\ i \in SIds
      BY <1>0, <1>1
    <3>2. /\ entry' \in [Services -> [SIds -> CnxEntries]]
          /\ open' \subseteq open
          /\ events' \in [Services -> [Services -> Seq(Events)]]
          /\ cnxId' \in [Services -> [Services -> SIds \cup {AppIdDeadConnection}]]
      BY <2>2, <3>1, ResetDoes
    <3>3. /\ \A t \in Services \ {s} : entry'[t] = entry[t] /\ cnxId'[t] = cnxId[t]
          /\ \A c \in Services : cnxId'[s][c] \in {cnxId[s][c], AppIdDeadConnection}
      BY <2>2, <3>1, ResetDoes
    <3>4. \A c, t \in Services :
             \/ events'[t][c] = events[t][c]
             \/ c = s /\ events'[t][c] = Append(events[t][c], X)
      BY <2>2, <3>1, ResetDoes DEF X
    <3> QED BY <3>2, <3>3, <3>4
  <2> QED BY <1>2, <2>1, <2>2
<1>5. /\ up' \in [Services -> [SIds -> Services \cup {NoOne}]]
      /\ named' \in [Services -> SUBSET (Names \X SIds)]
      /\ \A t \in Services \ {s} : up'[t] = up[t] /\ named'[t] = named[t]
  <2> DEFINE N == named[s] \ {<<Name[e.of], i>>}
  <2>1. /\ up \in [Services -> [SIds -> Services \cup {NoOne}]]
        /\ named \in [Services -> SUBSET (Names \X SIds)]
    BY <1>0 DEF CnxTypes
  <2>2. up' = up \/ up' = [up EXCEPT ![s][i] = NoOne]
    BY <1>2
  <2>3. named' = named \/ named' = [named EXCEPT ![s] = N]
    BY <1>2
  <2>4. N \in SUBSET (Names \X SIds)
    BY <2>1
  <2> HIDE DEF N
  <2>5. up' \in [Services -> [SIds -> Services \cup {NoOne}]]
        /\ \A t \in Services \ {s} : up'[t] = up[t]
    BY <2>1, <2>2, <1>1
  <2>6. named' \in [Services -> SUBSET (Names \X SIds)]
        /\ \A t \in Services \ {s} : named'[t] = named[t]
    BY <2>1, <2>3, <2>4
  <2> QED BY <2>5, <2>6
<1>6. CnxTypes'
  BY <1>0, <1>1, <1>4, <1>5 DEF CnxTypes
<1>7. ASSUME NEW t \in Services PROVE Identity(t)' /\ Early(t)'
  <2>1. Identity(t) /\ Early(t)
    BY <1>0
  <2>2. \A c \in Services : \A k \in 1 .. Len(events'[t][c]) :
           events'[t][c][k].kind = "UN_SIDENT" => events'[t][c][k].sid # NoSId
    <3> TAKE c \in Services
    <3>1. events[t][c] \in Seq(Events)
      BY <1>0 DEF CnxTypes
    <3>2. \A k \in 1 .. Len(events[t][c]) :
             events[t][c][k].kind = "UN_SIDENT" => events[t][c][k].sid # NoSId
      BY <2>1 DEF Identity
    <3>3. events'[t][c] = events[t][c] \/ events'[t][c] = Append(events[t][c], X)
      BY <1>4
    <3> QED BY <3>1, <3>2, <3>3, EventsIdentify DEF X
  <2>3. CASE t = s
    BY <2>1, <2>2, <2>3, <1>1 DEF Identity, Early
  <2>4. CASE t # s
    <3>1. Identity(t)'
      BY <2>1, <2>2, <2>4, <1>1, <1>3 DEF Identity
    <3>2. \A u \in Services : events'[u][t] = events[u][t]
      BY <2>4, <1>4
    <3>3. \A u \in Services : cnxId'[u][t] \in {cnxId[u][t], AppIdDeadConnection}
      BY <1>4
    <3>4. Early(t)'
      BY <2>1, <2>4, <1>1, <1>4, <1>5, <3>2, <3>3 DEF Early
    <3> QED BY <3>1, <3>4
  <2> QED BY <2>3, <2>4
<1> QED BY <1>6, <1>7 DEF Steady

LEMMA IdentifiedDoes ==
    ASSUME NamingInv, Steady, NEW s \in Services, NEW c \in Services, Identified(s, c)
    PROVE  LET i == Head(events[s][c]).sid
               e == entry[s][i]
           IN /\ status[s] = "running" /\ i \in SIds /\ status[c] \notin {"off", "asking", "ready"}
              /\ events[s][c] # <<>> /\ Head(events[s][c]).kind = "UN_SIDENT"
              /\ entry' \in [Services -> [SIds -> CnxEntries]]
              /\ \A t \in Services \ {s} : entry'[t] = entry[t]
              /\ \A j \in SIds \ {i} : entry'[s][j] = entry[s][j]
              /\ entry'[s][i] = [of |-> IF e = NotUsed THEN c ELSE e.of, connections |-> <<c>>]
              /\ cnxId' = [cnxId EXCEPT ![s][c] = i]
              /\ TellUp(s, IF e.connections = <<>> THEN {i} ELSE {}, [j \in {i} |-> c])
              /\ late' = (late \/ Unregistered(s, c, i))
              /\ Handled(s, c)
              /\ UNCHANGED <<namingVars, before, open>>
<1> DEFINE i == Head(events[s][c]).sid
           e == entry[s][i]
           new == [of |-> IF e = NotUsed THEN c ELSE e.of, connections |-> <<c>>]
<1>0. NamingTypeOK /\ CnxTypes /\ Identity(s) /\ Early(c)
  BY DEF NamingInv, Steady
<1>1. /\ status[s] = "running"
      /\ events[s][c] # <<>> /\ Head(events[s][c]).kind = "UN_SIDENT"
      /\ cnxId' = [cnxId EXCEPT ![s][c] = i]
      /\ TellUp(s, IF e.connections = <<>> THEN {i} ELSE {}, [j \in {i} |-> c])
      /\ late' = (late \/ Unregistered(s, c, i))
      /\ Handled(s, c)
      /\ UNCHANGED <<namingVars, before, open>>
  BY DEF Identified, EventIs
<1>2. entry' = [entry EXCEPT ![s][i] = new]
  BY DEF Identified
<1>3. status[c] \notin {"off", "asking", "ready"}
  BY <1>0, <1>1 DEF Early
<1>4. i \in SIds
  <2>1. events[s][c] \in Seq(Events)
    BY <1>0 DEF CnxTypes
  <2>2. Head(events[s][c]) = events[s][c][1] /\ 1 \in 1 .. Len(events[s][c])
        /\ Head(events[s][c]) \in Events
    BY <1>1, <2>1, TailIsThere
  <2>3. i # NoSId
    BY <2>2, <1>0, <1>1 DEF Identity
  <2> QED BY <2>2, <2>3 DEF Events
<1>5. entry \in [Services -> [SIds -> CnxEntries]]
  BY <1>0 DEF CnxTypes
<1> HIDE DEF i
<1>6. new \in CnxEntries
  <2>1. e \in CnxEntries
    BY <1>4, <1>5
  <2> DEFINE of == IF e = NotUsed THEN c ELSE e.of
  <2>2. of \in Services \cup {NoOne}
    BY <2>1 DEF CnxEntries
  <2> HIDE DEF of
  <2>3. [of |-> of, connections |-> <<c>>] \in CnxEntries
    BY <2>2, RecordFacts
  <2> QED BY <2>3 DEF of
<1> HIDE DEF new
<1>7. /\ entry' \in [Services -> [SIds -> CnxEntries]]
      /\ \A t \in Services \ {s} : entry'[t] = entry[t]
      /\ \A j \in SIds \ {i} : entry'[s][j] = entry[s][j]
      /\ entry'[s][i] = new
  BY <1>2, <1>4, <1>5, <1>6
<1> HIDE DEF e
<1> QED BY <1>1, <1>3, <1>4, <1>7 DEF i, e, new

LEMMA IdentifiedSteady ==
    ASSUME NamingInv, Steady, NEW s \in Services, NEW c \in Services, Identified(s, c),
           Answered'
    PROVE  Steady'
<1> DEFINE i == Head(events[s][c]).sid
           I == IF entry[s][i].connections = <<>> THEN {i} ELSE {}
           T == [j \in {i} |-> c]
<1>0. CnxTypes /\ \A t \in Services : Identity(t) /\ Early(t)
  BY DEF Steady
<1>1. /\ status[s] = "running" /\ i \in SIds /\ status[c] \notin {"off", "asking", "ready"}
      /\ events[s][c] # <<>>
      /\ entry' \in [Services -> [SIds -> CnxEntries]]
      /\ \A t \in Services \ {s} : entry'[t] = entry[t]
      /\ cnxId' = [cnxId EXCEPT ![s][c] = i]
      /\ TellUp(s, I, T)
      /\ late' = (late \/ Unregistered(s, c, i))
      /\ Handled(s, c)
      /\ UNCHANGED <<namingVars, before, open>>
  BY IdentifiedDoes, ZenonT(40)
<1>2. UNCHANGED <<status, mySid, list>>
  BY <1>1 DEF namingVars, clientVars
<1> HIDE DEF i
<1>3. I \in SUBSET SIds /\ \A j \in I : T[j] \in Services
  BY <1>1
<1> HIDE DEF I, T
<1>4. /\ named' \in [Services -> SUBSET (Names \X SIds)]
      /\ up' \in [Services -> [SIds -> Services \cup {NoOne}]]
      /\ upTwice' \in BOOLEAN
      /\ \A t \in Services \ {s} : named'[t] = named[t] /\ up'[t] = up[t]
  BY <1>0, <1>1, <1>3, TellUpTypes
<1>5. /\ cnxId' \in [Services -> [Services -> SIds \cup {AppIdDeadConnection}]]
      /\ \A t \in Services \ {s} : cnxId'[t] = cnxId[t]
      /\ \A d \in Services \ {c} : cnxId'[s][d] = cnxId[s][d]
  BY <1>0, <1>1 DEF CnxTypes
<1>6. /\ events' \in [Services -> [Services -> Seq(Events)]]
      /\ events'[s][c] = Tail(events[s][c])
      /\ \A t, d \in Services : t # s \/ d # c => events'[t][d] = events[t][d]
  <2>1. events \in [Services -> [Services -> Seq(Events)]]
    BY <1>0 DEF CnxTypes
  <2>2. Tail(events[s][c]) \in Seq(Events)
    BY <2>1, <1>1, TailIsThere
  <2>3. events' = [events EXCEPT ![s][c] = Tail(events[s][c])]
    BY <1>1, <2>1 DEF Handled
  <2> QED BY <2>1, <2>2, <2>3
<1>7. late' \in BOOLEAN
  BY <1>0, <1>1 DEF CnxTypes, Unregistered
<1>8. CnxTypes'
  BY <1>0, <1>1, <1>4, <1>5, <1>6, <1>7 DEF CnxTypes
<1>9. ASSUME NEW t \in Services PROVE Identity(t)' /\ Early(t)'
  <2>1. Identity(t) /\ Early(t)
    BY <1>0
  <2>2. \A d \in Services : \A k \in 1 .. Len(events'[t][d]) :
           events'[t][d][k].kind = "UN_SIDENT" => events'[t][d][k].sid # NoSId
    <3> TAKE d \in Services
    <3>1. events[t][d] \in Seq(Events)
      BY <1>0 DEF CnxTypes
    <3>2. \A k \in 1 .. Len(events[t][d]) :
             events[t][d][k].kind = "UN_SIDENT" => events[t][d][k].sid # NoSId
      BY <2>1 DEF Identity
    <3>3. \/ events'[t][d] = events[t][d]
          \/ events[t][d] # <<>> /\ events'[t][d] = Tail(events[t][d])
      <4>1. events[s][c] # <<>>
        BY <1>1
      <4> QED BY <4>1, <1>6
    <3> QED BY <3>1, <3>2, <3>3, EventsIdentify
  <2>3. Identity(t)'
    BY <2>1, <2>2, <1>1, <1>2 DEF Identity
  <2>4. /\ status'[t] \notin {"running", "leaving"} =>
             cnxId'[t] = Unknown /\ up'[t] = Unlisted /\ named'[t] = {}
        /\ status'[t] \notin {"ready", "running", "leaving"} => entry'[t] = NoEntries
        /\ status'[t] = "ready" => \A j \in SIds : entry'[t][j].connections = <<>>
    BY <2>1, <1>1, <1>2, <1>4, <1>5 DEF Early
  <2>5. ASSUME status'[t] \in {"off", "asking", "ready"}, NEW u \in Services
        PROVE  /\ events'[u][t] = <<>> /\ cnxId'[u][t] = AppIdDeadConnection
               /\ <<t, u>> \notin open'
    <3>1. t # c /\ status[t] \in {"off", "asking", "ready"}
      BY <2>5, <1>1, <1>2
    <3>2. events[u][t] = <<>> /\ cnxId[u][t] = AppIdDeadConnection /\ <<t, u>> \notin open
      BY <3>1, <2>1 DEF Early
    <3>3. open' = open
      BY <1>1
    <3> QED BY <3>1, <3>2, <3>3, <1>5, <1>6
  <2>6. Early(t)'
    BY <2>4, <2>5 DEF Early
  <2> QED BY <2>3, <2>6
<1> QED BY <1>8, <1>9 DEF Steady

LEMMA DisconnectedDoes ==
    ASSUME NamingInv, Steady, NEW s \in Services, NEW c \in Services, Disconnected(s, c)
    PROVE  LET i == cnxId[s][c]
           IN /\ status[s] = "running"
              /\ events[s][c] # <<>> /\ Head(events[s][c]).kind = "disconnection"
              /\ entry' \in [Services -> [SIds -> CnxEntries]]
              /\ \A t \in Services \ {s} : entry'[t] = entry[t]
              /\ \A j \in SIds :
                    /\ entry'[s][j].of = entry[s][j].of
                    /\ entry'[s][j].connections =
                          IF j = i /\ entry[s][j].connections = <<c>> THEN <<NoOne>>
                          ELSE entry[s][j].connections
              /\ cnxId' = [cnxId EXCEPT ![s][c] = AppIdDeadConnection]
              /\ Handled(s, c)
              /\ UNCHANGED <<namingVars, named, before, open, up, upTwice, late>>
<1> DEFINE i == cnxId[s][c]
           ends == i # AppIdDeadConnection /\ entry[s][i].connections = <<c>>
           new == [entry[s][i] EXCEPT !.connections = <<NoOne>>]
<1>0. CnxTypes /\ i \in SIds \cup {AppIdDeadConnection}
      /\ entry \in [Services -> [SIds -> CnxEntries]]
  BY DEF Steady, CnxTypes
<1>1. /\ status[s] = "running"
      /\ events[s][c] # <<>> /\ Head(events[s][c]).kind = "disconnection"
      /\ cnxId' = [cnxId EXCEPT ![s][c] = AppIdDeadConnection]
      /\ Handled(s, c)
      /\ UNCHANGED <<namingVars, named, before, open, up, upTwice, late>>
  BY DEF Disconnected, EventIs, upVars
<1>2. entry' = IF ends THEN [entry EXCEPT ![s][i].connections = <<NoOne>>] ELSE entry
  BY DEF Disconnected
<1>3. AppIdDeadConnection \notin SIds
  BY ConstantsAssumption DEF AppIdDeadConnection, NoSId, SIds
<1> HIDE DEF i
<1>4. i \in SIds => /\ new \in CnxEntries /\ new.of = entry[s][i].of
                    /\ new.connections = <<NoOne>>
  <2> SUFFICES ASSUME i \in SIds
               PROVE  /\ new \in CnxEntries /\ new.of = entry[s][i].of
                      /\ new.connections = <<NoOne>>
    OBVIOUS
  <2> DEFINE e == entry[s][i]
  <2>1. e \in CnxEntries
    BY <1>0
  <2> HIDE DEF e
  <2>2. LET n == [e EXCEPT !.connections = <<NoOne>>]
        IN n \in CnxEntries /\ n.of = e.of /\ n.connections = <<NoOne>>
    BY <2>1 DEF CnxEntries
  <2> QED BY <2>2 DEF e
<1>5. i \in SIds =>
         [entry EXCEPT ![s][i].connections = <<NoOne>>] = [entry EXCEPT ![s][i] = new]
  BY <1>0
<1> HIDE DEF new
<1>6. CASE ends
  <2>1. i \in SIds /\ entry' = [entry EXCEPT ![s][i] = new]
    BY <1>0, <1>2, <1>5, <1>6
  <2>2. /\ entry' \in [Services -> [SIds -> CnxEntries]]
        /\ \A t \in Services \ {s} : entry'[t] = entry[t]
        /\ entry'[s][i] = new
        /\ \A j \in SIds \ {i} : entry'[s][j] = entry[s][j]
    BY <2>1, <1>0, <1>4
  <2> QED BY <1>1, <1>4, <1>6, <2>1, <2>2 DEF i
<1>7. CASE ~ends
  <2>1. entry' = entry
    BY <1>2, <1>7
  <2>2. \A j \in SIds : ~(j = i /\ entry[s][j].connections = <<c>>)
    BY <1>3, <1>7
  <2> QED BY <2>1, <2>2, <1>0, <1>1 DEF i
<1> QED BY <1>6, <1>7

LEMMA DisconnectedSteady ==
    ASSUME NamingInv, Steady, NEW s \in Services, NEW c \in Services, Disconnected(s, c),
           Answered'
    PROVE  Steady'
<1>0. CnxTypes /\ \A t \in Services : Identity(t) /\ Early(t)
  BY DEF Steady
<1>1. /\ status[s] = "running" /\ events[s][c] # <<>>
      /\ entry' \in [Services -> [SIds -> CnxEntries]]
      /\ \A t \in Services \ {s} : entry'[t] = entry[t]
      /\ cnxId' = [cnxId EXCEPT ![s][c] = AppIdDeadConnection]
      /\ Handled(s, c)
      /\ UNCHANGED <<namingVars, named, before, open, up, upTwice, late>>
  BY DisconnectedDoes
<1>2. UNCHANGED <<status, mySid, list>>
  BY <1>1 DEF namingVars, clientVars
<1>5. /\ cnxId' \in [Services -> [Services -> SIds \cup {AppIdDeadConnection}]]
      /\ \A t \in Services \ {s} : cnxId'[t] = cnxId[t]
      /\ \A t, d \in Services : cnxId'[t][d] \in {cnxId[t][d], AppIdDeadConnection}
  BY <1>0, <1>1 DEF CnxTypes
<1>6. /\ events' \in [Services -> [Services -> Seq(Events)]]
      /\ events'[s][c] = Tail(events[s][c])
      /\ \A t, d \in Services : t # s \/ d # c => events'[t][d] = events[t][d]
  <2>1. events \in [Services -> [Services -> Seq(Events)]]
    BY <1>0 DEF CnxTypes
  <2>2. Tail(events[s][c]) \in Seq(Events)
    BY <2>1, <1>1, TailIsThere
  <2>3. events' = [events EXCEPT ![s][c] = Tail(events[s][c])]
    BY <1>1, <2>1 DEF Handled
  <2> QED BY <2>1, <2>2, <2>3
<1>8. CnxTypes'
  BY <1>0, <1>1, <1>5, <1>6 DEF CnxTypes
<1>9. ASSUME NEW t \in Services PROVE Identity(t)' /\ Early(t)'
  <2>1. Identity(t) /\ Early(t)
    BY <1>0
  <2>2. \A d \in Services : \A k \in 1 .. Len(events'[t][d]) :
           events'[t][d][k].kind = "UN_SIDENT" => events'[t][d][k].sid # NoSId
    <3> TAKE d \in Services
    <3>1. events[t][d] \in Seq(Events)
      BY <1>0 DEF CnxTypes
    <3>2. \A k \in 1 .. Len(events[t][d]) :
             events[t][d][k].kind = "UN_SIDENT" => events[t][d][k].sid # NoSId
      BY <2>1 DEF Identity
    <3>3. \/ events'[t][d] = events[t][d]
          \/ events[t][d] # <<>> /\ events'[t][d] = Tail(events[t][d])
      <4>1. events[s][c] # <<>>
        BY <1>1
      <4> QED BY <4>1, <1>6
    <3> QED BY <3>1, <3>2, <3>3, EventsIdentify
  <2>3. Identity(t)'
    BY <2>1, <2>2, <1>1, <1>2 DEF Identity
  <2>4. /\ status'[t] \notin {"running", "leaving"} =>
             cnxId'[t] = Unknown /\ up'[t] = Unlisted /\ named'[t] = {}
        /\ status'[t] \notin {"ready", "running", "leaving"} => entry'[t] = NoEntries
        /\ status'[t] = "ready" => \A j \in SIds : entry'[t][j].connections = <<>>
    BY <2>1, <1>1, <1>2, <1>5 DEF Early
  <2>5. ASSUME status'[t] \in {"off", "asking", "ready"}, NEW u \in Services
        PROVE  /\ events'[u][t] = <<>> /\ cnxId'[u][t] = AppIdDeadConnection
               /\ <<t, u>> \notin open'
    <3>1. status[t] \in {"off", "asking", "ready"}
      BY <2>5, <1>2
    <3>2. events[u][t] = <<>> /\ cnxId[u][t] = AppIdDeadConnection /\ <<t, u>> \notin open
      BY <3>1, <2>1 DEF Early
    <3> QED BY <3>2, <1>1, <1>5, <1>6
  <2>6. Early(t)'
    BY <2>4, <2>5 DEF Early
  <2> QED BY <2>3, <2>6
<1> QED BY <1>8, <1>9 DEF Steady

LEMMA EndedDoes ==
    ASSUME NamingInv, Steady, NEW s \in Services, Ended(s)
    PROVE  /\ status[s] \in Alive
           /\ Gone(s) /\ (Die(s) \/ Leave(s))
           /\ status' = [status EXCEPT ![s] = "dead"]
           /\ toSv' = [toSv EXCEPT ![s] = <<>>]
           /\ list' = [list EXCEPT ![s] = Unlisted]
           /\ mySid' = [mySid EXCEPT ![s] = NoSId]
           /\ UNCHANGED <<nsVars, doubtful, upTwice, late>>
           /\ entry' = [entry EXCEPT ![s] = NoEntries]
           /\ named' = [named EXCEPT ![s] = {}]
           /\ before' = [before EXCEPT ![s] = {}]
           /\ open' \subseteq open
           /\ \A t \in Services : <<t, s>> \notin open' /\ <<s, t>> \notin open'
           /\ events' \in [Services -> [Services -> Seq(Events)]]
           /\ events'[s] = Quiet
           /\ \A t \in Services \ {s}, c \in Services :
                 \/ events'[t][c] = events[t][c]
                 \/ /\ c = s
                    /\ events'[t][c] = Append(events[t][c], Event("disconnection", NoSId))
           /\ cnxId' = [cnxId EXCEPT ![s] = Unknown]
           /\ up' = [up EXCEPT ![s] = Unlisted]
<1> DEFINE C == {l \in open : l[1] = s}
           X == Event("disconnection", NoSId)
<1>0. /\ open \subseteq Services \X Services
      /\ events \in [Services -> [Services -> Seq(Events)]]
  BY DEF Steady, CnxTypes
<1>1. /\ status[s] \in Alive /\ Gone(s) /\ (Die(s) \/ Leave(s))
      /\ status' = [status EXCEPT ![s] = "dead"]
      /\ toSv' = [toSv EXCEPT ![s] = <<>>]
      /\ list' = [list EXCEPT ![s] = Unlisted]
      /\ mySid' = [mySid EXCEPT ![s] = NoSId]
      /\ UNCHANGED <<nsVars, doubtful>>
  BY DEF Ended, Die, Leave, Gone, Alive
<1>2. /\ UNCHANGED <<upTwice, late>>
      /\ entry' = [entry EXCEPT ![s] = NoEntries]
      /\ named' = [named EXCEPT ![s] = {}]
      /\ before' = [before EXCEPT ![s] = {}]
      /\ cnxId' = [cnxId EXCEPT ![s] = Unknown]
      /\ up' = [up EXCEPT ![s] = Unlisted]
  BY DEF Ended
<1>3. open' \subseteq open /\ \A t \in Services : <<t, s>> \notin open' /\ <<s, t>> \notin open'
  BY DEF Ended
<1>4. events' = [Closing(C) EXCEPT ![s] = Quiet]
  BY DEF Ended
<1>5. X \in Events
  BY EventFacts
<1>6. Closing(C) = [t \in Services |-> [c \in Services |->
         IF <<c, t>> \in C THEN Append(events[t][c], X) ELSE events[t][c]]]
  BY DEF Closing, X
<1>7. \A c, t \in Services : <<c, t>> \in C => c = s
  OBVIOUS
<1> HIDE DEF C, X
<1>8. /\ Closing(C) \in [Services -> [Services -> Seq(Events)]]
      /\ \A t, c \in Services :
                 \/ Closing(C)[t][c] = events[t][c]
                 \/ c = s /\ Closing(C)[t][c] = Append(events[t][c], X)
  <2>1. \A c, t \in Services : /\ events[t][c] \in Seq(Events)
                               /\ Append(events[t][c], X) \in Seq(Events)
    BY <1>0, <1>5, AppendProperties
  <2> QED BY <1>6, <1>7, <2>1
<1>9. Quiet \in [Services -> Seq(Events)]
  BY DEF Quiet
<1>10. /\ events' \in [Services -> [Services -> Seq(Events)]]
       /\ events'[s] = Quiet
       /\ \A t \in Services \ {s} : events'[t] = Closing(C)[t]
  BY <1>4, <1>8, <1>9
<1> QED BY <1>1, <1>2, <1>3, <1>8, <1>10 DEF X

LEMMA EndedSteady ==
    ASSUME NamingInv, Steady, NEW s \in Services, Ended(s), Answered'
    PROVE  Steady'
<1> DEFINE X == Event("disconnection", NoSId)
<1>0. NamingTypeOK /\ CnxTypes /\ \A t \in Services : Identity(t) /\ Early(t)
  BY DEF NamingInv, Steady
<1>1. /\ status' = [status EXCEPT ![s] = "dead"]
      /\ list' = [list EXCEPT ![s] = Unlisted]
      /\ mySid' = [mySid EXCEPT ![s] = NoSId]
      /\ UNCHANGED <<upTwice, late>>
      /\ entry' = [entry EXCEPT ![s] = NoEntries]
      /\ named' = [named EXCEPT ![s] = {}]
      /\ before' = [before EXCEPT ![s] = {}]
      /\ open' \subseteq open
      /\ events' \in [Services -> [Services -> Seq(Events)]]
      /\ events'[s] = Quiet
      /\ cnxId' = [cnxId EXCEPT ![s] = Unknown]
      /\ up' = [up EXCEPT ![s] = Unlisted]
  BY EndedDoes
<1>2. \A t \in Services \ {s}, c \in Services :
                 \/ events'[t][c] = events[t][c]
                 \/ c = s /\ events'[t][c] = Append(events[t][c], X)
  BY EndedDoes
<1> HIDE DEF X
<1>3. /\ entry \in [Services -> [SIds -> CnxEntries]]
      /\ named \in [Services -> SUBSET (Names \X SIds)]
      /\ before \in [Services -> SUBSET SIds]
      /\ cnxId \in [Services -> [Services -> SIds \cup {AppIdDeadConnection}]]
      /\ up \in [Services -> [SIds -> Services \cup {NoOne}]]
  BY <1>0 DEF CnxTypes
<1>4. /\ NoEntries \in [SIds -> CnxEntries]
      /\ Unknown \in [Services -> SIds \cup {AppIdDeadConnection}]
      /\ Unlisted \in [SIds -> Services \cup {NoOne}]
  BY RecordFacts, ConstantsAssumption DEF NoEntries, Unknown, Unlisted
<1>5. /\ entry' \in [Services -> [SIds -> CnxEntries]]
      /\ named' \in [Services -> SUBSET (Names \X SIds)]
      /\ before' \in [Services -> SUBSET SIds]
      /\ cnxId' \in [Services -> [Services -> SIds \cup {AppIdDeadConnection}]]
      /\ up' \in [Services -> [SIds -> Services \cup {NoOne}]]
  BY <1>1, <1>3, <1>4
<1>6. /\ status'[s] = "dead" /\ entry'[s] = NoEntries /\ named'[s] = {} /\ cnxId'[s] = Unknown
      /\ up'[s] = Unlisted
      /\ \A t \in Services \ {s} :
            UNCHANGED <<status[t], list[t], mySid[t], entry[t], named[t], before[t], cnxId[t], up[t]>>
  BY <1>0, <1>1, <1>3 DEF NamingTypeOK
<1>7. CnxTypes'
  BY <1>0, <1>1, <1>5 DEF CnxTypes
<1>8. ASSUME NEW t \in Services, NEW c \in Services
      PROVE  \A k \in 1 .. Len(events'[t][c]) :
                events'[t][c][k].kind = "UN_SIDENT" => events'[t][c][k].sid # NoSId
  <2>1. CASE t = s
    <3>1. events'[s][c] = <<>>
      BY <1>1 DEF Quiet
    <3> QED BY <2>1, <3>1
  <2>2. CASE t # s
    <3>1. events[t][c] \in Seq(Events)
      BY <1>0 DEF CnxTypes
    <3>2. \A k \in 1 .. Len(events[t][c]) :
             events[t][c][k].kind = "UN_SIDENT" => events[t][c][k].sid # NoSId
      BY <1>0 DEF Identity
    <3>3. events'[t][c] = events[t][c] \/ events'[t][c] = Append(events[t][c], X)
      BY <2>2, <1>2
    <3> QED BY <3>1, <3>2, <3>3, EventsIdentify DEF X
  <2> QED BY <2>1, <2>2
<1>9. ASSUME NEW t \in Services PROVE Identity(t)' /\ Early(t)'
  <2>1. Identity(t) /\ Early(t)
    BY <1>0
  <2>2. CASE t = s
    BY <2>2, <1>6, <1>8 DEF Identity, Early
  <2>3. CASE t # s
    <3>1. Identity(t)'
      BY <2>1, <2>3, <1>6, <1>8 DEF Identity
    <3>2. ASSUME status[t] \in {"off", "asking", "ready"}, NEW u \in Services
          PROVE  /\ events'[u][t] = <<>> /\ cnxId'[u][t] = AppIdDeadConnection
                 /\ <<t, u>> \notin open'
      <4>1. events[u][t] = <<>> /\ cnxId[u][t] = AppIdDeadConnection /\ <<t, u>> \notin open
        BY <2>1, <3>2 DEF Early
      <4>2. CASE u = s
        BY <4>1, <4>2, <1>1, <1>6 DEF Quiet, Unknown
      <4>3. CASE u # s
        BY <4>1, <4>3, <2>3, <1>1, <1>2, <1>6
      <4> QED BY <4>2, <4>3
    <3>3. Early(t)'
      BY <2>1, <2>3, <1>6, <3>2 DEF Early
    <3> QED BY <3>1, <3>3
  <2> QED BY <2>2, <2>3
<1> QED BY <1>7, <1>9 DEF Steady

LEMMA SteadyInitially == Init => Steady
<1> SUFFICES ASSUME Init PROVE Steady
  OBVIOUS
<1>1. /\ NoEntries \in [SIds -> CnxEntries]
      /\ Unknown \in [Services -> SIds \cup {AppIdDeadConnection}]
      /\ Unlisted \in [SIds -> Services \cup {NoOne}]
  BY RecordFacts, ConstantsAssumption DEF NoEntries, Unknown, Unlisted
<1>2. Quiet \in [Services -> Seq(Events)]
  BY DEF Quiet
<1>3. /\ entry = [s \in Services |-> NoEntries]
      /\ named = [s \in Services |-> {}]
      /\ before = [s \in Services |-> {}]
      /\ open = {}
      /\ events = [s \in Services |-> Quiet]
      /\ cnxId = [s \in Services |-> Unknown]
      /\ up = [s \in Services |-> Unlisted]
      /\ upTwice = FALSE /\ late = FALSE
      /\ \A s \in Services : status[s] = "off" /\ toSv[s] = <<>>
  BY DEF Init, NamingInit
<1>4. CnxTypes
  BY <1>1, <1>3, <1>2 DEF CnxTypes
<1>5. Answered
  BY <1>3 DEF Answered
<1>6. ASSUME NEW s \in Services PROVE Identity(s) /\ Early(s)
  BY <1>3 DEF Identity, Early, Quiet, Unknown
<1> QED BY <1>4, <1>5, <1>6 DEF Steady

LEMMA SteadyInductive == NamingInv /\ Steady /\ [Next]_vars => Steady'
<1> SUFFICES ASSUME NamingInv, Steady, [Next]_vars PROVE Steady'
  OBVIOUS
<1>1. [NamingNext]_namingVars /\ Answered
  BY StepIsNaming DEF Steady
<1>2. Answered'
  BY <1>1, AnsweredStep
<1>3. CASE NsStep /\ UNCHANGED unifiedVars
  BY <1>2, <1>3, ElseSteady
<1>4. ASSUME NEW s \in Services, (Start(s) \/ Reconnect(s)) /\ UNCHANGED unifiedVars
      PROVE  Steady'
  BY <1>2, <1>4, ElseSteady
<1>5. ASSUME NEW s \in Services,
             \/ Registered(s) \/ Connect(s) \/ Announced(s) \/ Unannounced(s) \/ Ended(s)
      PROVE  Steady'
  BY <1>2, <1>5, RegisteredSteady, ConnectSteady, AnnouncedSteady, UnannouncedSteady,
     EndedSteady
<1>6. ASSUME NEW s \in Services, Handle(s)
      PROVE  Steady'
  BY <1>2, <1>6, IdentifiedSteady, DisconnectedSteady DEF Handle
<1>7. CASE UNCHANGED vars
  <2>1. UNCHANGED <<entry, named, before, open, events, cnxId, up, upTwice, late, status,
                    mySid, list>>
    BY <1>7 DEF vars, namingVars, clientVars, unifiedVars, cnxVars, upVars
  <2> QED BY <1>2, <2>1 DEF Steady, CnxTypes, Identity, Early
<1> QED BY <1>3, <1>4, <1>5, <1>6, <1>7 DEF Next

----------------------------------------------------------------------------
(* What holds as long as nobody is in a hurry or late *)

Ready(s) ==
    status[s] = "ready" =>
       \A i \in SIds :
          /\ entry[s][i].of = IF i = mySid[s] THEN NoOne ELSE list[s][i]
          /\ i \in before[s] => i # mySid[s]

(* a connection has the id the naming service has given to its other side *)
Idents(s) ==
    \A c \in Services :
       /\ \A k \in 1 .. Len(events[s][c]) :
             events[s][c][k].kind = "UN_SIDENT" => events[s][c][k].sid = appId[c]
       /\ cnxId[s][c] \in {AppIdDeadConnection, appId[c]}

Conn(s) ==
    \A i \in SIds :
       /\ entry[s][i].of = NoOne => entry[s][i].connections = <<>>
       /\ \A c \in Services :
             /\ entry[s][i].connections = <<c>> => entry[s][i].of = c
             /\ <<c, s>> \in open /\ cnxId[s][c] = i => entry[s][i].connections = <<c>>
       /\ up[s][i] # NoOne => up[s][i] = entry[s][i].of /\ entry[s][i].connections # <<>>

(* who has an entry is in the list or will be *)
Of(s) ==
    status[s] = "running" =>
       \A i \in SIds :
          entry[s][i].of # NoOne => Takes(list[s], toSv[s], i, entry[s][i].of)

NamedUp(s) ==
    \A n : n \in named[s] <=>
              \E i \in SIds : up[s][i] # NoOne /\ n = <<Name[up[s][i]], i>>

LayerOf(s) == Ready(s) /\ Idents(s) /\ Conn(s) /\ Of(s) /\ NamedUp(s)

Layer == ~upTwice /\ \A s \in Services : LayerOf(s)

(* before and after a step *)
Orderliness ==
    /\ NamingInv /\ Knowledge /\ ~doubtful /\ ~doubtful' /\ NamingTypeOK'
    /\ Steady /\ Layer /\ ~late'

LEMMA NoSuchId == NoSId \notin SIds /\ NoOne \notin Services
BY ConstantsAssumption DEF NoSId, SIds

LEMMA OneIsTaken ==
    ASSUME NEW s \in Services, Shape(s), NEW i \in SIds,
           NEW c \in Services, NEW d \in Services,
           Takes(list[s], toSv[s], i, c), Takes(list[s], toSv[s], i, d)
    PROVE  c = d
<1>1. ShapeOf(list[s], toSv[s], i)
  BY DEF Shape
<1> DEFINE l == list[s]
           q == toSv[s]
<1> HIDE DEF l, q
<1>2. ASSUME NEW k \in 1 .. Len(q), Announces(q[k], i, c)
      PROVE  c = d
  <2>1. /\ l[i] = NoOne
        /\ \A e \in Services : \A n \in 1 .. Len(q) : Announces(q[n], i, e) => n = k /\ e = c
    BY <1>1, <1>2 DEF ShapeOf, l, q
  <2>2. \E n \in 1 .. Len(q) : Announces(q[n], i, d)
    BY <2>1, NoSuchId DEF Takes, l, q
  <2> QED BY <2>1, <2>2
<1>3. ASSUME NEW k \in 1 .. Len(q), Announces(q[k], i, d), l[i] = c
      PROVE  FALSE
  <2>1. l[i] = NoOne
    BY <1>1, <1>3 DEF ShapeOf, l, q
  <2> QED BY <2>1, <1>3, NoSuchId
<1> QED BY <1>2, <1>3 DEF Takes, l, q

LEMMA IdentsKept ==
    ASSUME NEW t \in Services, CnxTypes, Identity(t), Idents(t),
           \A c \in Services : appId'[c] = appId[c] \/ appId[c] = NoSId,
           \A c \in Services :
              \/ events'[t][c] = events[t][c]
              \/ events[t][c] # <<>> /\ events'[t][c] = Tail(events[t][c])
              \/ \E X \in Events : /\ X.kind = "UN_SIDENT" => X.sid = appId'[c]
                                   /\ events'[t][c] = Append(events[t][c], X),
           \A c \in Services : cnxId'[t][c] \in {cnxId[t][c], AppIdDeadConnection, appId'[c]}
    PROVE  Idents(t)'
<1> SUFFICES ASSUME NEW c \in Services
             PROVE  /\ \A k \in 1 .. Len(events'[t][c]) :
                          events'[t][c][k].kind = "UN_SIDENT"
                             => events'[t][c][k].sid = appId'[c]
                    /\ cnxId'[t][c] \in {AppIdDeadConnection, appId'[c]}
  BY DEF Idents
<1> DEFINE q == events[t][c]
           r == events'[t][c]
           Good(k) == q[k].kind = "UN_SIDENT" => q[k].sid = appId'[c]
<1>1. q \in Seq(Events)
  BY DEF CnxTypes
<1>2. \A k \in 1 .. Len(q) : Good(k)
  <2> TAKE k \in 1 .. Len(q)
  <2>1. q[k].kind = "UN_SIDENT" => q[k].sid = appId[c] /\ q[k].sid # NoSId
    BY DEF Idents, Identity
  <2> QED BY <2>1
<1>3. cnxId'[t][c] \in {AppIdDeadConnection, appId'[c]}
  <2>1. cnxId[t][c] \in {AppIdDeadConnection, appId[c]}
    BY DEF Idents
  <2> QED BY <2>1 DEF AppIdDeadConnection
<1>4. \/ r = q
      \/ q # <<>> /\ r = Tail(q)
      \/ \E X \in Events : /\ X.kind = "UN_SIDENT" => X.sid = appId'[c]
                           /\ r = Append(q, X)
  OBVIOUS
<1> HIDE DEF q, r
<1>5. CASE q # <<>> /\ r = Tail(q)
  <2>1. \A k \in 1 .. Len(r) : k + 1 \in 1 .. Len(q) /\ r[k] = q[k + 1]
    BY <1>1, <1>5, TailIsThere
  <2>2. ASSUME NEW k \in 1 .. Len(r) PROVE r[k].kind = "UN_SIDENT" => r[k].sid = appId'[c]
    <3>1. k + 1 \in 1 .. Len(q) /\ r[k] = q[k + 1] /\ Good(k + 1)
      BY <2>1, <1>2
    <3> QED BY <3>1
  <2> QED BY <2>2, <1>3 DEF r
<1>6. ASSUME NEW X \in Events, X.kind = "UN_SIDENT" => X.sid = appId'[c], r = Append(q, X)
      PROVE  \A k \in 1 .. Len(r) : r[k].kind = "UN_SIDENT" => r[k].sid = appId'[c]
  BY <1>1, <1>2, <1>6, AppendIsThere
<1>7. \A k \in 1 .. Len(r) : r[k].kind = "UN_SIDENT" => r[k].sid = appId'[c]
  BY <1>2, <1>4, <1>5, <1>6 DEF q, r
<1> QED BY <1>3, <1>7 DEF r

(* a service that has nothing to do with the step *)
LEMMA OtherLayer ==
    ASSUME NEW t \in Services, LayerOf(t), Idents(t)',
           UNCHANGED <<mySid[t], list[t], entry[t], named[t], before[t], up[t]>>,
           status'[t] = status[t] \/ (status[t] = "off" /\ status'[t] = "asking"),
           \A c \in Services : \A i \in SIds :
              <<c, t>> \in open' /\ cnxId'[t][c] = i => <<c, t>> \in open /\ cnxId[t][c] = i,
           \A c \in Services : \A i \in SIds :
              Takes(list[t], toSv[t], i, c) => Takes(list[t], toSv'[t], i, c),
           CnxTypes
    PROVE  LayerOf(t)'
<1> Ready(t) /\ Conn(t) /\ Of(t) /\ NamedUp(t)
  BY DEF LayerOf
<1>1. Ready(t)'
  BY DEF Ready
<1>2. Conn(t)'
  BY DEF Conn
<1>3. Of(t)'
  <2> SUFFICES ASSUME status'[t] = "running", NEW i \in SIds, entry'[t][i].of # NoOne
               PROVE  Takes(list'[t], toSv'[t], i, entry'[t][i].of)
    BY DEF Of
  <2>1. Takes(list[t], toSv[t], i, entry[t][i].of)
    BY DEF Of
  <2>2. entry[t][i].of \in Services
    <3>1. entry[t][i] \in CnxEntries
      BY DEF CnxTypes
    <3> QED BY <3>1 DEF CnxEntries
  <2> QED BY <2>1, <2>2
<1>4. NamedUp(t)'
  BY DEF NamedUp
<1> QED BY <1>1, <1>2, <1>3, <1>4 DEF LayerOf

LEMMA OrderlyFacts ==
    ASSUME Orderliness, NEW t \in Services
    PROVE  /\ NamingInv /\ NamingTypeOK /\ Knowledge /\ ~doubtful /\ Steady /\ CnxTypes
           /\ Identity(t) /\ Early(t) /\ LayerOf(t) /\ ~upTwice /\ ~late'
           /\ Ready(t) /\ Idents(t) /\ Conn(t) /\ Of(t) /\ NamedUp(t)
           /\ Lives(t) /\ Asks(t) /\ HasSid(t) /\ Shape(t)
BY DEF Orderliness, Steady, Layer, LayerOf, Knowledge, KnownOf, NamingInv

(* the naming service gives an id to a connection that has none *)
LEMMA AppIdStays ==
    ASSUME Orderliness, NsStep
    PROVE  \A c \in Services : appId'[c] = appId[c] \/ appId[c] = NoSId
<1>0. NamingTypeOK /\ ~doubtful' /\ ~doubtful
  BY DEF Orderliness, NamingInv
<1>1. ASSUME NEW s \in Services, NsRegister(s)
      PROVE  \A c \in Services : appId'[c] = appId[c] \/ appId[c] = NoSId
  <2> DEFINE m == Head(toNs[s])
  <2>1. m = toNs[s][1] /\ 1 \in 1 .. Len(toNs[s]) /\ m.kind \in {"RG", "RRG"}
    BY <1>0, <1>1, TailIsThere DEF NsRegister, NamingTypeOK
  <2> HIDE DEF m
  <2>2. appId[s] = NoSId
    BY <2>1, OrderlyFacts DEF Asks
  <2>3. \/ appId' = appId
        \/ appId' = [appId EXCEPT ![s] = Wanted(Head(toNs[s]).sid)]
    BY <1>1 DEF NsRegister, Register, nsVars
  <2> QED BY <2>2, <2>3, <1>0 DEF NamingTypeOK
<1>2. ASSUME ~ \E s \in Services : NsRegister(s)
      PROVE  appId' = appId
  BY <1>0, <1>2 DEF NsStep, NsDisconnect, NsAck, Kill, NsCheck, NsTimeout, NsRestart
<1> QED BY <1>1, <1>2

LEMMA ElseLayer ==
    ASSUME Orderliness, UNCHANGED unifiedVars,
           NsStep \/ \E s \in Services : Start(s) \/ Reconnect(s)
    PROVE  Layer'
<1>1. UNCHANGED <<entry, named, before, open, events, cnxId, up, upTwice>>
  BY DEF unifiedVars, cnxVars, upVars
<1>2. NamingInv /\ NamingTypeOK
  BY DEF Orderliness, NamingInv
<1>3. UNCHANGED <<mySid, list>>
  BY <1>2, NsTells DEF Start, Reconnect, clientVars
<1>4. \A c \in Services : appId'[c] = appId[c] \/ appId[c] = NoSId
  BY AppIdStays DEF Start, Reconnect, nsVars
<1>5. \A t \in Services : /\ \/ status'[t] = status[t]
                             \/ status[t] = "off" /\ status'[t] = "asking"
                          /\ \/ toSv'[t] = toSv[t]
                             \/ \E m \in ToSv : toSv'[t] = Append(toSv[t], m)
  <2>1. CASE NsStep
    BY <1>2, <2>1, NsTells
  <2>2. ASSUME NEW s \in Services, Start(s) \/ Reconnect(s)
        PROVE  \A t \in Services : \/ status'[t] = status[t]
                                   \/ status[t] = "off" /\ status'[t] = "asking"
    BY <2>2, <1>2 DEF Start, Reconnect, clientVars, NamingTypeOK
  <2>3. ASSUME NEW s \in Services, Start(s) \/ Reconnect(s)
        PROVE  toSv' = toSv
    BY <2>3 DEF Start, Reconnect
  <2> QED BY <2>1, <2>2, <2>3
<1>6. ASSUME NEW t \in Services PROVE LayerOf(t)'
  <2>1. /\ CnxTypes /\ Identity(t) /\ LayerOf(t) /\ Idents(t)
    BY OrderlyFacts
  <2>2. Idents(t)'
    BY <2>1, <1>1, <1>4, IdentsKept
  <2>3. toSv[t] \in Seq(ToSv)
    BY <1>2 DEF NamingTypeOK
  <2>4. ASSUME NEW c \in Services, NEW i \in SIds, Takes(list[t], toSv[t], i, c)
        PROVE  Takes(list[t], toSv'[t], i, c)
    BY <2>3, <2>4, <1>5, AppendTakes
  <2>5. status'[t] = status[t] \/ (status[t] = "off" /\ status'[t] = "asking")
    BY <1>5
  <2> QED BY <2>1, <2>2, <2>4, <2>5, <1>1, <1>3, OtherLayer
<1> QED BY <1>1, <1>6, OrderlyFacts DEF Layer, Orderliness

LEMMA RegisteredLayer ==
    ASSUME Orderliness, NEW s \in Services, Registered(s), Steady'
    PROVE  Layer'
<1> DEFINE m == Head(toSv[s])
           same(i) == {e \in m.services : e.sid = i}
<1>0. /\ NamingTypeOK /\ CnxTypes /\ Early(s) /\ HasSid(s) /\ ~upTwice
      /\ \A t \in Services : Identity(t) /\ LayerOf(t) /\ Idents(t)
  BY OrderlyFacts
<1>1. /\ status[s] = "asking" /\ MessageIs(s, "RG") /\ ReadBy(s)
      /\ UNCHANGED <<nsVars, named, open, events, cnxId, up, upTwice, late>>
      /\ entry' = [entry EXCEPT ![s] =
                [i \in SIds |-> IF same(i) # {} /\ i # m.sid
                                THEN [NotUsed EXCEPT !.of = First(same(i)).inst]
                                ELSE entry[s][i]]]
      /\ before' = [before EXCEPT ![s] =
                IF m.ok
                THEN {e.sid : e \in {d \in m.services :
                                        d.rank < First(same(m.sid)).rank}}
                ELSE {}]
  BY <1>0 DEF Registered, ReadAnswer, upVars, CnxTypes
<1>2. m \in ToSv /\ m.sid \in SIds \cup {NoSId} /\ m.services \in SUBSET Listed
      /\ IsFiniteSet(m.services)
  BY <1>0, <1>1, AnswerIs
<1>3. \/ /\ m.ok /\ status' = [status EXCEPT ![s] = "ready"]
         /\ mySid' = [mySid EXCEPT ![s] = m.sid]
         /\ list' = [list EXCEPT ![s] = ListOf(m.services)]
      \/ /\ ~m.ok /\ status' = [status EXCEPT ![s] = "leaving"]
         /\ UNCHANGED <<mySid, list>>
  BY DEF Registered, ReadAnswer
<1>4. \A n, o \in m.services : n.sid = o.sid => n = o
  <2>1. m = toSv[s][1] /\ 1 \in 1 .. Len(toSv[s]) /\ m.kind = "RG"
    BY <1>0, <1>1, TailIsThere DEF MessageIs, NamingTypeOK
  <2> HIDE DEF m
  <2> QED BY <2>1, <1>0 DEF HasSid
<1>5. ASSUME NEW i \in SIds
      PROVE  /\ entry'[s][i] = IF same(i) # {} /\ i # m.sid
                               THEN [NotUsed EXCEPT !.of = First(same(i)).inst]
                               ELSE NotUsed
             /\ entry[s][i] = NotUsed
  <2>1. entry[s] = NoEntries
    BY <1>0, <1>1 DEF Early
  <2>2. entry[s][i] = NotUsed
    BY <2>1 DEF NoEntries
  <2> QED BY <2>2, <1>0, <1>1 DEF CnxTypes
<1>6. ASSUME NEW i \in SIds
      PROVE  /\ entry'[s][i].connections = <<>>
             /\ i = m.sid => entry'[s][i].of = NoOne
             /\ i # m.sid => entry'[s][i].of = ListOf(m.services)[i]
  <2>1. NotUsed.of = NoOne /\ NotUsed.connections = <<>>
    BY DEF NotUsed
  <2>2. CASE same(i) = {}
    <3>1. ListOf(m.services)[i] = NoOne
      BY <2>2, <1>2, <1>4, ListOfNames
    <3> QED BY <3>1, <2>1, <2>2, <1>5
  <2>3. CASE same(i) # {}
    <3> DEFINE n == First(same(i))
    <3>1. same(i) \in SUBSET Listed
      BY <1>2
    <3>2. n \in same(i)
      BY <3>1, <2>3, FirstListed
    <3>3. n \in m.services /\ n.sid = i /\ n.inst \in Services
      BY <3>1, <3>2 DEF Listed
    <3> HIDE DEF n
    <3>4. ListOf(m.services)[i] = n.inst
      BY <3>3, <1>2, <1>4, ListOfNames
    <3>5. /\ [NotUsed EXCEPT !.of = n.inst].of = n.inst
          /\ [NotUsed EXCEPT !.of = n.inst].connections = <<>>
      BY DEF NotUsed
    <3> QED BY <3>4, <3>5, <2>1, <2>3, <1>5 DEF n
  <2> QED BY <2>2, <2>3
<1>7. \A i \in before'[s] : i # m.sid
  <2> SUFFICES ASSUME NEW e \in m.services, e.sid = m.sid,
                      e.rank < First(same(m.sid)).rank
               PROVE  FALSE
    BY <1>0, <1>1 DEF CnxTypes
  <2>1. same(m.sid) = {e} /\ e \in Listed
    BY <1>2, <1>4
  <2>2. First(same(m.sid)) = e
    BY <2>1, FirstListed
  <2> QED BY <2>1, <2>2 DEF Listed
<1> HIDE DEF m
<1>8. /\ \A t \in Services \ {s} :
            UNCHANGED <<status[t], mySid[t], list[t], entry[t], before[t], toSv[t]>>
      /\ status'[s] \in {"ready", "leaving"}
      /\ status'[s] = "ready" => mySid'[s] = m.sid /\ list'[s] = ListOf(m.services)
  BY <1>0, <1>1, <1>3 DEF CnxTypes, NamingTypeOK, ReadBy
<1>9. ASSUME NEW t \in Services PROVE Idents(t)'
  BY <1>0, <1>1, IdentsKept DEF nsVars
<1>10. ASSUME NEW t \in Services \ {s} PROVE LayerOf(t)'
  BY <1>0, <1>1, <1>8, <1>9, OtherLayer
<1>11. Ready(s)'
  BY <1>6, <1>7, <1>8, SMT DEF Ready
<1>12. cnxId[s] = Unknown /\ up[s] = Unlisted /\ named[s] = {}
  BY <1>0, <1>1 DEF Early
<1>13. \A i \in SIds : /\ up'[s][i] = NoOne
                       /\ \A c \in Services : cnxId'[s][c] # i
  BY <1>1, <1>12, NoSuchId DEF Unknown, Unlisted, AppIdDeadConnection
<1>14. Conn(s)'
  BY <1>6, <1>13 DEF Conn
<1>15. Of(s)'
  BY <1>8 DEF Of
<1>16. NamedUp(s)'
  BY <1>1, <1>12, <1>13 DEF NamedUp
<1>17. LayerOf(s)'
  BY <1>9, <1>11, <1>14, <1>15, <1>16 DEF LayerOf
<1> QED BY <1>0, <1>1, <1>10, <1>17 DEF Layer

LEMMA ConnectLayer ==
    ASSUME Orderliness, NEW s \in Services, Connect(s)
    PROVE  Layer'
<1> DEFINE X == Event("UN_SIDENT", mySid[s])
           T == list[s]
           I == There(s)
<1>0. /\ NamingInv /\ NamingTypeOK /\ CnxTypes /\ Steady /\ Early(s) /\ Ready(s) /\ Lives(s) /\ ~upTwice
      /\ \A t \in Services : Identity(t) /\ LayerOf(t) /\ Idents(t)
  BY OrderlyFacts
<1>1. /\ status[s] = "ready" /\ status'[s] = "running" /\ mySid[s] \in SIds
      /\ \A t \in Services \ {s} : status'[t] = status[t]
      /\ UNCHANGED <<nsVars, toNs, toSv, link, mySid, list, doubtful, cnxId, late>>
      /\ \A t \in Services \ {s} : entry'[t] = entry[t] /\ before'[t] = before[t]
  BY <1>0, ConnectDoes
<1>2. \A i \in before[s] : i \in SIds /\ list[s][i] \in Services
  BY <1>0, ConnectDoes
<1>3. \A i \in SIds :
         /\ entry'[s][i].of = entry[s][i].of
         /\ entry'[s][i].connections = IF i \notin before[s] THEN <<>>
                       ELSE IF i \in There(s) THEN <<list[s][i]>> ELSE <<NoOne>>
  BY <1>0, ConnectDoes
<1>4. \A c, t \in Services :
         <<c, t>> \in open' <=> \/ <<c, t>> \in open
                                \/ c = s /\ \E i \in There(s) : t = list[s][i]
  BY <1>0, ConnectDoes
<1>5. \A c, t \in Services :
         events'[t][c] = IF c = s /\ \E i \in There(s) : t = list[s][i]
                         THEN Append(events[t][c], X) ELSE events[t][c]
  BY <1>0, ConnectDoes
<1>6. I \in SUBSET SIds /\ (\A i \in I : i \in before[s] /\ T[i] \in Services)
  BY <1>2 DEF There
<1>7. TellUp(s, I, T)
  BY <1>0, ConnectDoes
<1>8. X \in Events /\ X.sid = appId'[s]
  <2>1. X \in Events /\ X.sid = mySid[s]
    BY <1>1, EventFacts
  <2>2. mySid[s] = appId[s]
    BY <1>0, <1>1 DEF Lives
  <2> QED BY <2>1, <2>2, <1>1 DEF nsVars
<1> HIDE DEF X, I, T
<1>9. /\ \A t \in Services \ {s} : named'[t] = named[t] /\ up'[t] = up[t]
  BY <1>0, <1>6, <1>7, TellUpTypes
<1>10. /\ \A n : n \in named'[s] <=> \/ n \in named[s]
                                     \/ \E j \in I : n = <<Name[T[j]], j>>
       /\ \A j \in I : up'[s][j] = T[j]
       /\ \A j \in SIds \ I : up'[s][j] = up[s][j]
       /\ upTwice' => upTwice \/ \E j \in I : up[s][j] # NoOne
  BY <1>0, <1>6, <1>7, TellUpFacts
<1>11. cnxId[s] = Unknown /\ up[s] = Unlisted /\ named[s] = {}
       /\ \A t \in Services : cnxId[t][s] = AppIdDeadConnection
  BY <1>0, <1>1 DEF Early
<1>12. ASSUME NEW t \in Services PROVE Idents(t)'
  <2>1. \A c \in Services :
           \/ events'[t][c] = events[t][c]
           \/ \E Y \in Events : /\ Y.kind = "UN_SIDENT" => Y.sid = appId'[c]
                                /\ events'[t][c] = Append(events[t][c], Y)
    <3> TAKE c \in Services
    <3>1. CASE c = s /\ \E i \in There(s) : t = list[s][i]
      <4>1. events'[t][c] = Append(events[t][c], X)
        BY <1>5, <3>1
      <4> QED BY <4>1, <3>1, <1>8
    <3>2. CASE ~(c = s /\ \E i \in There(s) : t = list[s][i])
      BY <1>5, <3>2
    <3> QED BY <3>1, <3>2
  <2> QED BY <1>0, <1>1, <2>1, IdentsKept DEF nsVars
<1>13. ASSUME NEW t \in Services \ {s} PROVE LayerOf(t)'
  <2>1. ASSUME NEW c \in Services, NEW i \in SIds, <<c, t>> \in open', cnxId'[t][c] = i
        PROVE  <<c, t>> \in open /\ cnxId[t][c] = i
    BY <2>1, <1>1, <1>4, <1>11, NoSuchId DEF AppIdDeadConnection
  <2>2. UNCHANGED <<mySid[t], list[t], entry[t], named[t], before[t], up[t], toSv[t], status[t]>>
    BY <1>1, <1>9
  <2> QED BY <1>0, <2>1, <2>2, <1>12, OtherLayer
<1>14. \A i \in SIds : /\ up'[s][i] = IF i \in I THEN T[i] ELSE NoOne
                       /\ \A c \in Services : cnxId'[s][c] # i
  BY <1>1, <1>10, <1>11, NoSuchId DEF Unknown, Unlisted, AppIdDeadConnection
<1>15. \A i \in SIds : /\ i \in before[s] => entry'[s][i].of = list[s][i]
                       /\ entry'[s][i].of \in {NoOne, list[s][i]}
  BY <1>0, <1>1, <1>3 DEF Ready
<1>16. Conn(s)'
  <2> SUFFICES ASSUME NEW i \in SIds
               PROVE  /\ entry'[s][i].of = NoOne => entry'[s][i].connections = <<>>
                      /\ \A c \in Services :
                            /\ entry'[s][i].connections = <<c>> => entry'[s][i].of = c
                            /\ <<c, s>> \in open' /\ cnxId'[s][c] = i
                                  => entry'[s][i].connections = <<c>>
                      /\ up'[s][i] # NoOne => /\ up'[s][i] = entry'[s][i].of
                                              /\ entry'[s][i].connections # <<>>
    BY DEF Conn
  <2>1. CASE i \notin before[s]
    <3>1. entry'[s][i].connections = <<>> /\ i \notin I
      BY <2>1, <1>3, <1>6
    <3> QED BY <3>1, <1>14
  <2>2. CASE i \in before[s]
    <3>1. entry'[s][i].of = list[s][i] /\ list[s][i] \in Services
      BY <2>2, <1>2, <1>15
    <3>2. entry'[s][i].connections = IF i \in I THEN <<list[s][i]>> ELSE <<NoOne>>
      BY <2>2, <1>3 DEF I
    <3> QED BY <3>1, <3>2, <1>14, NoSuchId DEF T
  <2> QED BY <2>1, <2>2
<1>17. Of(s)'
  BY <1>1, <1>15 DEF Of, Takes
<1>18. NamedUp(s)'
  <2>1. \A n : n \in named'[s] <=> \E i \in I : n = <<Name[T[i]], i>>
    BY <1>10, <1>11
  <2>2. \A i \in SIds : i \in I <=> up'[s][i] # NoOne
    BY <1>6, <1>14, NoSuchId
  <2>3. \A i \in I : i \in SIds /\ up'[s][i] = T[i]
    BY <1>6, <1>14
  <2> QED BY <2>1, <2>2, <2>3 DEF NamedUp
<1>19. Ready(s)'
  BY <1>1 DEF Ready
<1>20. ~upTwice'
  BY <1>0, <1>6, <1>10, <1>11 DEF Unlisted
<1>21. LayerOf(s)'
  BY <1>12, <1>16, <1>17, <1>18, <1>19 DEF LayerOf
<1> QED BY <1>13, <1>20, <1>21 DEF Layer

LEMMA AnnouncedLayer ==
    ASSUME Orderliness, NEW s \in Services, Announced(s)
    PROVE  Layer'
<1> DEFINE m == Head(toSv[s])
           l == list[s]
           q == toSv[s]
           l2 == list'[s]
<1>0. /\ NamingInv /\ NamingTypeOK /\ CnxTypes /\ Steady /\ Conn(s) /\ Of(s) /\ NamedUp(s)
      /\ Shape(s) /\ ~upTwice
      /\ \A t \in Services : Identity(t) /\ LayerOf(t) /\ Idents(t)
  BY OrderlyFacts
<1>1. /\ status[s] = "running" /\ MessageIs(s, "RGB") /\ ReadBy(s)
      /\ m \in ToSv /\ m.sid \in SIds /\ m.inst \in Services
      /\ UNCHANGED <<nsVars, toNs, link, status, mySid, doubtful, named, before, open,
                             events, cnxId, up, upTwice, late>>
      /\ list' = [list EXCEPT ![s][m.sid] = m.inst]
      /\ \A t \in Services \ {s} : entry'[t] = entry[t]
  BY <1>0, AnnouncedDoes
<1>2. \A i \in SIds :
         entry'[s][i] = IF i = m.sid /\ list[s][i] = NoOne /\ i # mySid[s]
                                      /\ entry[s][i] = NotUsed
                        THEN [of |-> m.inst, connections |-> <<>>]
                        ELSE entry[s][i]
  BY <1>0, AnnouncedDoes
<1>3. /\ \A t \in Services \ {s} : list'[t] = list[t] /\ toSv'[t] = toSv[t]
      /\ l2 = [l EXCEPT ![m.sid] = m.inst] /\ toSv'[s] = Tail(q)
      /\ q \in Seq(ToSv) /\ q # <<>> /\ l \in [SIds -> Services \cup {NoOne}]
  BY <1>0, <1>1 DEF NamingTypeOK, ReadBy, MessageIs
<1>4. m.kind = "RGB" /\ m = q[1] /\ 1 \in 1 .. Len(q)
  BY <1>1, <1>3, TailIsThere DEF MessageIs
<1>5. \A i \in SIds : \A c \in Services :
         Announces(m, i, c) <=> i = m.sid /\ c = m.inst
  BY <1>4 DEF Announces
<1>6. l[m.sid] = NoOne
  <2>1. ShapeOf(l, q, m.sid)
    BY <1>0, <1>1 DEF Shape
  <2>2. Announces(q[1], m.sid, m.inst)
    BY <1>1, <1>4, <1>5
  <2> HIDE DEF m, l, q
  <2> QED BY <2>1, <2>2, <1>1, <1>4 DEF ShapeOf
<1>7. \A i \in SIds : \A c \in Services :
         Takes(l, q, i, c) => Takes(l2, Tail(q), i, c)
  <2> TAKE i \in SIds
  <2> TAKE c \in Services
  <2>1. ASSUME Takes(l, q, i, c) PROVE Takes(l, Tail(q), i, c) \/ (i = m.sid /\ c = m.inst)
    BY <2>1, <1>3, <1>5, TailTakes
  <2>2. l[i] = c => l2[i] = c
    BY <1>1, <1>3, <1>6, NoSuchId
  <2>3. Takes(l, Tail(q), i, c) => Takes(l2, Tail(q), i, c)
    BY <2>2 DEF Takes
  <2>4. l2[m.sid] = m.inst
    BY <1>1, <1>3
  <2>5. i = m.sid /\ c = m.inst => Takes(l2, Tail(q), i, c)
    BY <2>4 DEF Takes
  <2> QED BY <2>1, <2>3, <2>5
<1>8. Takes(l2, Tail(q), m.sid, m.inst)
  BY <1>1, <1>3 DEF Takes
<1> HIDE DEF m, l, q, l2
<1>9. ASSUME NEW t \in Services PROVE Idents(t)'
  BY <1>0, <1>1, IdentsKept DEF nsVars
<1>10. ASSUME NEW t \in Services \ {s} PROVE LayerOf(t)'
  BY <1>0, <1>1, <1>3, <1>9, OtherLayer
<1>11. /\ [of |-> m.inst, connections |-> <<>>].of = m.inst
       /\ [of |-> m.inst, connections |-> <<>>].connections = <<>>
       /\ NotUsed.of = NoOne /\ NotUsed.connections = <<>>
  BY DEF NotUsed
<1>12. \A i \in SIds :
          \/ entry'[s][i] = entry[s][i]
          \/ /\ i = m.sid /\ entry[s][i] = NotUsed
             /\ entry'[s][i].of = m.inst /\ entry'[s][i].connections = <<>>
  BY <1>2, <1>11
<1>13. Conn(s)'
  <2> SUFFICES ASSUME NEW i \in SIds
               PROVE  /\ entry'[s][i].of = NoOne => entry'[s][i].connections = <<>>
                      /\ \A c \in Services :
                            /\ entry'[s][i].connections = <<c>> => entry'[s][i].of = c
                            /\ <<c, s>> \in open' /\ cnxId'[s][c] = i
                                  => entry'[s][i].connections = <<c>>
                      /\ up'[s][i] # NoOne => /\ up'[s][i] = entry'[s][i].of
                                              /\ entry'[s][i].connections # <<>>
    BY DEF Conn
  <2>1. CASE entry'[s][i] = entry[s][i]
    BY <2>1, <1>0, <1>1 DEF Conn
  <2>2. CASE entry[s][i] = NotUsed /\ entry'[s][i].of = m.inst
             /\ entry'[s][i].connections = <<>>
    <3>1. up[s][i] = NoOne /\ \A c \in Services : ~(<<c, s>> \in open /\ cnxId[s][c] = i)
      BY <2>2, <1>0, <1>11 DEF Conn
    <3> QED BY <3>1, <2>2, <1>1
  <2> QED BY <2>1, <2>2, <1>12
<1>14. Of(s)'
  <2> SUFFICES ASSUME NEW i \in SIds, entry'[s][i].of # NoOne
               PROVE  Takes(list'[s], toSv'[s], i, entry'[s][i].of)
    BY DEF Of
  <2>1. CASE entry'[s][i] = entry[s][i]
    <3>1. Takes(l, q, i, entry[s][i].of)
      BY <2>1, <1>0, <1>1 DEF Of, l, q
    <3>2. entry[s][i].of \in Services
      <4>1. entry[s][i] \in CnxEntries
        BY <1>0 DEF CnxTypes
      <4> QED BY <4>1, <2>1 DEF CnxEntries
    <3> QED BY <3>1, <3>2, <2>1, <1>3, <1>7 DEF l2
  <2>2. CASE i = m.sid /\ entry'[s][i].of = m.inst
    BY <2>2, <1>3, <1>8 DEF l2
  <2> QED BY <2>1, <2>2, <1>12
<1>15. Ready(s)'
  BY <1>1 DEF Ready
<1>16. NamedUp(s)'
  BY <1>0, <1>1 DEF NamedUp
<1>17. LayerOf(s)'
  BY <1>9, <1>13, <1>14, <1>15, <1>16 DEF LayerOf
<1> QED BY <1>0, <1>1, <1>10, <1>17 DEF Layer

LEMMA UnannouncedLayer ==
    ASSUME Orderliness, NEW s \in Services, Unannounced(s)
    PROVE  Layer'
<1> DEFINE i == Head(toSv[s]).sid
           e == entry[s][i]
           l == list[s]
           q == toSv[s]
           X == Event("disconnection", NoSId)
<1>0. /\ NamingInv /\ NamingTypeOK /\ CnxTypes /\ Steady /\ Conn(s) /\ Of(s) /\ NamedUp(s)
      /\ ~upTwice /\ \A t \in Services : Identity(t) /\ LayerOf(t) /\ Idents(t)
  BY OrderlyFacts
<1>1. /\ status[s] = "running" /\ MessageIs(s, "UNB") /\ ReadBy(s)
      /\ i \in SIds /\ Head(q) \in ToSv
      /\ UNCHANGED <<nsVars, mySid, before, upTwice, late>>
      /\ list' = [list EXCEPT ![s][i] = NoOne]
      /\ \A t \in Services \ {s} : status'[t] = status[t]
      /\ status'[s] = IF mySid[s] = i THEN "leaving" ELSE "running"
  BY <1>0, UnannouncedDoes
<1>2. \/ /\ i = mySid[s] \/ e = NotUsed
         /\ UNCHANGED <<named, open, events, cnxId, entry, up>>
      \/ /\ i # mySid[s] /\ e # NotUsed
         /\ ResetEntry(s, i)
         /\ up' = [up EXCEPT ![s][i] = NoOne]
         /\ named' = IF e.connections = <<>> THEN named
                     ELSE [named EXCEPT ![s] = named[s] \ {<<Name[e.of], i>>}]
  BY <1>0, UnannouncedDoes
<1>3. /\ \A t \in Services \ {s} : list'[t] = list[t] /\ toSv'[t] = toSv[t]
      /\ \A j \in SIds \ {i} : list'[s][j] = l[j]
      /\ toSv'[s] = Tail(q) /\ q \in Seq(ToSv) /\ q # <<>>
  BY <1>0, <1>1 DEF NamingTypeOK, ReadBy, MessageIs
<1>4. \A j \in SIds : \A c \in Services : ~Announces(Head(q), j, c)
  BY <1>1 DEF MessageIs, Announces
<1>5. \A j \in SIds \ {i} : \A c \in Services :
         Takes(l, q, j, c) => Takes(list'[s], Tail(q), j, c)
  <2> TAKE j \in SIds \ {i}
  <2> TAKE c \in Services
  <2>1. Takes(l, q, j, c) => Takes(l, Tail(q), j, c)
    BY <1>3, <1>4, TailTakes
  <2> QED BY <2>1, <1>3 DEF Takes
<1> HIDE DEF i, e, l, q, X
<1>6. \A j \in SIds : entry[s][j] \in CnxEntries /\ entry[s][j].of \in Services \cup {NoOne}
  <2> TAKE j \in SIds
  <2>1. entry[s][j] \in CnxEntries
    BY <1>0 DEF CnxTypes
  <2> QED BY <2>1 DEF CnxEntries
<1>7. NotUsed.of = NoOne /\ NotUsed.connections = <<>>
  BY DEF NotUsed
<1>8. Ready(s)'
  BY <1>1 DEF Ready
<1>9. Of(s)' \/ ~(\A j \in SIds : \/ entry'[s][j] = entry[s][j] /\ j # i
                                  \/ j = i /\ (entry'[s][j] = NotUsed \/ i = mySid[s]))
  <2> SUFFICES ASSUME status'[s] = "running",
                      \A j \in SIds : \/ entry'[s][j] = entry[s][j] /\ j # i
                                      \/ j = i /\ (entry'[s][j] = NotUsed \/ i = mySid[s]),
                      NEW j \in SIds, entry'[s][j].of # NoOne
               PROVE  Takes(list'[s], toSv'[s], j, entry'[s][j].of)
    BY DEF Of
  <2>1. i # mySid[s]
    BY <1>1
  <2>2. j # i /\ entry'[s][j] = entry[s][j]
    BY <2>1, <1>7
  <2>3. Takes(l, q, j, entry[s][j].of)
    BY <2>2, <1>0, <1>1 DEF Of, l, q
  <2> QED BY <2>2, <2>3, <1>3, <1>5, <1>6
<1>10. CASE (i = mySid[s] \/ e = NotUsed) /\ UNCHANGED <<named, open, events, cnxId, entry, up>>
  <2>1. ASSUME NEW t \in Services PROVE Idents(t)'
    BY <1>0, <1>1, <1>10, IdentsKept DEF nsVars
  <2>2. ASSUME NEW t \in Services \ {s} PROVE LayerOf(t)'
    BY <1>0, <1>1, <1>3, <1>10, <2>1, OtherLayer
  <2>3. Of(s)'
    BY <1>9, <1>10 DEF e
  <2>4. Conn(s)' /\ NamedUp(s)'
    BY <1>0, <1>10 DEF Conn, NamedUp
  <2>5. LayerOf(s)'
    BY <1>8, <2>1, <2>3, <2>4 DEF LayerOf
  <2> QED BY <1>0, <1>1, <2>2, <2>5 DEF Layer
<1>11. CASE /\ i # mySid[s] /\ e # NotUsed
            /\ ResetEntry(s, i)
            /\ up' = [up EXCEPT ![s][i] = NoOne]
            /\ named' = IF e.connections = <<>> THEN named
                        ELSE [named EXCEPT ![s] = named[s] \ {<<Name[e.of], i>>}]
  <2>0. CnxTypes /\ i \in SIds
    BY <1>0, <1>1
  <2>1. /\ \A t \in Services \ {s} : entry'[t] = entry[t] /\ cnxId'[t] = cnxId[t]
        /\ entry'[s][i] = NotUsed
        /\ \A j \in SIds \ {i} : entry'[s][j] = entry[s][j]
        /\ open' \subseteq open
        /\ \A c \in Services : cnxId'[s][c] = IF c \in Peers(s, i) THEN AppIdDeadConnection
                                              ELSE cnxId[s][c]
    BY <2>0, <1>11, ResetDoes
  <2>2. \A c, t \in Services :
                 \/ events'[t][c] = events[t][c]
                 \/ c = s /\ events'[t][c] = Append(events[t][c], X)
    BY <2>0, <1>11, ResetDoes DEF X
  <2>3. /\ \A t \in Services \ {s} : up'[t] = up[t] /\ named'[t] = named[t]
        /\ up'[s][i] = NoOne
        /\ \A j \in SIds \ {i} : up'[s][j] = up[s][j]
        /\ named'[s] = IF e.connections = <<>> THEN named[s]
                       ELSE named[s] \ {<<Name[e.of], i>>}
    BY <2>0, <1>11 DEF CnxTypes
  <2>4. X \in Events /\ X.kind = "disconnection"
    BY EventFacts DEF X
  <2>5. ASSUME NEW t \in Services PROVE Idents(t)'
    <3>1. \A c \in Services :
             \/ events'[t][c] = events[t][c]
             \/ \E Y \in Events : /\ Y.kind = "UN_SIDENT" => Y.sid = appId'[c]
                                  /\ events'[t][c] = Append(events[t][c], Y)
      BY <2>2, <2>4
    <3>2. \A c \in Services : cnxId'[t][c] \in {cnxId[t][c], AppIdDeadConnection}
      BY <2>1
    <3> QED BY <1>0, <1>1, <3>1, <3>2, IdentsKept DEF nsVars
  <2>6. ASSUME NEW t \in Services \ {s} PROVE LayerOf(t)'
    BY <1>0, <1>1, <1>3, <2>1, <2>3, <2>5, OtherLayer
  <2>7. ASSUME NEW j \in SIds, NEW c \in Services, <<c, s>> \in open', cnxId'[s][c] = j
        PROVE  j # i /\ entry'[s][j].connections = <<c>>
    <3>1. <<c, s>> \in open /\ c \notin Peers(s, i) /\ cnxId[s][c] = j
      BY <2>1, <2>7, NoSuchId DEF AppIdDeadConnection
    <3>2. entry[s][j].connections = <<c>>
      BY <3>1, <1>0 DEF Conn
    <3> QED BY <3>1, <3>2, <2>1 DEF Peers
  <2>8. Conn(s)'
    <3> SUFFICES ASSUME NEW j \in SIds
                 PROVE  /\ entry'[s][j].of = NoOne => entry'[s][j].connections = <<>>
                        /\ \A c \in Services :
                              entry'[s][j].connections = <<c>> => entry'[s][j].of = c
                        /\ up'[s][j] # NoOne => /\ up'[s][j] = entry'[s][j].of
                                                /\ entry'[s][j].connections # <<>>
      BY <2>7 DEF Conn
    <3>1. CASE j = i
      BY <3>1, <2>1, <2>3, <1>7
    <3>2. CASE j # i
      <4>1. entry'[s][j] = entry[s][j] /\ up'[s][j] = up[s][j]
        BY <3>2, <2>1, <2>3
      <4>2. /\ entry[s][j].of = NoOne => entry[s][j].connections = <<>>
            /\ \A c \in Services : entry[s][j].connections = <<c>> => entry[s][j].of = c
            /\ up[s][j] # NoOne => up[s][j] = entry[s][j].of /\ entry[s][j].connections # <<>>
        BY <1>0 DEF Conn
      <4> QED BY <4>1, <4>2
    <3> QED BY <3>1, <3>2
  <2>9. Of(s)'
    BY <1>9, <2>1
  <2>10. NamedUp(s)'
    <3> SUFFICES ASSUME NEW n
                 PROVE  n \in named'[s] <=>
                           \E j \in SIds : up'[s][j] # NoOne /\ n = <<Name[up'[s][j]], j>>
      BY DEF NamedUp
    <3>1. n \in named[s] <=> \E j \in SIds : up[s][j] # NoOne /\ n = <<Name[up[s][j]], j>>
      BY <1>0 DEF NamedUp
    <3>2. up[s][i] # NoOne => up[s][i] = e.of /\ e.connections # <<>>
      BY <1>0, <1>1 DEF Conn, e
    <3>3. CASE up[s][i] = NoOne
      <4>1. n \in named[s] <=> \E j \in SIds \ {i} : /\ up[s][j] # NoOne
                                                     /\ n = <<Name[up[s][j]], j>>
        BY <3>1, <3>3
      <4>2. n \in named[s] => n # <<Name[e.of], i>>
        BY <4>1
      <4>3. n \in named'[s] <=> n \in named[s]
        BY <2>3, <4>2
      <4> QED BY <4>1, <4>3, <2>3
    <3>4. CASE up[s][i] # NoOne
      <4>1. n \in named'[s] <=> n \in named[s] /\ n # <<Name[e.of], i>>
        BY <2>3, <3>2, <3>4
      <4>2. n \in named[s] <=> \/ n = <<Name[e.of], i>>
                               \/ \E j \in SIds \ {i} : /\ up[s][j] # NoOne
                                                        /\ n = <<Name[up[s][j]], j>>
        BY <3>1, <3>2, <3>4, <2>0
      <4>3. (\E j \in SIds \ {i} : up[s][j] # NoOne /\ n = <<Name[up[s][j]], j>>)
               => n # <<Name[e.of], i>>
        OBVIOUS
      <4> QED BY <4>1, <4>2, <4>3, <2>3
    <3> QED BY <3>3, <3>4
  <2>11. LayerOf(s)'
    BY <1>8, <2>5, <2>8, <2>9, <2>10 DEF LayerOf
  <2> QED BY <1>0, <1>1, <2>6, <2>11 DEF Layer
<1> QED BY <1>2, <1>10, <1>11

LEMMA IdentifiedLayer ==
    ASSUME Orderliness, NEW s \in Services, NEW c \in Services, Identified(s, c)
    PROVE  Layer'
<1> DEFINE i == Head(events[s][c]).sid
           e == entry[s][i]
           I == IF e.connections = <<>> THEN {i} ELSE {}
           T == [j \in {i} |-> c]
<1>0. /\ NamingInv /\ NamingTypeOK /\ CnxTypes /\ Steady /\ ~upTwice /\ ~late'
      /\ Ready(s) /\ Idents(s) /\ Conn(s) /\ Of(s) /\ NamedUp(s) /\ Shape(s) /\ HasSid(s)
      /\ \A t \in Services : Identity(t) /\ LayerOf(t) /\ Idents(t)
  BY OrderlyFacts
<1>T. NamingInv /\ Steady
  BY <1>0
<1>1. /\ status[s] = "running" /\ i \in SIds
      /\ events[s][c] # <<>> /\ Head(events[s][c]).kind = "UN_SIDENT"
      /\ \A t \in Services \ {s} : entry'[t] = entry[t]
      /\ \A j \in SIds \ {i} : entry'[s][j] = entry[s][j]
      /\ entry'[s][i] = [of |-> IF e = NotUsed THEN c ELSE e.of, connections |-> <<c>>]
      /\ cnxId' = [cnxId EXCEPT ![s][c] = i]
      /\ TellUp(s, I, T)
      /\ late' = (late \/ Unregistered(s, c, i))
      /\ Handled(s, c)
      /\ UNCHANGED <<namingVars, before, open>>
  BY <1>T, IdentifiedDoes, ZenonT(40)
<1>2. UNCHANGED <<appId, status, mySid, list, toSv>>
  BY <1>1 DEF namingVars, nsVars, clientVars
<1>3. i = appId[c]
  <2>1. Head(events[s][c]) = events[s][c][1] /\ 1 \in 1 .. Len(events[s][c])
    <3>1. events[s][c] \in Seq(Events) /\ events[s][c] # <<>>
      BY <1>0, <1>1 DEF CnxTypes
    <3> QED BY <3>1, TailIsThere
  <2>2. \A k \in 1 .. Len(events[s][c]) :
           events[s][c][k].kind = "UN_SIDENT" => events[s][c][k].sid = appId[c]
    BY <1>0 DEF Idents
  <2> QED BY <2>1, <2>2, <1>1
<1>4. ~Unregistered(s, c, i)
  BY <1>0, <1>1
<1> HIDE DEF i
<1>5. Takes(list[s], toSv[s], i, c)
  <2>1. CASE list[s][i] = c
    BY <2>1 DEF Takes
  <2>2. CASE \E k \in 1 .. Len(toSv[s]) : toSv[s][k].kind = "RGB" /\ toSv[s][k].inst = c
    <3>1. PICK k \in 1 .. Len(toSv[s]) : toSv[s][k].kind = "RGB" /\ toSv[s][k].inst = c
      BY <2>2
    <3>2. toSv[s][k].sid = i
      BY <3>1, <1>0, <1>3 DEF HasSid
    <3> QED BY <3>1, <3>2 DEF Takes, Announces
  <2> QED BY <2>1, <2>2, <1>4 DEF Unregistered
<1>6. e \in CnxEntries /\ e.of \in Services \cup {NoOne}
      /\ (e.of = NoOne /\ e.connections = <<>> => e = NotUsed)
  <2>1. e \in CnxEntries
    BY <1>0, <1>1 DEF CnxTypes
  <2> HIDE DEF e
  <2> QED BY <2>1 DEF CnxEntries, NotUsed
<1>7. e # NotUsed => e.of = c
  <2> SUFFICES ASSUME e # NotUsed PROVE e.of = c
    OBVIOUS
  <2>1. e.of # NoOne
    BY <1>0, <1>1, <1>6 DEF Conn
  <2>2. Takes(list[s], toSv[s], i, e.of)
    BY <2>1, <1>0, <1>1 DEF Of
  <2> QED BY <2>1, <2>2, <1>0, <1>1, <1>5, <1>6, OneIsTaken
<1>8. entry'[s][i].of = c /\ entry'[s][i].connections = <<c>>
  BY <1>1, <1>7
<1>9. NotUsed.connections = <<>>
  BY DEF NotUsed
<1>10. I \in SUBSET SIds /\ \A j \in I : j = i /\ T[j] \in Services /\ T[j] = c
  BY <1>1
<1>11. i \in I <=> e.connections = <<>>
  OBVIOUS
<1>12. e.connections = <<>> => up[s][i] = NoOne
  BY <1>0, <1>1 DEF Conn
<1>13. \A d \in Services : e.connections = <<d>> => d = c
  <2>1. \A d \in Services : e.connections = <<d>> => e.of = d
    BY <1>0, <1>1 DEF Conn
  <2>2. \A d \in Services : e.connections = <<d>> => e # NotUsed
    <3> HIDE DEF e
    <3> SUFFICES ASSUME NEW d \in Services, e.connections = <<d>>, e = NotUsed PROVE FALSE
      OBVIOUS
    <3>1. <<d>> = <<>>
      BY <1>9
    <3> QED BY <3>1
  <2> HIDE DEF e
  <2> QED BY <2>1, <2>2, <1>7
<1>14. up[s][i] # NoOne => up[s][i] = c
  BY <1>0, <1>1, <1>7, <1>9 DEF Conn
<1> HIDE DEF e, I, T
<1>15. \A t \in Services \ {s} : named'[t] = named[t] /\ up'[t] = up[t]
  BY <1>0, <1>1, <1>10, TellUpTypes
<1>16. /\ \A n : n \in named'[s] <=> \/ n \in named[s]
                                     \/ \E j \in I : n = <<Name[T[j]], j>>
       /\ \A j \in I : up'[s][j] = T[j]
       /\ \A j \in SIds \ I : up'[s][j] = up[s][j]
       /\ upTwice' => upTwice \/ \E j \in I : up[s][j] # NoOne
  <2>1. TellUp(s, I, T) /\ CnxTypes
    BY <1>0, <1>1
  <2>2. I \in SUBSET SIds /\ \A j \in I : T[j] \in Services
    BY <1>10
  <2> QED BY <2>1, <2>2, TellUpFacts
<1>17. /\ cnxId'[s][c] = i
       /\ \A d \in Services \ {c} : cnxId'[s][d] = cnxId[s][d]
       /\ \A t \in Services \ {s} : cnxId'[t] = cnxId[t] /\ events'[t] = events[t]
       /\ events'[s][c] = Tail(events[s][c])
       /\ \A d \in Services \ {c} : events'[s][d] = events[s][d]
  BY <1>0, <1>1 DEF CnxTypes, Handled
<1>18. ASSUME NEW t \in Services PROVE Idents(t)'
  <2>1. \A d \in Services : cnxId'[t][d] \in {cnxId[t][d], appId'[d]}
    BY <1>2, <1>3, <1>17
  <2>2. \A d \in Services : \/ events'[t][d] = events[t][d]
                            \/ events[t][d] # <<>> /\ events'[t][d] = Tail(events[t][d])
    BY <1>1, <1>17
  <2> QED BY <1>0, <1>2, <2>1, <2>2, IdentsKept
<1>19. ASSUME NEW t \in Services \ {s} PROVE LayerOf(t)'
  BY <1>0, <1>1, <1>2, <1>15, <1>17, <1>18, OtherLayer
<1>20. ~upTwice'
  BY <1>0, <1>10, <1>11, <1>12, <1>16
<1>21. ASSUME NEW j \in SIds, NEW d \in Services, <<d, s>> \in open', cnxId'[s][d] = j
       PROVE  entry'[s][j].connections = <<d>>
  <2>1. CASE d = c
    BY <2>1, <1>8, <1>17, <1>21
  <2>2. CASE d # c
    <3>1. <<d, s>> \in open /\ cnxId[s][d] = j
      BY <2>2, <1>1, <1>17, <1>21
    <3>2. entry[s][j].connections = <<d>>
      BY <3>1, <1>0 DEF Conn
    <3>3. j # i
      BY <3>2, <2>2, <1>13 DEF e
    <3> QED BY <3>2, <3>3, <1>1
  <2> QED BY <2>1, <2>2
<1>22. Conn(s)'
  <2> SUFFICES ASSUME NEW j \in SIds
               PROVE  /\ entry'[s][j].of = NoOne => entry'[s][j].connections = <<>>
                      /\ \A d \in Services :
                            entry'[s][j].connections = <<d>> => entry'[s][j].of = d
                      /\ up'[s][j] # NoOne => /\ up'[s][j] = entry'[s][j].of
                                              /\ entry'[s][j].connections # <<>>
    BY <1>21 DEF Conn
  <2>1. CASE j = i
    <3>1. up'[s][i] # NoOne => up'[s][i] = c
      BY <1>1, <1>10, <1>14, <1>16
    <3> QED BY <2>1, <3>1, <1>8, NoSuchId
  <2>2. CASE j # i
    <3>1. entry'[s][j] = entry[s][j] /\ up'[s][j] = up[s][j]
      BY <2>2, <1>1, <1>10, <1>16
    <3>2. /\ entry[s][j].of = NoOne => entry[s][j].connections = <<>>
          /\ \A d \in Services : entry[s][j].connections = <<d>> => entry[s][j].of = d
          /\ up[s][j] # NoOne => up[s][j] = entry[s][j].of /\ entry[s][j].connections # <<>>
      BY <1>0 DEF Conn
    <3> QED BY <3>1, <3>2
  <2> QED BY <2>1, <2>2
<1>23. Of(s)'
  <2> SUFFICES ASSUME NEW j \in SIds, entry'[s][j].of # NoOne
               PROVE  Takes(list[s], toSv[s], j, entry'[s][j].of)
    BY <1>2 DEF Of
  <2>1. CASE j = i
    BY <2>1, <1>5, <1>8
  <2>2. CASE j # i
    BY <2>2, <1>0, <1>1 DEF Of
  <2> QED BY <2>1, <2>2
<1>24. NamedUp(s)'
  <2> SUFFICES ASSUME NEW n
               PROVE  n \in named'[s] <=>
                         \E j \in SIds : up'[s][j] # NoOne /\ n = <<Name[up'[s][j]], j>>
    BY DEF NamedUp
  <2>1. n \in named[s] <=> \E j \in SIds : up[s][j] # NoOne /\ n = <<Name[up[s][j]], j>>
    BY <1>0 DEF NamedUp
  <2>2. CASE i \notin I
    <3>1. I = {}
      BY <2>2, <1>10
    <3>2. \A j \in SIds : up'[s][j] = up[s][j]
      BY <3>1, <1>16
    <3>3. n \in named'[s] <=> n \in named[s]
      BY <3>1, <1>16
    <3> QED BY <2>1, <3>2, <3>3
  <2>3. CASE i \in I
    <3>1. I = {i} /\ T[i] = c /\ up[s][i] = NoOne
      BY <2>3, <1>10, <1>11, <1>12
    <3>2. up'[s][i] = c /\ \A j \in SIds \ {i} : up'[s][j] = up[s][j]
      BY <3>1, <1>1, <1>16
    <3>3. n \in named'[s] <=> n \in named[s] \/ n = <<Name[c], i>>
      BY <3>1, <1>16
    <3>4. n \in named[s] <=> \E j \in SIds \ {i} : /\ up[s][j] # NoOne
                                                   /\ n = <<Name[up[s][j]], j>>
      BY <2>1, <3>1
    <3>5. (\E j \in SIds : up'[s][j] # NoOne /\ n = <<Name[up'[s][j]], j>>)
             <=> \/ n = <<Name[c], i>>
                 \/ \E j \in SIds \ {i} : up[s][j] # NoOne /\ n = <<Name[up[s][j]], j>>
      BY <3>2, <1>1, NoSuchId
    <3> QED BY <3>3, <3>4, <3>5
  <2> QED BY <2>2, <2>3
<1>25. Ready(s)'
  BY <1>1, <1>2 DEF Ready
<1>26. LayerOf(s)'
  BY <1>18, <1>22, <1>23, <1>24, <1>25 DEF LayerOf
<1> QED BY <1>19, <1>20, <1>26 DEF Layer

LEMMA DisconnectedLayer ==
    ASSUME Orderliness, NEW s \in Services, NEW c \in Services, Disconnected(s, c)
    PROVE  Layer'
<1> DEFINE i == cnxId[s][c]
<1>0. /\ NamingInv /\ NamingTypeOK /\ CnxTypes /\ Steady /\ ~upTwice
      /\ Ready(s) /\ Conn(s) /\ Of(s) /\ NamedUp(s)
      /\ \A t \in Services : Identity(t) /\ LayerOf(t) /\ Idents(t)
  BY OrderlyFacts
<1>1. /\ status[s] = "running" /\ events[s][c] # <<>>
      /\ \A t \in Services \ {s} : entry'[t] = entry[t]
      /\ cnxId' = [cnxId EXCEPT ![s][c] = AppIdDeadConnection]
      /\ Handled(s, c)
      /\ UNCHANGED <<namingVars, named, before, open, up, upTwice, late>>
  BY <1>0, DisconnectedDoes
<1>2. \A j \in SIds :
         /\ entry'[s][j].of = entry[s][j].of
         /\ entry'[s][j].connections =
               IF j = i /\ entry[s][j].connections = <<c>> THEN <<NoOne>>
               ELSE entry[s][j].connections
  BY <1>0, DisconnectedDoes
<1>3. UNCHANGED <<appId, status, mySid, list, toSv>>
  BY <1>1 DEF namingVars, nsVars, clientVars
<1> HIDE DEF i
<1>4. /\ cnxId'[s][c] = AppIdDeadConnection
      /\ \A d \in Services \ {c} : cnxId'[s][d] = cnxId[s][d]
      /\ \A t \in Services \ {s} : cnxId'[t] = cnxId[t] /\ events'[t] = events[t]
      /\ events'[s][c] = Tail(events[s][c])
      /\ \A d \in Services \ {c} : events'[s][d] = events[s][d]
  BY <1>0, <1>1 DEF CnxTypes, Handled
<1>5. ASSUME NEW t \in Services PROVE Idents(t)'
  <2>1. \A d \in Services : cnxId'[t][d] \in {cnxId[t][d], AppIdDeadConnection}
    BY <1>4
  <2>2. \A d \in Services : \/ events'[t][d] = events[t][d]
                            \/ events[t][d] # <<>> /\ events'[t][d] = Tail(events[t][d])
    BY <1>1, <1>4
  <2> QED BY <1>0, <1>3, <2>1, <2>2, IdentsKept
<1>6. ASSUME NEW t \in Services \ {s} PROVE LayerOf(t)'
  BY <1>0, <1>1, <1>3, <1>4, <1>5, OtherLayer
<1>7. Conn(s)'
  <2> SUFFICES ASSUME NEW j \in SIds
               PROVE  /\ entry'[s][j].of = NoOne => entry'[s][j].connections = <<>>
                      /\ \A d \in Services :
                            /\ entry'[s][j].connections = <<d>> => entry'[s][j].of = d
                            /\ <<d, s>> \in open' /\ cnxId'[s][d] = j
                                  => entry'[s][j].connections = <<d>>
                      /\ up'[s][j] # NoOne => /\ up'[s][j] = entry'[s][j].of
                                              /\ entry'[s][j].connections # <<>>
    BY DEF Conn
  <2>1. /\ entry[s][j].of = NoOne => entry[s][j].connections = <<>>
        /\ \A d \in Services :
              /\ entry[s][j].connections = <<d>> => entry[s][j].of = d
              /\ <<d, s>> \in open /\ cnxId[s][d] = j => entry[s][j].connections = <<d>>
        /\ up[s][j] # NoOne => up[s][j] = entry[s][j].of /\ entry[s][j].connections # <<>>
    BY <1>0 DEF Conn
  <2>2. open' = open /\ up' = up /\ entry'[s][j].of = entry[s][j].of
    BY <1>1, <1>2
  <2>3. \A d \in Services : cnxId'[s][d] = j => d # c /\ cnxId[s][d] = j
    BY <1>4, NoSuchId DEF AppIdDeadConnection
  <2>4. CASE entry[s][j].connections = <<c>> /\ entry'[s][j].connections = <<NoOne>>
    BY <2>1, <2>2, <2>3, <2>4, NoSuchId
  <2>5. CASE entry'[s][j].connections = entry[s][j].connections
    BY <2>1, <2>2, <2>3, <2>5
  <2> QED BY <2>4, <2>5, <1>2
<1>8. Of(s)'
  BY <1>0, <1>2, <1>3 DEF Of
<1>9. Ready(s)' /\ NamedUp(s)'
  BY <1>0, <1>1, <1>3 DEF Ready, NamedUp
<1>10. LayerOf(s)'
  BY <1>5, <1>7, <1>8, <1>9 DEF LayerOf
<1> QED BY <1>0, <1>1, <1>6, <1>10 DEF Layer

LEMMA EndedLayer ==
    ASSUME Orderliness, NEW s \in Services, Ended(s)
    PROVE  Layer'
<1> DEFINE X == Event("disconnection", NoSId)
<1>0. /\ NamingInv /\ NamingTypeOK /\ CnxTypes /\ Steady /\ ~upTwice
      /\ \A t \in Services : Identity(t) /\ LayerOf(t) /\ Idents(t)
  BY OrderlyFacts
<1>1. /\ status' = [status EXCEPT ![s] = "dead"]
      /\ toSv' = [toSv EXCEPT ![s] = <<>>]
      /\ list' = [list EXCEPT ![s] = Unlisted]
      /\ mySid' = [mySid EXCEPT ![s] = NoSId]
      /\ UNCHANGED <<nsVars, upTwice, late>>
      /\ entry' = [entry EXCEPT ![s] = NoEntries]
      /\ named' = [named EXCEPT ![s] = {}]
      /\ before' = [before EXCEPT ![s] = {}]
      /\ open' \subseteq open
      /\ events'[s] = Quiet
      /\ cnxId' = [cnxId EXCEPT ![s] = Unknown]
      /\ up' = [up EXCEPT ![s] = Unlisted]
  BY <1>0, EndedDoes
<1>2. \A t \in Services \ {s}, c \in Services :
                 \/ events'[t][c] = events[t][c]
                 \/ c = s /\ events'[t][c] = Append(events[t][c], X)
  BY <1>0, EndedDoes
<1>3. X \in Events /\ X.kind = "disconnection"
  BY EventFacts
<1> HIDE DEF X
<1>4. /\ status'[s] = "dead" /\ entry'[s] = NoEntries /\ named'[s] = {} /\ cnxId'[s] = Unknown
      /\ up'[s] = Unlisted
      /\ \A t \in Services \ {s} :
            UNCHANGED <<status[t], list[t], mySid[t], entry[t], named[t], before[t], cnxId[t],
                        up[t], toSv[t]>>
  BY <1>0, <1>1 DEF NamingTypeOK, CnxTypes
<1>5. ASSUME NEW t \in Services \ {s} PROVE Idents(t)'
  <2>1. \A c \in Services :
           \/ events'[t][c] = events[t][c]
           \/ \E Y \in Events : /\ Y.kind = "UN_SIDENT" => Y.sid = appId'[c]
                                /\ events'[t][c] = Append(events[t][c], Y)
    BY <1>2, <1>3
  <2> QED BY <1>0, <1>1, <1>4, <2>1, IdentsKept DEF nsVars
<1>6. ASSUME NEW t \in Services \ {s} PROVE LayerOf(t)'
  BY <1>0, <1>1, <1>4, <1>5, OtherLayer
<1>7. Idents(s)'
  BY <1>1, <1>4 DEF Idents, Quiet, Unknown
<1>8. Conn(s)'
  <2>1. \A i \in SIds : /\ up'[s][i] = NoOne /\ entry'[s][i] = NotUsed
                        /\ \A c \in Services : cnxId'[s][c] # i
    BY <1>4, NoSuchId DEF Unknown, Unlisted, NoEntries, AppIdDeadConnection
  <2>2. NotUsed.connections = <<>>
    BY DEF NotUsed
  <2> QED BY <2>1, <2>2 DEF Conn
<1>9. NamedUp(s)'
  BY <1>4 DEF NamedUp, Unlisted
<1>10. Ready(s)' /\ Of(s)'
  BY <1>4 DEF Ready, Of
<1>11. LayerOf(s)'
  BY <1>7, <1>8, <1>9, <1>10 DEF LayerOf
<1> QED BY <1>0, <1>1, <1>6, <1>11 DEF Layer

----------------------------------------------------------------------------
(* The invariant *)

UnifiedInv == KnowInv /\ Steady /\ (Orderly => Layer)

LEMMA LayerInitially == Init => Layer
<1> SUFFICES ASSUME Init PROVE Layer
  OBVIOUS
<1>1. /\ entry = [s \in Services |-> NoEntries]
      /\ named = [s \in Services |-> {}]
      /\ open = {}
      /\ events = [s \in Services |-> Quiet]
      /\ cnxId = [s \in Services |-> Unknown]
      /\ up = [s \in Services |-> Unlisted]
      /\ upTwice = FALSE
      /\ \A s \in Services : status[s] = "off"
  BY DEF Init, NamingInit
<1>2. ASSUME NEW s \in Services PROVE LayerOf(s)
  <2>1. \A i \in SIds : up[s][i] = NoOne /\ entry[s][i] = NotUsed
    BY <1>1 DEF Unlisted, NoEntries
  <2>2. NotUsed.connections = <<>>
    BY DEF NotUsed
  <2>3. Conn(s)
    BY <1>1, <2>1, <2>2 DEF Conn
  <2>4. Idents(s)
    BY <1>1 DEF Idents, Quiet, Unknown
  <2>5. NamedUp(s)
    BY <1>1, <2>1 DEF NamedUp
  <2>6. Ready(s) /\ Of(s)
    BY <1>1 DEF Ready, Of
  <2> QED BY <2>3, <2>4, <2>5, <2>6 DEF LayerOf
<1> QED BY <1>1, <1>2 DEF Layer

LEMMA LateStays == [Next]_vars => (late => late')
<1> SUFFICES ASSUME [Next]_vars, late PROVE late'
  OBVIOUS
<1>1. CASE UNCHANGED unifiedVars \/ UNCHANGED vars
  BY <1>1 DEF vars, unifiedVars, upVars
<1>2. ASSUME NEW s \in Services,
             Registered(s) \/ Connect(s) \/ Announced(s) \/ Unannounced(s) \/ Ended(s)
      PROVE  late'
  BY <1>2 DEF Registered, Connect, Announced, Unannounced, Ended, upVars
<1>3. ASSUME NEW s \in Services, NEW c \in Services, Identified(s, c) \/ Disconnected(s, c)
      PROVE  late'
  BY <1>3 DEF Identified, Disconnected, upVars
<1> QED BY <1>1, <1>2, <1>3 DEF Next, Handle

LEMMA LayerStep ==
    ASSUME Orderliness, Steady', [Next]_vars
    PROVE  Layer'
<1>1. CASE NsStep /\ UNCHANGED unifiedVars
  BY <1>1, ElseLayer
<1>2. ASSUME NEW s \in Services, (Start(s) \/ Reconnect(s)) /\ UNCHANGED unifiedVars
      PROVE  Layer'
  BY <1>2, ElseLayer
<1>3. ASSUME NEW s \in Services,
             Registered(s) \/ Connect(s) \/ Announced(s) \/ Unannounced(s) \/ Ended(s)
      PROVE  Layer'
  BY <1>3, RegisteredLayer, ConnectLayer, AnnouncedLayer, UnannouncedLayer, EndedLayer
<1>4. ASSUME NEW s \in Services, Handle(s)
      PROVE  Layer'
  BY <1>4, IdentifiedLayer, DisconnectedLayer DEF Handle
<1>5. CASE UNCHANGED vars
  <2>1. UNCHANGED <<entry, named, before, open, events, cnxId, up, upTwice, status, mySid,
                    list, toSv, appId>>
    BY <1>5 DEF vars, namingVars, nsVars, clientVars, unifiedVars, cnxVars, upVars
  <2>2. ASSUME NEW t \in Services PROVE LayerOf(t)'
    <3>1. LayerOf(t)
      BY OrderlyFacts
    <3> QED BY <2>1, <3>1 DEF LayerOf, Ready, Idents, Conn, Of, NamedUp
  <2> QED BY <2>1, <2>2, OrderlyFacts DEF Layer, Orderliness
<1> QED BY <1>1, <1>2, <1>3, <1>4, <1>5 DEF Next

LEMMA UnifiedInitially == Init => UnifiedInv
BY KnowInitially, SteadyInitially, LayerInitially DEF UnifiedInv, Init

LEMMA UnifiedInductive == UnifiedInv /\ [Next]_vars => UnifiedInv'
<1> SUFFICES ASSUME UnifiedInv, [Next]_vars PROVE UnifiedInv'
  OBVIOUS
<1>1. [NamingNext]_namingVars
  BY StepIsNaming
<1>2. KnowInv /\ KnowInv' /\ NamingInv /\ NamingInv' /\ (doubtful => doubtful')
  <2>1. KnowInv' /\ NamingInv
    BY <1>1, KnowInductive DEF UnifiedInv, KnowInv
  <2>2. NamingInv'
    BY <2>1 DEF KnowInv
  <2> QED BY <1>1, <2>1, <2>2, DoubtStays DEF UnifiedInv
<1>3. Steady /\ Steady'
  BY <1>2, SteadyInductive DEF UnifiedInv
<1> SUFFICES ASSUME Orderly' PROVE Layer'
  BY <1>2, <1>3 DEF UnifiedInv
<1>4. ~doubtful' /\ ~late' /\ ~doubtful /\ ~late
  BY <1>2, LateStays DEF Orderly
<1>5. Layer /\ Knowledge
  BY <1>2, <1>4 DEF UnifiedInv, Orderly, KnowInv
<1>6. NamingTypeOK'
  BY <1>2 DEF NamingInv
<1>7. Orderliness
  BY <1>2, <1>3, <1>4, <1>5, <1>6 DEF Orderliness
<1> QED BY <1>3, <1>7, LayerStep

----------------------------------------------------------------------------
(* Theorems *)

(* The inductive invariant of layer 5: what the lists and the messages of  *)
(* the naming service say (KnowInv), what holds of the connections before  *)
(* the main loop, and, as long as nobody is in a hurry or late, that every *)
(* entry has the name of the service on its connection.                    *)
THEOREM LayerHolds == Spec => []UnifiedInv
BY UnifiedInitially, UnifiedInductive, PTL DEF Spec

(* For every number of services and of ids: a message is handed to the     *)
(* application with the name of the service that has sent it               *)
(* (uncbMsgProcessing), although ids are given again, the two orders of    *)
(* UN_SIDENT and RGB are both possible and connections break.              *)
THEOREM AttributionHolds == Spec => []Attribution
<1>1. UnifiedInv => Attribution
  <2> SUFFICES ASSUME UnifiedInv, Orderly, NEW s \in Services, NEW i \in SIds
               PROVE  /\ \A c \in Services :
                            /\ entry[s][i].connections = <<c>> => entry[s][i].of = c
                            /\ <<c, s>> \in open /\ cnxId[s][c] = i
                                  => entry[s][i] = [of |-> c, connections |-> <<c>>]
                      /\ up[s][i] # NoOne => up[s][i] = entry[s][i].of
    BY DEF Attribution
  <2>1. Conn(s) /\ CnxTypes
    BY DEF UnifiedInv, Layer, LayerOf, Steady
  <2>2. entry[s][i] \in CnxEntries
    BY <2>1 DEF CnxTypes
  <2>3. /\ up[s][i] # NoOne => up[s][i] = entry[s][i].of
        /\ \A c \in Services :
              /\ entry[s][i].connections = <<c>> => entry[s][i].of = c
              /\ <<c, s>> \in open /\ cnxId[s][c] = i => entry[s][i].connections = <<c>>
    BY <2>1 DEF Conn
  <2>4. entry[s][i] = [of |-> entry[s][i].of, connections |-> entry[s][i].connections]
    BY <2>2 DEF CnxEntries
  <2> QED BY <2>3, <2>4
<1> QED BY <1>1, LayerHolds, PTL

(* For every number of services and of ids: the types of all variables,    *)
(* and no second up callback for an id without a down callback between,    *)
(* while the table by name has exactly the services that are up            *)
(* (addNamedCnx, removeNamedCnx).                                          *)
THEOREM UpAndDownHolds == Spec => []UpAndDown
<1>1. UnifiedInv => UpAndDown
  <2> SUFFICES ASSUME UnifiedInv PROVE UpAndDown
    OBVIOUS
  <2>1. TypeOK
    BY DEF UnifiedInv, KnowInv, NamingInv, Steady, CnxTypes, TypeOK
  <2>2. ASSUME Orderly, NEW s \in Services
        PROVE  named[s] = {<<Name[up[s][i]], i>> : i \in {j \in SIds : up[s][j] # NoOne}}
    <3>1. NamedUp(s)
      BY <2>2 DEF UnifiedInv, Layer, LayerOf
    <3> QED BY <3>1 DEF NamedUp
  <2>3. Orderly => ~upTwice
    BY DEF UnifiedInv, Layer
  <2> QED BY <2>1, <2>2, <2>3 DEF UpAndDown
<1> QED BY <1>1, LayerHolds, PTL

(* The naming service gives no id twice, with layer 5 as its clients *)
THEOREM UnifiedIdsAreUnique == Spec => []IdsAreUnique
BY ImplementsNaming, IdsStayUnique, PTL

(* Nobody that is gone is waited for, with layer 5 as the clients *)
THEOREM UnifiedAwaitedAreThere == Spec => []AwaitedAreThere
BY ImplementsNaming, AwaitedStayThere, PTL
=============================================================================
