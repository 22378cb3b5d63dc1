-------------------------- MODULE Naming_proofs ---------------------------
(***************************************************************************)
(* Proofs about the naming service and its clients, for every number of    *)
(* services and ids.                                                       *)
(* The table: the types, that ids are unique, and that only services that  *)
(* are registered are waited for.                                          *)
(* The lists: who takes an id for whose, in the lists of the services and  *)
(* in the messages on their way, with the invariant that the               *)
(* acknowledgements of the naming service are for, and the refinement of   *)
(* Directory.                                                              *)
(***************************************************************************)
EXTENDS Unified, FiniteSetTheorems, SequenceTheorems, WellFoundedInduction, TLAPS

----------------------------------------------------------------------------
(* Sets of natural numbers and images of finite sets *)

LEMMA Least ==
    ASSUME NEW S \in SUBSET Nat, S # {}
    PROVE  \E x \in S : \A y \in S : x <= y
<1>1. PICK x \in S : \A y \in S : ~(<<y, x>> \in OpToRel(<, Nat))
  BY WFMin, NatLessThanWellFounded, Zenon
<1>2. \A y \in S : ~(y < x)
  BY <1>1, Zenon DEF OpToRel
<1> QED BY <1>2

(* by the least cardinality of a set without a greatest element *)
LEMMA Greatest ==
    ASSUME NEW S \in SUBSET Nat, S # {}, IsFiniteSet(S)
    PROVE  \E x \in S : \A y \in S : y <= x
<1> DEFINE Has(T) == \E x \in T : \A y \in T : y <= x
           N == {n \in Nat : \E T \in SUBSET Nat : /\ IsFiniteSet(T) /\ T # {}
                                                   /\ Cardinality(T) = n /\ ~Has(T)}
<1>1. SUFFICES N = {}
  BY FS_CardinalityType
<1>2. SUFFICES ASSUME N # {} PROVE FALSE
  OBVIOUS
<1>3. PICK n \in N : \A m \in N : n <= m
  <2> N \in SUBSET Nat
    OBVIOUS
  <2> HIDE DEF N
  <2> QED BY <1>2, Least
<1>4. PICK T \in SUBSET Nat : /\ IsFiniteSet(T) /\ T # {}
                              /\ Cardinality(T) = n /\ ~Has(T)
  OBVIOUS
<1>5. PICK x \in T : TRUE
  BY <1>4
<1> DEFINE U == T \ {x}
<1>6. IsFiniteSet(U) /\ Cardinality(U) = n - 1 /\ Cardinality(U) \in Nat
  BY <1>4, <1>5, FS_RemoveElement, FS_CardinalityType
<1>7. U # {} => Has(U)
  <2> n - 1 \notin N
    BY <1>3, <1>6
  <2> QED BY <1>6
<1>8. CASE U = {}
  BY <1>8, <1>5, <1>4
<1>9. CASE U # {}
  <2>1. PICK m \in U : \A y \in U : y <= m
    BY <1>7, <1>9
  <2>2. \A y \in T : y = x \/ y <= m
    BY <2>1
  <2>3. CASE m <= x
    BY <2>2, <2>3, <1>4, <1>5
  <2>4. CASE x <= m
    BY <2>1, <2>2, <2>4, <1>4, <1>5
  <2> QED BY <2>3, <2>4, <1>4
<1> QED BY <1>8, <1>9

LEMMA FiniteImage ==
    ASSUME NEW S, IsFiniteSet(S), NEW f, DOMAIN f = S, f = [x \in S |-> f[x]]
    PROVE  IsFiniteSet({f[x] : x \in S})
<1> DEFINE T == {f[x] : x \in S}
<1>1. f \in [S -> T]
  BY Zenon
<1>2. \A t \in T : \E x \in S : f[x] = t
  BY Zenon
<1>3. f \in Surjection(S, T)
  BY <1>1, <1>2, Zenon DEF Surjection
<1> QED BY <1>3, FS_Surjection

----------------------------------------------------------------------------
(* The list of the naming service *)

LEMMA Constant ==
    /\ NoSId \notin SIds
    /\ SIds \subseteq Nat
    /\ BaseSId .. MaxSId \subseteq SIds
    /\ \A s \in Services : Given[s] \in SIds \cup {NoSId}
BY ConstantsAssumption DEF SIds, NoSId

LEMMA FirstIsIn ==
    ASSUME NEW E \in SUBSET Entries, E # {}
    PROVE  First(E) \in E
<1> DEFINE R == {e.rank : e \in E}
<1>1. R \in SUBSET Nat /\ R # {}
  BY DEF Entries
<1>2. PICK x \in R : \A y \in R : x <= y
  <2> HIDE DEF R
  <2> QED BY <1>1, Least
<1>3. \E e \in E : \A d \in E : e.rank <= d.rank
  BY <1>2
<1> QED BY <1>3 DEF First

LEMMA NextRankIsLast ==
    ASSUME table \subseteq Entries, IsFiniteSet(table)
    PROVE  NextRank \in Nat \ {0} /\ \A e \in table : e.rank < NextRank
<1> DEFINE f == [e \in table |-> e.rank]
           R == {f[e] : e \in table}
           S == {0} \cup R
<1>1. IsFiniteSet(R)
  <2> f = [e \in table |-> f[e]] /\ DOMAIN f = table
    OBVIOUS
  <2> HIDE DEF f
  <2> QED BY FiniteImage
<1>2. IsFiniteSet(S)
  <2> HIDE DEF R
  <2> QED BY <1>1, FS_AddElement, S = R \cup {0}
<1>3. S \in SUBSET Nat /\ S # {}
  BY DEF Entries
<1>4. Max(S) \in S /\ \A x \in S : x <= Max(S)
  <2>1. \E x \in S : \A y \in S : y <= x
    <3> HIDE DEF S
    <3> QED BY <1>2, <1>3, Greatest
  <2>2. \E x \in S : \A y \in S : x >= y
    <3> HIDE DEF S
    <3> QED BY <2>1, <1>3
  <2> HIDE DEF S
  <2>3. Max(S) \in S /\ \A y \in S : Max(S) >= y
    BY <2>2 DEF Max
  <2> QED BY <2>3, <1>3
<1>5. S = {0} \cup {e.rank : e \in table}
  OBVIOUS
<1>6. NextRank = 1 + Max(S)
  BY <1>5 DEF NextRank
<1>7. \A e \in table : e.rank \in S
  BY <1>5
<1>8. Max(S) \in Nat /\ \A e \in table : e.rank \in Nat
  BY <1>3, <1>4, <1>7
<1> HIDE DEF S
<1> QED BY <1>4, <1>6, <1>7, <1>8

LEMMA WantedIsFree ==
    ASSUME NEW sid \in SIds \cup {NoSId}
    PROVE  /\ Wanted(sid) \in SIds \cup {NoSId}
           /\ sid \notin Used /\ Wanted(sid) # NoSId => Wanted(sid) \notin Used
<1> DEFINE free == (BaseSId .. MaxSId) \ Used
<1>1. CASE sid # NoSId
  BY <1>1 DEF Wanted
<1>2. CASE sid = NoSId /\ free = {}
  BY <1>2 DEF Wanted
<1>3. CASE sid = NoSId /\ free # {}
  <2>1. free \in SUBSET Nat
    BY Constant
  <2>2. \E x \in free : \A y \in free : x <= y
    <3> HIDE DEF free
    <3> QED BY <1>3, <2>1, Least
  <2>3. Min(free) \in free
    <3> HIDE DEF free
    <3> QED BY <2>2 DEF Min
  <2>4. Wanted(sid) = Min(free)
    BY <1>3 DEF Wanted
  <2> QED BY <2>3, <2>4, Constant
<1> QED BY <1>1, <1>2, <1>3

----------------------------------------------------------------------------
(* What the steps of the naming service do to its list *)

TableOK ==
    /\ table \subseteq Entries
    /\ IsFiniteSet(table)
    /\ \A d, e \in table : d.rank = e.rank => d = e

(* Entries are changed or removed, and keep their ids *)
Kept ==
    \E f \in [table -> Entries] :
       /\ \A e \in table : f[e].sid = e.sid /\ f[e].rank = e.rank
       /\ table' \subseteq {f[e] : e \in table}

LEMMA KeptIsOK ==
    ASSUME TableOK, Kept
    PROVE  /\ TableOK'
           /\ (\A d, e \in table : d.sid = e.sid => d = e)
                => \A d, e \in table' : d.sid = e.sid => d = e
<1>1. PICK f \in [table -> Entries] :
         /\ \A e \in table : f[e].sid = e.sid /\ f[e].rank = e.rank
         /\ table' \subseteq {f[e] : e \in table}
  BY DEF Kept
<1>2. IsFiniteSet({f[e] : e \in table})
  BY <1>1, FiniteImage DEF TableOK
<1>3. IsFiniteSet(table')
  BY <1>1, <1>2, FS_Subset
<1>4. table' \subseteq Entries
  BY <1>1
<1>5. \A d \in table' : \E e \in table : d = f[e]
  BY <1>1
<1>6. \A d, e \in table' : d.rank = e.rank => d = e
  BY <1>1, <1>5 DEF TableOK
<1>7. (\A d, e \in table : d.sid = e.sid => d = e)
         => \A d, e \in table' : d.sid = e.sid => d = e
  BY <1>1, <1>5
<1> QED BY <1>3, <1>4, <1>6, <1>7 DEF TableOK

LEMMA SubsetIsKept ==
    ASSUME TableOK, table' \subseteq table
    PROVE  Kept
<1> DEFINE f == [e \in table |-> e]
<1>1. f \in [table -> Entries]
  BY DEF TableOK
<1>2. \A e \in table : f[e] = e
  OBVIOUS
<1>3. table' \subseteq {f[e] : e \in table}
  BY <1>2
<1> HIDE DEF f
<1> QED BY <1>1, <1>2, <1>3 DEF Kept

(* Only entries on their way out are removed, and none comes to wait for   *)
(* an id it has not waited for                                             *)
LEMMA FewerAwaited ==
    ASSUME TableOK, AwaitedAreThere, table' \subseteq table,
           \A e \in table \ table' : e.waiting
    PROVE  AwaitedAreThere'
BY DEF AwaitedAreThere, TableOK

LEMMA DoRemoveKeeps ==
    ASSUME TableOK, AwaitedAreThere, NEW e \in table, DoRemove(e)
    PROVE  Kept /\ AwaitedAreThere'
<1> DEFINE without(d) == [d EXCEPT !.acks[e.sid] = 0]
           others == {without(d) : d \in table \ {e}}
           there(i) == {d \in others : ~d.waiting /\ d.sid = i}
           awaited == [i \in SIds |-> (IF i = e.sid THEN 0 ELSE e.acks[i])
                                        + Cardinality(there(i))]
           marked == [e EXCEPT !.waiting = TRUE, !.acks = awaited]
<1>1. table' = IF awaited = NoAcks THEN others ELSE others \cup {marked}
  BY DEF DoRemove
<1>2. \A d \in table : /\ without(d) \in Entries
                       /\ without(d).sid = d.sid /\ without(d).rank = d.rank
                       /\ without(d).waiting = d.waiting
                       /\ without(d).acks = [d.acks EXCEPT ![e.sid] = 0]
  BY DEF TableOK, Entries
<1>3. IsFiniteSet(others)
  <2> DEFINE f == [d \in table \ {e} |-> without(d)]
  <2>1. IsFiniteSet(table \ {e})
    BY FS_Difference DEF TableOK
  <2>2. IsFiniteSet({f[d] : d \in table \ {e}})
    <3> f = [d \in table \ {e} |-> f[d]] /\ DOMAIN f = table \ {e}
      OBVIOUS
    <3> HIDE DEF f
    <3> QED BY <2>1, FiniteImage
  <2>3. others = {f[d] : d \in table \ {e}}
    OBVIOUS
  <2> QED BY <2>2, <2>3
<1>4. \A i \in SIds : IsFiniteSet(there(i)) /\ Cardinality(there(i)) \in Nat
  <2> TAKE i \in SIds
  <2> there(i) \in SUBSET others
    OBVIOUS
  <2> HIDE DEF others, there
  <2> QED BY <1>3, FS_Subset, FS_CardinalityType
<1>5. awaited \in [SIds -> Nat]
  <2> e.acks \in [SIds -> Nat]
    BY DEF TableOK, Entries
  <2> HIDE DEF there
  <2> QED BY <1>4
<1>6. /\ marked \in Entries /\ marked.sid = e.sid /\ marked.rank = e.rank
      /\ marked.waiting = TRUE /\ marked.acks = awaited
  <2> e \in Entries
    BY DEF TableOK
  <2> HIDE DEF awaited
  <2> QED BY <1>5 DEF Entries
<1>7. Kept
  <2> DEFINE f == [d \in table |-> IF d = e THEN marked ELSE without(d)]
  <2> HIDE DEF marked, without
  <2>1. f \in [table -> Entries]
    BY <1>2, <1>6
  <2>2. \A d \in table : f[d].sid = d.sid /\ f[d].rank = d.rank
    BY <1>2, <1>6
  <2>3. table' \subseteq {f[d] : d \in table}
    BY <1>1
  <2> HIDE DEF f
  <2> QED BY <2>1, <2>2, <2>3 DEF Kept
<1>8. AwaitedAreThere'
  <2> SUFFICES ASSUME NEW d \in table', NEW i \in SIds, d.acks[i] > 0
               PROVE  d.waiting /\ \E w \in others : ~w.waiting /\ w.sid = i
    BY <1>1 DEF AwaitedAreThere
  <2>1. ASSUME NEW o \in table, o.acks[i] > 0, i # e.sid
        PROVE  o.waiting /\ \E w \in others : ~w.waiting /\ w.sid = i
    <3>1. o.waiting /\ \E w \in table : ~w.waiting /\ w.sid = i
      BY <2>1 DEF AwaitedAreThere
    <3>2. PICK w \in table : ~w.waiting /\ w.sid = i
      BY <3>1
    <3>3. without(w) \in others /\ ~without(w).waiting /\ without(w).sid = i
      BY <3>2, <2>1, <1>2
    <3> QED BY <3>1, <3>3
  <2>2. CASE d \in others
    <3>1. PICK o \in table \ {e} : d = without(o)
      BY <2>2
    <3>2. o.acks \in [SIds -> Nat]
      BY DEF TableOK, Entries
    <3>3. d.acks = [o.acks EXCEPT ![e.sid] = 0] /\ d.waiting = o.waiting
      BY <3>1, <1>2
    <3>4. o.acks[i] > 0 /\ i # e.sid
      BY <3>2, <3>3
    <3> QED BY <3>3, <3>4, <2>1
  <2>3. CASE d = marked
    <3>1. awaited[i] > 0 /\ d.waiting
      BY <2>3, <1>6
    <3>2. awaited[i] = (IF i = e.sid THEN 0 ELSE e.acks[i]) + Cardinality(there(i))
      OBVIOUS
    <3>3. e.acks[i] \in Nat
      BY DEF TableOK, Entries
    <3>4. CASE Cardinality(there(i)) = 0
      <4> e.acks[i] > 0 /\ i # e.sid
        <5> HIDE DEF awaited, there
        <5> QED BY <3>1, <3>2, <3>3, <3>4
      <4> QED BY <3>1, <2>1
    <3>5. CASE Cardinality(there(i)) # 0
      <4> there(i) # {}
        BY <3>5, FS_EmptySet
      <4> QED BY <3>1
    <3> QED BY <3>4, <3>5
  <2> HIDE DEF others, marked
  <2> QED BY <1>1, <2>2, <2>3
<1> QED BY <1>7, <1>8

LEMMA NsAckKeeps ==
    ASSUME TableOK, AwaitedAreThere, appId \in [Services -> SIds \cup {NoSId}],
           NEW s \in Services, NsAck(s)
    PROVE  Kept /\ AwaitedAreThere'
<1> DEFINE waiting == {d \in table : /\ d.sid = Head(toNs[s]).sid /\ d.waiting
                                     /\ appId[s] # NoSId /\ d.acks[appId[s]] > 0}
           e == First(waiting)
           fewer == [e EXCEPT !.acks[appId[s]] = @ - 1]
           acked == (table \ {e}) \cup {fewer}
<1>1. CASE waiting = {}
  <2> table' = table
    BY <1>1 DEF NsAck
  <2> QED BY SubsetIsKept, FewerAwaited
<1>2. CASE waiting # {}
  <2>1. e \in waiting
    <3> waiting \in SUBSET Entries
      BY DEF TableOK
    <3> HIDE DEF waiting
    <3> QED BY <1>2, FirstIsIn
  <2>2. table' = acked \ Acknowledged(acked)
    BY <1>2 DEF NsAck
  <2>3. /\ e \in table /\ e \in Entries /\ e.waiting
        /\ appId[s] \in SIds /\ e.acks[appId[s]] > 0
    <3> HIDE DEF e
    <3> QED BY <2>1 DEF TableOK
  <2> HIDE DEF e
  <2> DEFINE acks == [e.acks EXCEPT ![appId[s]] = @ - 1]
  <2>4. acks \in [SIds -> Nat] /\ \A i \in SIds : acks[i] <= e.acks[i]
    BY <2>3 DEF Entries
  <2>5. fewer = [e EXCEPT !.acks = acks]
    BY Zenon
  <2>6. /\ fewer \in Entries /\ fewer.sid = e.sid /\ fewer.rank = e.rank
        /\ fewer.waiting = TRUE /\ fewer.acks = acks
    <3> HIDE DEF acks, fewer
    <3> QED BY <2>3, <2>4, <2>5 DEF Entries
  <2> HIDE DEF fewer
  <2>7. Kept
    <3> DEFINE f == [d \in table |-> IF d = e THEN fewer ELSE d]
    <3>1. f \in [table -> Entries]
      BY <2>6 DEF TableOK
    <3>2. \A d \in table : f[d].sid = d.sid /\ f[d].rank = d.rank
      BY <2>6
    <3>3. table' \subseteq {f[d] : d \in table}
      BY <2>2, <2>3
    <3> HIDE DEF f
    <3> QED BY <3>1, <3>2, <3>3 DEF Kept
  <2>8. \A w \in table : ~w.waiting => w \in table'
    BY <2>2, <2>3 DEF Acknowledged
  <2>9. AwaitedAreThere'
    <3> SUFFICES ASSUME NEW d \in table', NEW i \in SIds, d.acks[i] > 0
                 PROVE  d.waiting /\ \E w \in table : ~w.waiting /\ w.sid = i
      BY <2>8 DEF AwaitedAreThere
    <3>1. CASE d \in table
      BY <3>1 DEF AwaitedAreThere
    <3>2. CASE d = fewer
      <4>1. acks[i] > 0 /\ acks[i] \in Nat /\ acks[i] <= e.acks[i] /\ e.acks[i] \in Nat
        <5> HIDE DEF acks
        <5> QED BY <3>2, <2>3, <2>4, <2>6 DEF Entries
      <4>2. e.acks[i] > 0
        <5> HIDE DEF acks
        <5> QED BY <4>1
      <4> QED BY <4>2, <3>2, <2>3, <2>6 DEF AwaitedAreThere
    <3> QED BY <2>2, <3>1, <3>2
  <2> QED BY <2>7, <2>9
<1> QED BY <1>1, <1>2

LEMMA RegisterAdds ==
    ASSUME TableOK, AwaitedAreThere, NEW s \in Services, NEW sid \in SIds,
           NEW again, Register(s, sid, again)
    PROVE  /\ TableOK' /\ AwaitedAreThere'
           /\ (\A d, e \in table : d.sid = e.sid => d = e) /\ sid \notin Used
                => \A d, e \in table' : d.sid = e.sid => d = e
<1> DEFINE added == [rank |-> NextRank, sid |-> sid, inst |-> s, waiting |-> FALSE,
                     acks |-> NoAcks]
<1>1. table' = table \cup {added}
  BY DEF Register
<1>2. added \in Entries /\ \A d \in table : d.rank < added.rank /\ d.rank \in Nat
  BY NextRankIsLast DEF Entries, NoAcks, TableOK
<1>3. added.sid = sid /\ added.acks = NoAcks /\ ~added.waiting
  OBVIOUS
<1> HIDE DEF added
<1>4. IsFiniteSet(table')
  BY <1>1, FS_AddElement DEF TableOK
<1>5. \A d, e \in table' : d.rank = e.rank => d = e
  BY <1>1, <1>2 DEF TableOK
<1>6. AwaitedAreThere'
  <2> \A i \in SIds : ~(added.acks[i] > 0)
    BY <1>3 DEF NoAcks
  <2> QED BY <1>1 DEF AwaitedAreThere
<1>7. ASSUME \A d, e \in table : d.sid = e.sid => d = e, sid \notin Used
      PROVE  \A d, e \in table' : d.sid = e.sid => d = e
  BY <1>1, <1>3, <1>7 DEF Used
<1> QED BY <1>1, <1>2, <1>4, <1>5, <1>6, <1>7 DEF TableOK

----------------------------------------------------------------------------
(* Messages *)

LEMMA TakenFacts ==
    ASSUME NamingTypeOK, NEW s \in Services, toNs[s] # <<>>, Taken(s)
    PROVE  /\ Head(toNs[s]) \in ToNs
           /\ toNs' \in [Services -> Seq(ToNs)]
<1>1. toNs[s] \in Seq(ToNs) /\ toNs[s] # <<>>
  BY DEF NamingTypeOK
<1>2. Head(toNs[s]) \in ToNs /\ Tail(toNs[s]) \in Seq(ToNs)
  BY <1>1, HeadTailProperties
<1> QED BY <1>2 DEF Taken, NamingTypeOK

LEMMA ReadByFacts ==
    ASSUME NamingTypeOK, NEW s \in Services, toSv[s] # <<>>, ReadBy(s)
    PROVE  /\ Head(toSv[s]) \in ToSv
           /\ toSv' \in [Services -> Seq(ToSv)]
<1>1. toSv[s] \in Seq(ToSv) /\ toSv[s] # <<>>
  BY DEF NamingTypeOK
<1>2. Head(toSv[s]) \in ToSv /\ Tail(toSv[s]) \in Seq(ToSv)
  BY <1>1, HeadTailProperties
<1> QED BY <1>2 DEF ReadBy, NamingTypeOK

LEMMA AskFacts ==
    ASSUME NamingTypeOK, NEW s \in Services, NEW sid \in SIds \cup {NoSId},
           NEW kind \in {"RG", "RRG", "ACK_UNI", "disconnection"}, Ask(s, kind, sid)
    PROVE  toNs' \in [Services -> Seq(ToNs)]
<1> DEFINE m == [kind |-> kind, sid |-> sid]
<1>1. m \in ToNs /\ toNs[s] \in Seq(ToNs)
  BY DEF ToNs, NamingTypeOK
<1>2. Append(toNs[s], m) \in Seq(ToNs)
  <2> HIDE DEF m
  <2> QED BY <1>1, AppendProperties
<1>3. toNs' = toNs \/ toNs' = [toNs EXCEPT ![s] = Append(toNs[s], m)]
  BY DEF Ask
<1> HIDE DEF m
<1> QED BY <1>2, <1>3 DEF NamingTypeOK

LEMMA ToldFacts ==
    ASSUME NamingTypeOK, NEW s \in Services, NEW m \in ToSv
    PROVE  Told(s, m) \in Seq(ToSv)
<1>1. toSv[s] \in Seq(ToSv)
  BY DEF NamingTypeOK
<1> QED BY <1>1, AppendProperties DEF Told

LEMMA TellFacts ==
    ASSUME NamingTypeOK, NEW S, NEW m \in ToSv, Tell(S, m)
    PROVE  toSv' \in [Services -> Seq(ToSv)]
<1>1. \A s \in Services : toSv[s] \in Seq(ToSv) /\ Told(s, m) \in Seq(ToSv)
  BY ToldFacts DEF NamingTypeOK
<1> QED BY <1>1 DEF Tell

LEMMA RepliedFacts ==
    ASSUME NEW E \in SUBSET Entries, IsFiniteSet(E), NEW s \in Services
    PROVE  Replied(s, E) \in {L \in SUBSET Listed : IsFiniteSet(L)}
<1> DEFINE A == {d \in E : CanAccess(s, d)}
           f == [e \in A |-> [rank |-> e.rank, sid |-> e.sid, inst |-> e.inst]]
           L == {f[e] : e \in A}
<1>1. IsFiniteSet(A)
  BY FS_Subset
<1>2. IsFiniteSet(L)
  <2> f = [e \in A |-> f[e]] /\ DOMAIN f = A
    OBVIOUS
  <2> HIDE DEF f, A
  <2> QED BY <1>1, FiniteImage
<1>3. Replied(s, E) = L
  BY DEF Replied
<1>4. L \subseteq Listed
  BY DEF Listed, Entries
<1> QED BY <1>2, <1>3, <1>4

----------------------------------------------------------------------------
(* The inductive invariant *)

IdsDiffer == \A d, e \in table : d.sid = e.sid => d = e

NamingInv ==
    /\ NamingTypeOK
    /\ IsFiniteSet(table)
    /\ IdsAreUnique
    /\ AwaitedAreThere

LEMMA TableParts ==
    /\ NamingInv => TableOK
    /\ (TableOK /\ Kept /\ IdsAreUnique /\ (hurried => hurried') => TableOK' /\ IdsAreUnique')
<1>1. NamingInv => TableOK
  BY DEF NamingInv, NamingTypeOK, TableOK
<1>2. TableOK /\ Kept /\ IdsAreUnique /\ (hurried => hurried') => TableOK' /\ IdsAreUnique'
  BY KeptIsOK DEF IdsAreUnique
<1> QED BY <1>1, <1>2

LEMMA UnregistrationFacts ==
    ASSUME NEW e \in Entries
    PROVE  Unregistration(e) \in ToSv
BY DEF Entries, Unregistration, ToSv

LEMMA FaultFacts ==
    ASSUME NamingTypeOK, NEW max \in {MaxFaults, MaxKills}, Fault(max)
    PROVE  faults' \in 0 .. MaxFaults
BY ConstantsAssumption DEF NamingTypeOK, Fault

LEMMA NsRegisterStep ==
    ASSUME NamingInv, NEW s \in Services, NsRegister(s)
    PROVE  NamingInv'
<1> DEFINE m == Head(toNs[s])
           again == m.kind = "RRG"
           sid == Wanted(m.sid)
<1>0. NamingTypeOK /\ TableOK /\ AwaitedAreThere /\ IdsAreUnique
  BY TableParts DEF NamingInv
<1>1. m \in ToNs /\ toNs' \in [Services -> Seq(ToNs)]
  BY <1>0, TakenFacts DEF NsRegister
<1>2. m.sid \in SIds \cup {NoSId}
  BY <1>1 DEF ToNs
<1>3. /\ sid \in SIds \cup {NoSId}
      /\ m.sid \notin Used /\ sid # NoSId => sid \notin Used
  <2> HIDE DEF m
  <2> QED BY <1>2, WantedIsFree
<1>4. /\ hurried' = (hurried \/ m.sid \in Used) /\ hurried' \in BOOLEAN
      /\ doubtful' \in BOOLEAN /\ (hurried' => doubtful')
  BY <1>0 DEF NsRegister, NamingTypeOK
<1>5. UNCHANGED <<link, status, mySid, list, faults>>
  BY DEF NsRegister, clientVars
<1>6. CASE sid # NoSId /\ ~Denied(s)
  <2>1. Register(s, sid, again)
    BY <1>6 DEF NsRegister
  <2>2. sid \in SIds
    BY <1>3, <1>6
  <2> HIDE DEF again, sid
  <2>3. TableOK' /\ AwaitedAreThere' /\ (IdsDiffer /\ sid \notin Used => IdsDiffer')
    BY <1>0, <2>1, <2>2, RegisterAdds, Zenon DEF IdsDiffer
  <2>4. IdsAreUnique'
    BY <1>0, <1>3, <1>4, <1>6, <2>3 DEF IdsAreUnique, IdsDiffer
  <2>5. appId' \in [Services -> SIds \cup {NoSId}]
    BY <1>0, <2>1, <2>2 DEF Register, NamingTypeOK
  <2>6. toSv' \in [Services -> Seq(ToSv)]
    <3> DEFINE added == [rank |-> NextRank, sid |-> sid, inst |-> s, waiting |-> FALSE,
                         acks |-> NoAcks]
               after == table \cup {added}
               rgb == [kind |-> "RGB", sid |-> sid, inst |-> s]
               rg == Answer(TRUE, sid, Replied(s, after))
    <3>1. table' = after
      BY <2>1 DEF Register
    <3>2. rgb \in ToSv
      BY <2>2 DEF ToSv
    <3>3. Replied(s, after) \in {L \in SUBSET Listed : IsFiniteSet(L)}
      BY <2>3, <3>1, RepliedFacts DEF TableOK
    <3>4. rg \in ToSv
      BY <2>2, <3>3 DEF ToSv, Answer
    <3>5. \A t \in Services : toSv'[t] \in {toSv[t], Told(t, rg), Told(t, rgb)}
      BY <2>1 DEF Register
    <3>6. toSv' = [t \in Services |-> toSv'[t]]
      BY <2>1, Zenon DEF Register
    <3> HIDE DEF rg, rgb
    <3>7. \A t \in Services : toSv'[t] \in Seq(ToSv)
      BY <1>0, <3>2, <3>4, <3>5, ToldFacts DEF NamingTypeOK
    <3> QED BY <3>6, <3>7
  <2> HIDE DEF m
  <2> QED BY <1>0, <1>1, <1>4, <1>5, <2>3, <2>4, <2>5, <2>6
          DEF NamingInv, NamingTypeOK, TableOK
<1>7. CASE ~(sid # NoSId /\ ~Denied(s))
  <2>1. /\ Tell(IF again THEN {} ELSE {s}, Answer(FALSE, NoSId, {}))
        /\ UNCHANGED <<table, appId>>
    BY <1>7 DEF NsRegister, nsVars
  <2>2. Answer(FALSE, NoSId, {}) \in ToSv
    <3> {} \in {L \in SUBSET Listed : IsFiniteSet(L)}
      BY FS_EmptySet
    <3> QED BY DEF Answer, ToSv
  <2>3. toSv' \in [Services -> Seq(ToSv)]
    <3> HIDE DEF again
    <3> QED BY <1>0, <2>1, <2>2, TellFacts
  <2>4. IdsAreUnique' /\ AwaitedAreThere'
    <3> hurried => hurried'
      BY <1>4
    <3> QED BY <1>0, <2>1 DEF IdsAreUnique, AwaitedAreThere
  <2> HIDE DEF m
  <2> QED BY <1>1, <1>4, <1>5, <2>1, <2>3, <2>4 DEF NamingInv, NamingTypeOK
<1> QED BY <1>6, <1>7

LEMMA NsDisconnectStep ==
    ASSUME NamingInv, NEW s \in Services, NsDisconnect(s)
    PROVE  NamingInv'
<1> DEFINE mine == {e \in table : e.inst = s /\ ~e.waiting}
<1>0. NamingTypeOK /\ TableOK /\ AwaitedAreThere /\ IdsAreUnique
  BY TableParts DEF NamingInv
<1>1. toNs' \in [Services -> Seq(ToNs)]
  BY <1>0, TakenFacts DEF NsDisconnect
<1>2. UNCHANGED <<appId, link, status, mySid, list, hurried, doubtful, faults>>
  BY DEF NsDisconnect, clientVars, histVars
<1>3. CASE mine = {}
  <2> UNCHANGED <<table, toSv>>
    BY <1>3 DEF NsDisconnect
  <2> QED BY <1>0, <1>1, <1>2
          DEF NamingInv, NamingTypeOK, TableOK, IdsAreUnique, AwaitedAreThere
<1>4. CASE mine # {}
  <2> DEFINE e == First(mine)
  <2>1. DoRemove(e) /\ Tell(Accessible(s, table), Unregistration(e))
    BY <1>4 DEF NsDisconnect
  <2>2. e \in table /\ e \in Entries
    <3> mine \in SUBSET Entries
      BY <1>0 DEF TableOK
    <3> First(mine) \in mine
      <4> HIDE DEF mine
      <4> QED BY <1>4, FirstIsIn
    <3> QED BY <1>0 DEF TableOK
  <2> HIDE DEF e
  <2>3. Kept /\ AwaitedAreThere'
    BY <1>0, <2>1, <2>2, DoRemoveKeeps
  <2>4. TableOK' /\ IdsAreUnique'
    BY <1>0, <1>2, <2>3, TableParts
  <2>5. toSv' \in [Services -> Seq(ToSv)]
    BY <1>0, <2>1, <2>2, UnregistrationFacts, TellFacts
  <2> QED BY <1>0, <1>1, <1>2, <2>3, <2>4, <2>5 DEF NamingInv, NamingTypeOK, TableOK
<1> QED BY <1>3, <1>4

LEMMA KillStep ==
    ASSUME NamingInv, NEW i \in SIds, Kill(i)
    PROVE  NamingInv'
<1> DEFINE same == {d \in table : d.sid = i}
           e == First(same)
<1>0. NamingTypeOK /\ TableOK /\ AwaitedAreThere /\ IdsAreUnique
  BY TableParts DEF NamingInv
<1>1. /\ DoRemove(e) /\ Tell(Accessible(e.inst, table), Unregistration(e))
      /\ Fault(MaxKills)
      /\ UNCHANGED <<appId, toNs, link, status, mySid, list, hurried, doubtful>>
  BY DEF Kill, clientVars
<1>2. e \in table /\ e \in Entries
  <2> same \in SUBSET Entries /\ same # {}
    BY <1>0 DEF Kill, Used, TableOK
  <2> e \in same
    <3> HIDE DEF same
    <3> QED BY FirstIsIn
  <2> QED BY <1>0 DEF TableOK
<1> HIDE DEF e
<1>3. Kept /\ AwaitedAreThere'
  BY <1>0, <1>1, <1>2, DoRemoveKeeps
<1>4. TableOK' /\ IdsAreUnique'
  BY <1>0, <1>1, <1>3, TableParts
<1>5. toSv' \in [Services -> Seq(ToSv)]
  BY <1>0, <1>1, <1>2, UnregistrationFacts, TellFacts
<1>6. faults' \in 0 .. MaxFaults
  BY <1>0, <1>1, FaultFacts
<1> QED BY <1>0, <1>1, <1>3, <1>4, <1>5, <1>6 DEF NamingInv, NamingTypeOK, TableOK

LEMMA NsAckStep ==
    ASSUME NamingInv, NEW s \in Services, NsAck(s)
    PROVE  NamingInv'
<1>0. NamingTypeOK /\ TableOK /\ AwaitedAreThere /\ IdsAreUnique
  BY TableParts DEF NamingInv
<1>1. toNs' \in [Services -> Seq(ToNs)]
  BY <1>0, TakenFacts DEF NsAck
<1>2. /\ UNCHANGED <<appId, toSv, link, status, mySid, list, hurried, faults>>
      /\ doubtful' \in BOOLEAN /\ (hurried => doubtful')
  BY <1>0 DEF NsAck, clientVars, NamingTypeOK
<1>3. Kept /\ AwaitedAreThere'
  BY <1>0, NsAckKeeps DEF NamingTypeOK
<1>4. TableOK' /\ IdsAreUnique'
  BY <1>0, <1>2, <1>3, TableParts
<1> QED BY <1>0, <1>1, <1>2, <1>3, <1>4 DEF NamingInv, NamingTypeOK, TableOK

LEMMA NsCheckStep ==
    ASSUME NamingInv, NsCheck \/ NsTimeout
    PROVE  NamingInv'
<1>0. NamingTypeOK /\ TableOK /\ AwaitedAreThere /\ IdsAreUnique
  BY TableParts DEF NamingInv
<1>1. UNCHANGED <<appId, toNs, toSv, link, status, mySid, list>>
  BY DEF NsCheck, NsTimeout, clientVars, histVars
<1>2. /\ hurried' \in BOOLEAN /\ (hurried => hurried') /\ faults' \in 0 .. MaxFaults
      /\ doubtful' \in BOOLEAN /\ (hurried' => doubtful')
  <2>1. CASE NsCheck
    BY <1>0, <2>1 DEF NsCheck, histVars, NamingTypeOK
  <2>2. CASE NsTimeout
    <3>1. hurried' = TRUE /\ doubtful' = TRUE /\ Fault(MaxFaults)
      BY <2>2 DEF NsTimeout
    <3>2. faults' \in 0 .. MaxFaults
      BY <1>0, <3>1, FaultFacts
    <3> QED BY <3>1, <3>2
  <2> QED BY <2>1, <2>2
<1>3. table' \subseteq table /\ \A e \in table \ table' : e.waiting
  BY DEF NsCheck, NsTimeout, Acknowledged
<1>4. AwaitedAreThere' /\ Kept
  BY <1>0, <1>3, FewerAwaited, SubsetIsKept
<1>5. TableOK' /\ IdsAreUnique'
  BY <1>0, <1>2, <1>4, TableParts
<1> QED BY <1>0, <1>1, <1>2, <1>4, <1>5 DEF NamingInv, NamingTypeOK, TableOK

LEMMA NsRestartStep ==
    ASSUME NamingInv, NsRestart
    PROVE  NamingInv'
<1>0. NamingTypeOK
  BY DEF NamingInv
<1>1. UNCHANGED <<toSv, status, mySid, list>> /\ table' = {} /\ hurried' = TRUE /\ doubtful' = TRUE
  BY DEF NsRestart, clientVars
<1>2. appId' \in [Services -> SIds \cup {NoSId}]
  BY DEF NsRestart
<1>3. toNs' \in [Services -> Seq(ToNs)]
  BY EmptySeq DEF NsRestart
<1>4. link' \in [Services -> {"none", "up", "lost"}]
  BY <1>0 DEF NsRestart, NamingTypeOK
<1>5. faults' \in 0 .. MaxFaults
  BY <1>0, FaultFacts DEF NsRestart
<1>6. IsFiniteSet(table')
  BY <1>1, FS_EmptySet
<1> QED BY <1>0, <1>1, <1>2, <1>3, <1>4, <1>5, <1>6
        DEF NamingInv, NamingTypeOK, IdsAreUnique, AwaitedAreThere

LEMMA ListOfFacts ==
    ASSUME NEW services \in SUBSET Listed, IsFiniteSet(services)
    PROVE  ListOf(services) \in [SIds -> Services \cup {NoOne}]
<1> SUFFICES ASSUME NEW i \in SIds,
                    {e \in services : e.sid = i} # {}
             PROVE  (CHOOSE e \in {c \in services : c.sid = i} :
                        \A d \in {c \in services : c.sid = i} : d.rank <= e.rank).inst
                       \in Services
  BY DEF ListOf
<1> DEFINE same == {e \in services : e.sid = i}
           f == [e \in same |-> e.rank]
           R == {f[e] : e \in same}
<1>1. IsFiniteSet(same)
  BY FS_Subset
<1>2. IsFiniteSet(R)
  <2> f = [e \in same |-> f[e]] /\ DOMAIN f = same
    OBVIOUS
  <2> HIDE DEF f, same
  <2> QED BY <1>1, FiniteImage
<1>3. R \in SUBSET Nat /\ R # {}
  BY DEF Listed
<1>4. PICK x \in R : \A y \in R : y <= x
  <2> HIDE DEF R
  <2> QED BY <1>2, <1>3, Greatest
<1>5. \E e \in same : \A d \in same : d.rank <= e.rank
  BY <1>4
<1>6. (CHOOSE e \in same : \A d \in same : d.rank <= e.rank) \in same
  <2> HIDE DEF same
  <2> QED BY <1>5
<1>7. \A e \in same : e.inst \in Services
  BY DEF Listed
<1> HIDE DEF same
<1>8. (CHOOSE e \in same : \A d \in same : d.rank <= e.rank).inst \in Services
  BY <1>6, <1>7
<1> QED BY <1>8 DEF same

LEMMA StartStep ==
    ASSUME NamingInv, NEW s \in Services, Start(s) \/ Reconnect(s)
    PROVE  NamingInv'
<1>0. NamingTypeOK /\ (status' \in [Services -> Alive \cup {"off", "dead"}])
  BY DEF NamingInv, NamingTypeOK, Start, Reconnect, Alive, clientVars
<1>1. UNCHANGED <<table, appId, toSv, mySid, list, hurried, doubtful, faults>>
  BY DEF Start, Reconnect, nsVars, histVars, clientVars
<1>2. link' \in [Services -> {"none", "up", "lost"}]
  BY <1>0 DEF Start, Reconnect, NamingTypeOK
<1>3. PICK m \in ToNs : toNs' = [toNs EXCEPT ![s] = <<m>>]
  <2>1. Given[s] \in SIds \cup {NoSId} /\ mySid[s] \in SIds \cup {NoSId}
    BY <1>0, Constant DEF NamingTypeOK
  <2>2. CASE Start(s)
    <3> [kind |-> "RG", sid |-> Given[s]] \in ToNs
      BY <2>1 DEF ToNs
    <3> QED BY <2>2 DEF Start
  <2>3. CASE Reconnect(s)
    <3> [kind |-> "RRG", sid |-> mySid[s]] \in ToNs
      BY <2>1 DEF ToNs
    <3> QED BY <2>3 DEF Reconnect
  <2> QED BY <2>2, <2>3
<1>4. toNs' \in [Services -> Seq(ToNs)]
  <2> <<m>> \in Seq(ToNs)
    OBVIOUS
  <2> QED BY <1>0, <1>3 DEF NamingTypeOK
<1> QED BY <1>0, <1>1, <1>2, <1>4
        DEF NamingInv, NamingTypeOK, IdsAreUnique, AwaitedAreThere

LEMMA ReadAnswerStep ==
    ASSUME NamingInv, NEW s \in Services, ReadAnswer(s)
    PROVE  NamingInv'
<1> DEFINE m == Head(toSv[s])
<1>0. NamingTypeOK
  BY DEF NamingInv
<1>1. m \in ToSv /\ toSv' \in [Services -> Seq(ToSv)] /\ m.kind = "RG"
  BY <1>0, ReadByFacts DEF ReadAnswer, MessageIs
<1>2. /\ m.sid \in SIds \cup {NoSId}
      /\ m.services \in SUBSET Listed /\ IsFiniteSet(m.services)
  BY <1>1 DEF ToSv
<1>3. ListOf(m.services) \in [SIds -> Services \cup {NoOne}]
  <2> HIDE DEF m
  <2> QED BY <1>2, ListOfFacts
<1>4. UNCHANGED <<table, appId, toNs, link, hurried, doubtful, faults>>
  BY DEF ReadAnswer, nsVars, histVars
<1>5. /\ status' \in [Services -> Alive \cup {"off", "dead"}]
      /\ mySid' \in [Services -> SIds \cup {NoSId}]
      /\ list' \in [Services -> [SIds -> Services \cup {NoOne}]]
  <2>1. CASE m.ok
    <3> /\ status' = [status EXCEPT ![s] = "ready"]
        /\ mySid' = [mySid EXCEPT ![s] = m.sid]
        /\ list' = [list EXCEPT ![s] = ListOf(m.services)]
      BY <2>1 DEF ReadAnswer
    <3> HIDE DEF m
    <3> QED BY <1>0, <1>2, <1>3 DEF NamingTypeOK, Alive
  <2>2. CASE ~m.ok
    <3> status' = [status EXCEPT ![s] = "leaving"] /\ UNCHANGED <<mySid, list>>
      BY <2>2 DEF ReadAnswer
    <3> QED BY <1>0 DEF NamingTypeOK, Alive
  <2> QED BY <2>1, <2>2
<1> QED BY <1>0, <1>1, <1>4, <1>5
        DEF NamingInv, NamingTypeOK, IdsAreUnique, AwaitedAreThere

LEMMA EnterLoopStep ==
    ASSUME NamingInv, NEW s \in Services, EnterLoop(s)
    PROVE  NamingInv'
<1>1. UNCHANGED <<table, appId, toNs, toSv, link, mySid, list, hurried, doubtful, faults>>
  BY DEF EnterLoop, nsVars, histVars
<1>2. status' \in [Services -> Alive \cup {"off", "dead"}]
  BY DEF EnterLoop, NamingInv, NamingTypeOK, Alive
<1> QED BY <1>1, <1>2
        DEF NamingInv, NamingTypeOK, IdsAreUnique, AwaitedAreThere

LEMMA ReadBroadcastStep ==
    ASSUME NamingInv, NEW s \in Services, ReadRegistration(s) \/ ReadUnregistration(s)
    PROVE  NamingInv'
<1> DEFINE m == Head(toSv[s])
<1>0. NamingTypeOK
  BY DEF NamingInv
<1>1. m \in ToSv /\ toSv' \in [Services -> Seq(ToSv)]
  BY <1>0, ReadByFacts DEF ReadRegistration, ReadUnregistration, MessageIs
<1>2. UNCHANGED <<table, appId, link, mySid, hurried, doubtful, faults>>
  BY DEF ReadRegistration, ReadUnregistration, nsVars, histVars
<1>3. /\ list' \in [Services -> [SIds -> Services \cup {NoOne}]]
      /\ status' \in [Services -> Alive \cup {"off", "dead"}]
      /\ toNs' \in [Services -> Seq(ToNs)]
  <2>1. CASE ReadRegistration(s)
    <3>1. m.sid \in SIds /\ m.inst \in Services
      BY <1>1, <2>1 DEF ReadRegistration, MessageIs, ToSv
    <3>2. list' = [list EXCEPT ![s][m.sid] = m.inst] /\ UNCHANGED <<toNs, status>>
      BY <2>1 DEF ReadRegistration
    <3> HIDE DEF m
    <3> QED BY <1>0, <3>1, <3>2 DEF NamingTypeOK
  <2>2. CASE ReadUnregistration(s)
    <3>1. m.sid \in SIds
      BY <1>1, <2>2 DEF ReadUnregistration, MessageIs, ToSv
    <3>2. /\ list' = [list EXCEPT ![s][m.sid] = NoOne]
          /\ Ask(s, "ACK_UNI", m.sid)
          /\ status' = [status EXCEPT ![s] = IF mySid[s] = m.sid THEN "leaving" ELSE @]
      BY <2>2 DEF ReadUnregistration
    <3> HIDE DEF m
    <3>3. toNs' \in [Services -> Seq(ToNs)]
      BY <1>0, <3>1, <3>2, AskFacts
    <3> QED BY <1>0, <3>1, <3>2, <3>3 DEF NamingTypeOK, Alive
  <2> QED BY <2>1, <2>2
<1> QED BY <1>0, <1>1, <1>2, <1>3
        DEF NamingInv, NamingTypeOK, IdsAreUnique, AwaitedAreThere

LEMMA GoneStep ==
    ASSUME NamingInv, NEW s \in Services, Die(s) \/ Leave(s)
    PROVE  NamingInv'
<1>0. NamingTypeOK /\ Gone(s)
  BY DEF NamingInv, Die, Leave
<1>1. UNCHANGED <<table, appId, hurried, doubtful>>
  BY <1>0 DEF Gone, nsVars
<1>2. toNs' \in [Services -> Seq(ToNs)]
  BY <1>0, AskFacts DEF Gone
<1>3. faults' \in 0 .. MaxFaults
  BY <1>0, FaultFacts DEF Die, Leave, NamingTypeOK
<1>4. /\ status' \in [Services -> Alive \cup {"off", "dead"}]
      /\ toSv' \in [Services -> Seq(ToSv)]
      /\ link' \in [Services -> {"none", "up", "lost"}]
      /\ mySid' \in [Services -> SIds \cup {NoSId}]
      /\ list' \in [Services -> [SIds -> Services \cup {NoOne}]]
  BY <1>0, EmptySeq DEF Gone, NamingTypeOK, Unlisted
<1> QED BY <1>0, <1>1, <1>2, <1>3, <1>4
        DEF NamingInv, NamingTypeOK, IdsAreUnique, AwaitedAreThere

----------------------------------------------------------------------------
(* Theorems *)

LEMMA Initially == NamingInit => NamingInv
<1> SUFFICES ASSUME NamingInit PROVE NamingInv
  OBVIOUS
<1>1. NamingTypeOK
  <2>1. toNs \in [Services -> Seq(ToNs)] /\ toSv \in [Services -> Seq(ToSv)]
    BY EmptySeq DEF NamingInit
  <2>2. list \in [Services -> [SIds -> Services \cup {NoOne}]]
    BY DEF NamingInit, Unlisted
  <2>3. faults \in 0 .. MaxFaults
    BY ConstantsAssumption DEF NamingInit
  <2> QED BY <2>1, <2>2, <2>3 DEF NamingInit, NamingTypeOK
<1>2. IsFiniteSet(table)
  BY FS_EmptySet DEF NamingInit
<1>3. IdsAreUnique /\ AwaitedAreThere
  BY DEF NamingInit, IdsAreUnique, AwaitedAreThere
<1> QED BY <1>1, <1>2, <1>3 DEF NamingInv

LEMMA Inductive == NamingInv /\ [NamingNext]_namingVars => NamingInv'
<1> SUFFICES ASSUME NamingInv, [NamingNext]_namingVars
             PROVE  NamingInv'
  OBVIOUS
<1>1. CASE NsStep
  BY <1>1, NsRegisterStep, NsDisconnectStep, NsAckStep, KillStep, NsCheckStep,
     NsRestartStep DEF NsStep
<1>2. ASSUME NEW s \in Services, ClientStep(s)
      PROVE  NamingInv'
  BY <1>2, StartStep, ReadAnswerStep, EnterLoopStep, ReadBroadcastStep, GoneStep
     DEF ClientStep
<1>3. CASE UNCHANGED namingVars
  BY <1>3 DEF namingVars, nsVars, clientVars, histVars, NamingInv, NamingTypeOK,
              IdsAreUnique, AwaitedAreThere
<1> QED BY <1>1, <1>2, <1>3 DEF NamingNext

(* The inductive invariant holds for every number of services and of ids:  *)
(* the list of the naming service is finite, its ids are unique and those  *)
(* awaited are registered (naming_service.cpp, doRegister and doRemove).   *)
THEOREM NamingInvHolds == NamingSpec => []NamingInv
BY Initially, Inductive, PTL DEF NamingSpec

(* The variables keep their types: ids are in the range they are allocated *)
(* from or given by a configuration, and two entries of the list of the    *)
(* naming service never have the same place.                               *)
THEOREM NamingTypes == NamingSpec => []NamingTypeOK
<1>1. NamingInv => NamingTypeOK
  BY DEF NamingInv
<1> QED BY <1>1, NamingInvHolds, PTL

(* For every number of services and of ids, whatever services die or are   *)
(* killed: the naming service gives no id that another entry has           *)
(* (naming_service.cpp, doRegister), unless it was in a hurry.             *)
THEOREM IdsStayUnique == NamingSpec => []IdsAreUnique
<1>1. NamingInv => IdsAreUnique
  BY DEF NamingInv
<1> QED BY <1>1, NamingInvHolds, PTL

(* For every number of services and of ids: acknowledgements are awaited   *)
(* only of ids that registered services have, so that an id is not lost    *)
(* because of a service that is down (naming_service.cpp, doRemove).       *)
THEOREM AwaitedStayThere == NamingSpec => []AwaitedAreThere
<1>1. NamingInv => AwaitedAreThere
  BY DEF NamingInv
<1> QED BY <1>1, NamingInvHolds, PTL

----------------------------------------------------------------------------

----------------------------------------------------------------------------
(* Queues of messages *)

(* the messages of one kind about an id, by their places *)
At(q, kind, i) == {k \in 1 .. Len(q) : q[k].kind = kind /\ q[k].sid = i}

Announces(m, i, c) ==
    \/ m.kind = "RGB" /\ m.sid = i /\ m.inst = c
    \/ m.kind = "RG" /\ \E l \in m.services : l.sid = i /\ l.inst = c

(* c is the owner of i for a service with the list l that will read q *)
Takes(l, q, i, c) ==
    l[i] = c \/ \E k \in 1 .. Len(q) : Announces(q[k], i, c)

LEMMA AtIsFinite ==
    ASSUME NEW S, NEW q \in Seq(S), NEW kind, NEW i
    PROVE  /\ IsFiniteSet(At(q, kind, i))
           /\ Cardinality(At(q, kind, i)) \in Nat
           /\ Cardinality(At(q, kind, i)) = 0 <=> At(q, kind, i) = {}
<1>1. IsFiniteSet(1 .. Len(q))
  BY LenProperties, FS_Interval
<1>2. At(q, kind, i) \in SUBSET (1 .. Len(q))
  BY DEF At
<1> QED BY <1>1, <1>2, FS_Subset, FS_CardinalityType, FS_EmptySet

LEMMA AppendAt ==
    ASSUME NEW S, NEW q \in Seq(S), NEW m \in S, NEW kind, NEW i
    PROVE  /\ m.kind = kind /\ m.sid = i
                => /\ Cardinality(At(Append(q, m), kind, i))
                        = Cardinality(At(q, kind, i)) + 1
                   /\ At(Append(q, m), kind, i) # {}
           /\ ~(m.kind = kind /\ m.sid = i) => At(Append(q, m), kind, i) = At(q, kind, i)
<1> DEFINE r == Append(q, m)
           n == Len(q) + 1
<1>1. /\ Len(q) \in Nat /\ Len(r) = n
      /\ \A k \in 1 .. Len(q) : r[k] = q[k]
      /\ r[n] = m
  BY AppendProperties, LenProperties
<1> HIDE DEF r
<1>2. \A k \in 1 .. Len(r) : k \in 1 .. Len(q) \/ k = n
  BY <1>1
<1>3. ASSUME m.kind = kind, m.sid = i
      PROVE  Cardinality(At(r, kind, i)) = Cardinality(At(q, kind, i)) + 1
             /\ At(r, kind, i) # {}
  <2>1. At(r, kind, i) = At(q, kind, i) \cup {n}
    BY <1>1, <1>2, <1>3 DEF At
  <2>2. n \notin At(q, kind, i)
    BY <1>1 DEF At
  <2> QED BY <2>1, <2>2, AtIsFinite, FS_AddElement
<1>4. ASSUME ~(m.kind = kind /\ m.sid = i)
      PROVE  At(r, kind, i) = At(q, kind, i)
  BY <1>1, <1>2, <1>4 DEF At
<1> QED BY <1>3, <1>4 DEF r

LEMMA TailAt ==
    ASSUME NEW S, NEW q \in Seq(S), q # <<>>, NEW kind, NEW i
    PROVE  /\ Head(q).kind = kind /\ Head(q).sid = i
                => /\ Cardinality(At(Tail(q), kind, i))
                        = Cardinality(At(q, kind, i)) - 1
                   /\ At(q, kind, i) # {}
           /\ ~(Head(q).kind = kind /\ Head(q).sid = i)
                => /\ Cardinality(At(Tail(q), kind, i)) = Cardinality(At(q, kind, i))
                   /\ At(Tail(q), kind, i) = {} <=> At(q, kind, i) = {}
           /\ At(Tail(q), kind, i) # {} => At(q, kind, i) # {}
<1> DEFINE r == Tail(q)
           A == At(r, kind, i)
           B == At(q, kind, i) \ {1}
           f == [k \in A |-> k + 1]
<1>1. /\ Len(q) \in Nat \ {0} /\ Len(r) = Len(q) - 1 /\ Head(q) = q[1] /\ r \in Seq(S)
      /\ \A k \in 1 .. Len(r) : r[k] = q[k + 1]
  BY HeadTailProperties, EmptySeq
<1> HIDE DEF r
<1>2. \A k \in A : k \in 1 .. Len(r) /\ k + 1 \in B
  BY <1>1 DEF At
<1>3. \A j \in B : j \in 2 .. Len(q) /\ j - 1 \in A
  BY <1>1 DEF At
<1>4. f \in Bijection(A, B)
  <2>1. f \in [A -> B]
    BY <1>2
  <2>2. \A k, n \in A : f[k] = f[n] => k = n
    BY <1>1, <1>2
  <2>3. \A j \in B : \E k \in A : f[k] = j
    <3> TAKE j \in B
    <3> j - 1 \in A /\ f[j - 1] = j
      BY <1>1, <1>3
    <3> QED OBVIOUS
  <2> HIDE DEF f, A, B
  <2>4. f \in Injection(A, B)
    BY <2>1, <2>2 DEF Injection, IsInjective
  <2>5. f \in Surjection(A, B)
    BY <2>1, <2>3 DEF Surjection
  <2> QED BY <2>4, <2>5 DEF Bijection
<1>5. IsFiniteSet(A) /\ Cardinality(A) \in Nat /\ (Cardinality(A) = 0 <=> A = {})
  BY <1>1, AtIsFinite
<1>6. Cardinality(B) = Cardinality(A)
  <2> ExistsBijection(A, B)
    BY <1>4 DEF ExistsBijection
  <2> HIDE DEF A, B, f
  <2> QED BY <1>5, FS_Bijection
<1>7. /\ IsFiniteSet(At(q, kind, i)) /\ Cardinality(At(q, kind, i)) \in Nat
      /\ Cardinality(At(q, kind, i)) = 0 <=> At(q, kind, i) = {}
  BY AtIsFinite
<1>8. 1 \in At(q, kind, i) <=> Head(q).kind = kind /\ Head(q).sid = i
  BY <1>1 DEF At
<1>9. Cardinality(B) = IF 1 \in At(q, kind, i) THEN Cardinality(At(q, kind, i)) - 1
                       ELSE Cardinality(At(q, kind, i))
  BY <1>7, FS_RemoveElement
<1>10. A # {} => At(q, kind, i) # {}
  BY <1>2
<1> HIDE DEF A, B
<1>11. CASE Head(q).kind = kind /\ Head(q).sid = i
  BY <1>5, <1>6, <1>7, <1>8, <1>9, <1>10, <1>11 DEF r, A
<1>12. CASE ~(Head(q).kind = kind /\ Head(q).sid = i)
  BY <1>5, <1>6, <1>7, <1>8, <1>9, <1>10, <1>12 DEF r, A
<1> QED BY <1>11, <1>12

LEMMA EmptyAt ==
    ASSUME NEW kind, NEW i
    PROVE  At(<<>>, kind, i) = {} /\ Cardinality(At(<<>>, kind, i)) = 0
BY FS_EmptySet DEF At

LEMMA EmptyTakes ==
    ASSUME NEW i \in SIds, NEW c \in Services
    PROVE  ~Takes(Unlisted, <<>>, i, c)
BY ConstantsAssumption DEF Takes, Unlisted

LEMMA AppendTakes ==
    ASSUME NEW S, NEW q \in Seq(S), NEW m \in S, NEW l, NEW i, NEW c
    PROVE  Takes(l, Append(q, m), i, c) <=> Takes(l, q, i, c) \/ Announces(m, i, c)
<1> DEFINE r == Append(q, m)
           n == Len(q) + 1
<1>1. /\ Len(q) \in Nat /\ Len(r) = n
      /\ \A k \in 1 .. Len(q) : r[k] = q[k]
      /\ r[n] = m
  BY AppendProperties, LenProperties
<1> HIDE DEF r
<1>2. \A k \in 1 .. Len(r) : k \in 1 .. Len(q) \/ k = n
  BY <1>1
<1>3. 1 .. Len(q) \subseteq 1 .. Len(r) /\ n \in 1 .. Len(r)
  BY <1>1
<1>4. (\E k \in 1 .. Len(r) : Announces(r[k], i, c))
        <=> (\E k \in 1 .. Len(q) : Announces(q[k], i, c)) \/ Announces(m, i, c)
  BY <1>1, <1>2, <1>3
<1> QED BY <1>4 DEF Takes, r

LEMMA TailTakes ==
    ASSUME NEW S, NEW q \in Seq(S), q # <<>>, NEW l, NEW i, NEW c
    PROVE  Takes(l, q, i, c) <=> Takes(l, Tail(q), i, c) \/ Announces(Head(q), i, c)
<1> DEFINE r == Tail(q)
<1>1. /\ Len(q) \in Nat \ {0} /\ Len(r) = Len(q) - 1 /\ Head(q) = q[1]
      /\ \A k \in 1 .. Len(r) : r[k] = q[k + 1]
  BY HeadTailProperties, EmptySeq
<1> HIDE DEF r
<1>2. \A k \in 1 .. Len(r) : k + 1 \in 1 .. Len(q)
  BY <1>1
<1>3. \A k \in 1 .. Len(q) : k = 1 \/ (k - 1 \in 1 .. Len(r) /\ q[k] = r[k - 1])
  BY <1>1
<1>4. 1 \in 1 .. Len(q)
  BY <1>1
<1>5. (\E k \in 1 .. Len(q) : Announces(q[k], i, c))
        <=> (\E k \in 1 .. Len(r) : Announces(r[k], i, c)) \/ Announces(Head(q), i, c)
  BY <1>1, <1>2, <1>3, <1>4
<1> QED BY <1>5 DEF Takes, r

----------------------------------------------------------------------------
(* The invariant *)

(* What a service will read about an id: its owner once, when the list has *)
(* none, and then only the end of the owner                                *)
ShapeOf(l, q, i) ==
    \A c \in Services : \A k \in 1 .. Len(q) :
       Announces(q[k], i, c) =>
          /\ l[i] = NoOne
          /\ \A d \in Services : \A n \in 1 .. Len(q) :
                Announces(q[n], i, d) => n = k /\ d = c
          /\ \A n \in At(q, "UNB", i) : n > k

(* What a registered service s, of the id a, takes for the owner of i is   *)
(* in the list T of the naming service, and it will be told when the owner *)
(* is on its way out; every end it has still to read or to acknowledge is  *)
(* awaited.                                                                *)
KnowsIn(T, s, i, l, q, p, a) ==
    /\ \A c \in Services : Takes(l, q, i, c) =>
          \E e \in T : /\ e.sid = i /\ e.inst = c /\ Net[c] = Net[s]
                       /\ e.waiting => At(q, "UNB", i) # {}
    /\ At(q, "UNB", i) # {} \/ At(p, "ACK_UNI", i) # {} =>
          \E e \in T : e.sid = i /\ e.waiting
    /\ \A e \in T : e.sid = i =>
          Cardinality(At(q, "UNB", i)) + Cardinality(At(p, "ACK_UNI", i)) <= e.acks[a]

(* Where a service is in its life *)
Lives(s) ==
    /\ link[s] = IF status[s] \in Alive THEN "up" ELSE "none"
    /\ status[s] = "off" => /\ toNs[s] = <<>> /\ appId[s] = NoSId
                            /\ \A e \in table : e.inst # s
    /\ status[s] \notin Alive => toSv[s] = <<>>
    /\ status[s] \in {"off", "asking", "dead"} => list[s] = Unlisted
    /\ status[s] \in {"ready", "running"} => mySid[s] = appId[s]

(* It asks once, and first of all; it acknowledges nothing before *)
Asks(s) ==
    \A k \in 1 .. Len(toNs[s]) :
       /\ toNs[s][k].kind # "RRG"
       /\ toNs[s][k].kind = "RG" =>
             /\ k = 1 /\ appId[s] = NoSId /\ toSv[s] = <<>> /\ list[s] = Unlisted
             /\ status[s] \in {"asking", "dead"}
             /\ \A e \in table : e.inst # s
             /\ \A n \in 1 .. Len(toNs[s]) : toNs[s][n].kind # "ACK_UNI"

(* A service has one id in its life *)
HasSid(s) ==
    /\ \A i \in SIds : list[s][i] # NoOne => appId[list[s][i]] = i
    /\ \A k \in 1 .. Len(toSv[s]) :
          LET m == toSv[s][k] IN
          /\ m.kind = "RGB" => appId[m.inst] = m.sid
          /\ m.kind = "RG" =>
                /\ k = 1 /\ status[s] = "asking"
                /\ m.ok => appId[s] = m.sid /\ m.sid # NoSId
                /\ \A n \in m.services : appId[n.inst] = n.sid
                /\ \A n, o \in m.services : n.sid = o.sid => n = o

Shape(s) == \A i \in SIds : ShapeOf(list[s], toSv[s], i)

Knows(s) ==
    RegisteredNow(s) =>
       \A i \in SIds : KnowsIn(table, s, i, list[s], toSv[s], toNs[s], appId[s])

KnownOf(s) == Lives(s) /\ Asks(s) /\ HasSid(s) /\ Shape(s) /\ Knows(s)

Knowledge ==
    /\ \A e \in table : appId[e.inst] = e.sid
    /\ \A s \in Services : KnownOf(s)

KnowInv == NamingInv /\ (~doubtful => Knowledge)

LEMMA ShapeAppended ==
    ASSUME NEW q \in Seq(ToSv), NEW m \in ToSv, NEW l, NEW i \in SIds, ShapeOf(l, q, i),
           \A c \in Services : Announces(m, i, c) =>
              /\ l[i] = NoOne /\ At(q, "UNB", i) = {}
              /\ \A d \in Services : ~Takes(l, q, i, d) /\ (Announces(m, i, d) => d = c)
    PROVE  ShapeOf(l, Append(q, m), i)
<1> DEFINE r == Append(q, m)
           n == Len(q) + 1
<1>1. /\ Len(q) \in Nat /\ Len(r) = n
      /\ \A k \in 1 .. Len(q) : r[k] = q[k]
      /\ r[n] = m
  BY AppendProperties, LenProperties
<1> HIDE DEF r
<1>2. \A k \in 1 .. Len(r) : k \in 1 .. Len(q) \/ k = n
  BY <1>1
<1> SUFFICES ASSUME NEW c \in Services, NEW k \in 1 .. Len(r), Announces(r[k], i, c)
             PROVE  /\ l[i] = NoOne
                    /\ \A d \in Services : \A j \in 1 .. Len(r) :
                          Announces(r[j], i, d) => j = k /\ d = c
                    /\ \A j \in At(r, "UNB", i) : j > k
  BY DEF ShapeOf, r
<1>3. ~(m.kind = "UNB" /\ m.sid = i) \/ \A d \in Services : ~Announces(m, i, d)
  BY DEF Announces
<1>4. CASE k \in 1 .. Len(q)
  <2>1. Announces(q[k], i, c)
    BY <1>1, <1>4
  <2>2. ~Announces(m, i, c) /\ \A d \in Services : ~Announces(m, i, d)
    BY <2>1, <1>4 DEF Takes
  <2>3. /\ l[i] = NoOne
        /\ \A d \in Services : \A j \in 1 .. Len(q) :
                Announces(q[j], i, d) => j = k /\ d = c
        /\ \A j \in At(q, "UNB", i) : j > k
    BY <2>1, <1>4 DEF ShapeOf
  <2>4. \A j \in At(r, "UNB", i) : j \in At(q, "UNB", i) \/ j = n
    BY <1>1, <1>2 DEF At
  <2> QED BY <2>2, <2>3, <2>4, <1>1, <1>2, <1>4
<1>5. CASE k = n
  <2>1. Announces(m, i, c)
    BY <1>1, <1>5
  <2>2. /\ l[i] = NoOne /\ At(q, "UNB", i) = {}
        /\ \A d \in Services : ~Takes(l, q, i, d) /\ (Announces(m, i, d) => d = c)
    BY <2>1
  <2>3. \A d \in Services : \A j \in 1 .. Len(q) : ~Announces(q[j], i, d)
    BY <2>2 DEF Takes
  <2>4. At(r, "UNB", i) = {}
    BY <1>1, <1>2, <1>3, <2>1, <2>2 DEF At
  <2> QED BY <2>2, <2>3, <2>4, <1>1, <1>2, <1>5
<1> QED BY <1>2, <1>4, <1>5

(* reading takes the first message, and the list becomes what it says *)
LEMMA ShapeRead ==
    ASSUME NEW q \in Seq(ToSv), q # <<>>, NEW l, NEW l2, NEW i \in SIds, ShapeOf(l, q, i),
           \/ l2[i] = l[i] \/ l2[i] = NoOne
           \/ \E c \in Services : l2[i] = c /\ Announces(Head(q), i, c)
    PROVE  /\ ShapeOf(l2, Tail(q), i)
           /\ \A c \in Services : Takes(l2, Tail(q), i, c) => Takes(l, q, i, c)
           /\ l2[i] = NoOne /\ Head(q).kind = "UNB" /\ Head(q).sid = i
                => \A c \in Services : ~Takes(l2, Tail(q), i, c)
<1> DEFINE r == Tail(q)
<1>1. /\ Len(q) \in Nat \ {0} /\ Len(r) = Len(q) - 1 /\ Head(q) = q[1]
      /\ \A k \in 1 .. Len(r) : r[k] = q[k + 1]
  BY HeadTailProperties, EmptySeq
<1> HIDE DEF r
<1>2. \A k \in 1 .. Len(r) : k + 1 \in 1 .. Len(q)
  BY <1>1
<1>3. 1 \in 1 .. Len(q)
  BY <1>1
<1>4. ASSUME NEW c \in Services, NEW k \in 1 .. Len(r), Announces(r[k], i, c)
      PROVE  /\ l2[i] = NoOne
             /\ \A d \in Services : \A j \in 1 .. Len(r) :
                   Announces(r[j], i, d) => j = k /\ d = c
             /\ \A j \in At(r, "UNB", i) : j > k
  <2>1. Announces(q[k + 1], i, c) /\ k + 1 \in 1 .. Len(q) /\ k + 1 # 1
    BY <1>1, <1>2, <1>4
  <2>2. /\ l[i] = NoOne
        /\ \A d \in Services : \A j \in 1 .. Len(q) :
                Announces(q[j], i, d) => j = k + 1 /\ d = c
        /\ \A j \in At(q, "UNB", i) : j > k + 1
    BY <2>1 DEF ShapeOf
  <2>3. \A d \in Services : ~Announces(Head(q), i, d)
    BY <2>1, <2>2, <1>1, <1>3
  <2>4. \A j \in At(r, "UNB", i) : j + 1 \in At(q, "UNB", i) /\ j \in Nat
    BY <1>1, <1>2 DEF At
  <2>5. \A d \in Services : \A j \in 1 .. Len(r) :
                   Announces(r[j], i, d) => j = k /\ d = c
    BY <2>2, <1>1, <1>2
  <2> QED BY <2>2, <2>3, <2>4, <2>5
<1>5. ShapeOf(l2, r, i)
  BY <1>4 DEF ShapeOf
<1>6. ASSUME NEW c \in Services, Takes(l2, r, i, c)
      PROVE  Takes(l, q, i, c)
  <2>1. CASE l2[i] = c
    <3>1. c # NoOne
      BY ConstantsAssumption
    <3> QED BY <2>1, <3>1, <1>1, <1>3 DEF Takes
  <2>2. CASE \E k \in 1 .. Len(r) : Announces(r[k], i, c)
    BY <2>2, <1>1, <1>2 DEF Takes
  <2> QED BY <1>6, <2>1, <2>2 DEF Takes
<1>7. ASSUME l2[i] = NoOne, Head(q).kind = "UNB", Head(q).sid = i, NEW c \in Services
      PROVE  ~Takes(l2, r, i, c)
  <2>1. 1 \in At(q, "UNB", i)
    BY <1>1, <1>3, <1>7 DEF At
  <2>2. \A k \in 1 .. Len(r) : ~Announces(r[k], i, c)
    <3> SUFFICES ASSUME NEW k \in 1 .. Len(r), Announces(r[k], i, c) PROVE FALSE
      OBVIOUS
    <3>1. Announces(q[k + 1], i, c) /\ k + 1 \in 1 .. Len(q)
      BY <1>1, <1>2
    <3>2. 1 > k + 1
      BY <3>1, <2>1 DEF ShapeOf
    <3> QED BY <3>2
  <2> QED BY <1>7, <2>2, ConstantsAssumption DEF Takes
<1> QED BY <1>5, <1>6, <1>7 DEF r

----------------------------------------------------------------------------
(* What the changes of the list of the naming service do to it *)

LEMMA ReleaseKeeps ==
    ASSUME NEW T \in SUBSET Entries, NEW s \in Services, NEW i \in SIds, NEW l,
           NEW q \in Seq(ToSv), NEW p \in Seq(ToNs), NEW a \in SIds,
           KnowsIn(T, s, i, l, q, p, a)
    PROVE  /\ KnowsIn(T \ Acknowledged(T), s, i, l, q, p, a)
           /\ \A e \in Acknowledged(T) : e.sid = i =>
                 /\ At(q, "UNB", i) = {} /\ At(p, "ACK_UNI", i) = {}
<1>1. ASSUME NEW e \in Acknowledged(T), e.sid = i
      PROVE  /\ At(q, "UNB", i) = {} /\ At(p, "ACK_UNI", i) = {}
  <2>1. e \in T /\ e.acks[a] = 0
    BY <1>1 DEF Acknowledged, NoAcks
  <2>2. Cardinality(At(q, "UNB", i)) + Cardinality(At(p, "ACK_UNI", i)) <= 0
    BY <1>1, <2>1 DEF KnowsIn
  <2> QED BY <2>2, AtIsFinite
<1>2. \A e \in Acknowledged(T) : e.waiting
  BY DEF Acknowledged
<1>3. ASSUME NEW c \in Services, Takes(l, q, i, c)
      PROVE  \E e \in T \ Acknowledged(T) :
                /\ e.sid = i /\ e.inst = c /\ Net[c] = Net[s]
                /\ e.waiting => At(q, "UNB", i) # {}
  BY <1>1, <1>2, <1>3 DEF KnowsIn
<1>4. ASSUME At(q, "UNB", i) # {} \/ At(p, "ACK_UNI", i) # {}
      PROVE  \E e \in T \ Acknowledged(T) : e.sid = i /\ e.waiting
  BY <1>1, <1>4 DEF KnowsIn
<1>5. KnowsIn(T \ Acknowledged(T), s, i, l, q, p, a)
  BY <1>3, <1>4 DEF KnowsIn
<1> QED BY <1>1, <1>5

(* an acknowledgement of the service b is taken off the entry e *)
Less(e, b) == [e EXCEPT !.acks[b] = @ - 1]
Acked(T, e, b) == (T \ {e}) \cup {Less(e, b)}

LEMMA AckedFacts ==
    ASSUME NEW e \in Entries, NEW b \in SIds, e.acks[b] > 0
    PROVE  /\ Less(e, b) \in Entries
           /\ Less(e, b).sid = e.sid /\ Less(e, b).rank = e.rank
           /\ Less(e, b).inst = e.inst /\ Less(e, b).waiting = e.waiting
           /\ Less(e, b).acks[b] = e.acks[b] - 1
           /\ \A a \in SIds \ {b} : Less(e, b).acks[a] = e.acks[a]
<1> DEFINE acks == [e.acks EXCEPT ![b] = @ - 1]
           f == [e EXCEPT !.acks = acks]
<1>1. e.acks \in [SIds -> Nat]
  BY DEF Entries
<1>2. acks \in [SIds -> Nat] /\ acks[b] = e.acks[b] - 1
      /\ \A a \in SIds \ {b} : acks[a] = e.acks[a]
  BY <1>1
<1>3. Less(e, b) = f
  BY Zenon DEF Less
<1>4. /\ f \in Entries /\ f.sid = e.sid /\ f.rank = e.rank /\ f.inst = e.inst
      /\ f.waiting = e.waiting /\ f.acks = acks
  <2> HIDE DEF acks
  <2> QED BY <1>2 DEF Entries
<1> HIDE DEF acks, f
<1> QED BY <1>2, <1>3, <1>4

LEMMA AckKeeps ==
    ASSUME NEW T \in SUBSET Entries, NEW e \in T, NEW b \in SIds, e.acks[b] > 0,
           e.waiting, NEW s \in Services, NEW i \in SIds, NEW l,
           NEW q \in Seq(ToSv), NEW p \in Seq(ToNs), NEW a \in SIds,
           KnowsIn(T, s, i, l, q, p, a)
    PROVE  /\ a # b => KnowsIn(Acked(T, e, b), s, i, l, q, p, a)
           /\ p # <<>> /\ Head(p).kind = "ACK_UNI" /\ Head(p).sid = e.sid
                => KnowsIn(Acked(T, e, b), s, i, l, q, Tail(p), a)
<1> DEFINE f == Less(e, b)
           U == Acked(T, e, b)
<1>1. /\ f \in Entries /\ f.sid = e.sid /\ f.inst = e.inst /\ f.waiting = e.waiting
      /\ f.acks[b] = e.acks[b] - 1
      /\ \A x \in SIds \ {b} : f.acks[x] = e.acks[x]
  BY AckedFacts
<1>2. U = (T \ {e}) \cup {f}
  BY DEF Acked
<1> HIDE DEF f, U
<1>3. \A d \in T : \E g \in U : g.sid = d.sid /\ g.inst = d.inst /\ g.waiting = d.waiting
  BY <1>1, <1>2
<1>4. /\ \A c \in Services : Takes(l, q, i, c) =>
            \E g \in U : /\ g.sid = i /\ g.inst = c /\ Net[c] = Net[s]
                         /\ g.waiting => At(q, "UNB", i) # {}
      /\ At(q, "UNB", i) # {} \/ At(p, "ACK_UNI", i) # {} =>
            \E g \in U : g.sid = i /\ g.waiting
  BY <1>3 DEF KnowsIn
<1>5. ASSUME a # b PROVE KnowsIn(U, s, i, l, q, p, a)
  <2>1. f.acks[a] = e.acks[a]
    BY <1>1, <1>5
  <2> QED BY <1>1, <1>2, <1>4, <2>1 DEF KnowsIn
<1>6. ASSUME p # <<>>, Head(p).kind = "ACK_UNI", Head(p).sid = e.sid
      PROVE  KnowsIn(U, s, i, l, q, Tail(p), a)
  <2>1. At(Tail(p), "ACK_UNI", i) # {} => At(p, "ACK_UNI", i) # {}
    BY <1>6, TailAt
  <2>2. /\ e.sid = i => Cardinality(At(Tail(p), "ACK_UNI", i))
                          = Cardinality(At(p, "ACK_UNI", i)) - 1
        /\ e.sid # i => Cardinality(At(Tail(p), "ACK_UNI", i))
                          = Cardinality(At(p, "ACK_UNI", i))
    BY <1>6, TailAt
  <2>3. Cardinality(At(q, "UNB", i)) \in Nat /\ Cardinality(At(p, "ACK_UNI", i)) \in Nat
    BY AtIsFinite
  <2>4. ASSUME NEW d \in U, d.sid = i
        PROVE  Cardinality(At(q, "UNB", i)) + Cardinality(At(Tail(p), "ACK_UNI", i))
                 <= d.acks[a]
    <3>1. CASE d \in T
      <4>1. Cardinality(At(q, "UNB", i)) + Cardinality(At(p, "ACK_UNI", i)) <= d.acks[a]
        BY <2>4, <3>1 DEF KnowsIn
      <4>2. d.acks[a] \in Nat
        BY <3>1 DEF Entries
      <4> QED BY <4>1, <4>2, <2>2, <2>3
    <3>2. CASE d = f
      <4>1. e.sid = i
        BY <2>4, <3>2, <1>1
      <4>2. Cardinality(At(q, "UNB", i)) + Cardinality(At(p, "ACK_UNI", i)) <= e.acks[a]
        BY <4>1 DEF KnowsIn
      <4>3. e.acks[a] \in Nat /\ f.acks[a] \in Nat
        BY <1>1 DEF Entries
      <4>4. f.acks[a] = e.acks[a] \/ f.acks[a] = e.acks[a] - 1
        BY <1>1
      <4> QED BY <4>1, <4>2, <4>3, <4>4, <3>2, <2>2, <2>3
    <3> QED BY <2>4, <3>1, <3>2, <1>2
  <2> QED BY <1>4, <2>1, <2>4 DEF KnowsIn
<1> QED BY <1>5, <1>6 DEF U

(* what doRemove makes of the list *)
LEMMA RemovedFacts ==
    ASSUME TableOK, NEW e \in table, DoRemove(e)
    PROVE  /\ \A d \in table \ {e} : \E g \in table' :
                 /\ g.sid = d.sid /\ g.inst = d.inst /\ g.waiting = d.waiting
                 /\ g.acks = [d.acks EXCEPT ![e.sid] = 0]
           /\ \A g \in table' :
                 \/ \E d \in table \ {e} :
                       /\ g.sid = d.sid /\ g.inst = d.inst /\ g.waiting = d.waiting
                       /\ g.acks = [d.acks EXCEPT ![e.sid] = 0]
                 \/ /\ g.sid = e.sid /\ g.inst = e.inst /\ g.waiting
                    /\ \A a \in SIds \ {e.sid} :
                          /\ g.acks[a] >= e.acks[a]
                          /\ (\E d \in table \ {e} : ~d.waiting /\ d.sid = a)
                               => g.acks[a] >= e.acks[a] + 1
           /\ \/ \A d \in table \ {e} : d.waiting
              \/ \E g \in table' : g.sid = e.sid /\ g.inst = e.inst /\ g.waiting
<1> DEFINE without(d) == [d EXCEPT !.acks[e.sid] = 0]
           others == {without(d) : d \in table \ {e}}
           there(i) == {d \in others : ~d.waiting /\ d.sid = i}
           awaited == [i \in SIds |-> (IF i = e.sid THEN 0 ELSE e.acks[i])
                                        + Cardinality(there(i))]
           marked == [e EXCEPT !.waiting = TRUE, !.acks = awaited]
<1>1. table' = IF awaited = NoAcks THEN others ELSE others \cup {marked}
  BY DEF DoRemove
<1>2. \A d \in table : /\ without(d).sid = d.sid /\ without(d).inst = d.inst
                       /\ without(d).waiting = d.waiting
                       /\ without(d).acks = [d.acks EXCEPT ![e.sid] = 0]
  BY DEF TableOK, Entries
<1>3. IsFiniteSet(others)
  <2> DEFINE f == [d \in table \ {e} |-> without(d)]
  <2>1. IsFiniteSet(table \ {e})
    BY FS_Difference DEF TableOK
  <2>2. IsFiniteSet({f[d] : d \in table \ {e}})
    <3> f = [d \in table \ {e} |-> f[d]] /\ DOMAIN f = table \ {e}
      OBVIOUS
    <3> HIDE DEF f
    <3> QED BY <2>1, FiniteImage
  <2>3. others = {f[d] : d \in table \ {e}}
    OBVIOUS
  <2> QED BY <2>2, <2>3
<1>4. \A i \in SIds : /\ IsFiniteSet(there(i)) /\ Cardinality(there(i)) \in Nat
                      /\ Cardinality(there(i)) = 0 => there(i) = {}
  <2> TAKE i \in SIds
  <2> there(i) \in SUBSET others
    OBVIOUS
  <2> HIDE DEF others, there
  <2> QED BY <1>3, FS_Subset, FS_CardinalityType, FS_EmptySet
<1>5. \A d \in table \ {e} : ~d.waiting => without(d) \in there(d.sid)
  <2> SUFFICES ASSUME NEW d \in table \ {e}, ~d.waiting
               PROVE  without(d) \in there(d.sid)
    OBVIOUS
  <2>1. without(d) \in others
    OBVIOUS
  <2>2. ~without(d).waiting /\ without(d).sid = d.sid
    BY <1>2
  <2> HIDE DEF without, others
  <2> QED BY <2>1, <2>2
<1>6. marked.sid = e.sid /\ marked.inst = e.inst /\ marked.waiting = TRUE
      /\ marked.acks = awaited
  <2> e \in Entries
    BY DEF TableOK
  <2> HIDE DEF awaited
  <2> QED BY DEF Entries
<1>7. /\ \A a \in SIds : e.acks[a] \in Nat
      /\ \A d \in table : d.sid \in SIds
  BY DEF TableOK, Entries
<1>8. \A a \in SIds \ {e.sid} : awaited[a] = e.acks[a] + Cardinality(there(a))
  <2> HIDE DEF there
  <2> QED OBVIOUS
<1>9. \A d \in table \ {e} : \E g \in others :
                 /\ g.sid = d.sid /\ g.inst = d.inst /\ g.waiting = d.waiting
                 /\ g.acks = [d.acks EXCEPT ![e.sid] = 0]
  <2> TAKE d \in table \ {e}
  <2> without(d) \in others
    OBVIOUS
  <2> HIDE DEF without, others
  <2> QED BY <1>2
<1>10. \A g \in others : \E d \in table \ {e} :
                       /\ g.sid = d.sid /\ g.inst = d.inst /\ g.waiting = d.waiting
                       /\ g.acks = [d.acks EXCEPT ![e.sid] = 0]
  <2> TAKE g \in others
  <2> PICK d \in table \ {e} : g = without(d)
    OBVIOUS
  <2> HIDE DEF without, others
  <2> QED BY <1>2
<1>11. ASSUME NEW a \in SIds \ {e.sid}
       PROVE  /\ awaited[a] >= e.acks[a]
              /\ (\E d \in table \ {e} : ~d.waiting /\ d.sid = a)
                               => awaited[a] >= e.acks[a] + 1
  <2>1. Cardinality(there(a)) \in Nat
    BY <1>4
  <2>2. (\E d \in table \ {e} : ~d.waiting /\ d.sid = a) => Cardinality(there(a)) # 0
    <3> HIDE DEF there, without
    <3> QED BY <1>4, <1>5
  <2> HIDE DEF there, awaited
  <2> QED BY <2>1, <2>2, <1>7, <1>8
<1>12. awaited = NoAcks => \A d \in table \ {e} : d.waiting
  <2> SUFFICES ASSUME awaited = NoAcks, NEW d \in table \ {e}, ~d.waiting PROVE FALSE
    OBVIOUS
  <2>1. there(d.sid) # {} /\ d.sid \in SIds
    <3> without(d) \in there(d.sid)
      <4> HIDE DEF there, without
      <4> QED BY <1>5
    <3> HIDE DEF there, without
    <3> QED BY <1>7
  <2>2. Cardinality(there(d.sid)) \in Nat \ {0}
    <3> HIDE DEF there
    <3> QED BY <2>1, <1>4
  <2>3. awaited[d.sid] = 0
    <3> HIDE DEF awaited
    <3> QED BY <2>1 DEF NoAcks
  <2>4. awaited[d.sid] = (IF d.sid = e.sid THEN 0 ELSE e.acks[d.sid])
                           + Cardinality(there(d.sid))
    <3> HIDE DEF there
    <3> QED BY <2>1
  <2> HIDE DEF awaited, there
  <2> QED BY <2>1, <2>2, <2>3, <2>4, <1>7
<1> HIDE DEF others, marked, awaited
<1> QED BY <1>1, <1>6, <1>9, <1>10, <1>11, <1>12

----------------------------------------------------------------------------
(* The steps of the clients *)

LEMMA OfAnother ==
    ASSUME NEW t \in Services, KnownOf(t), UNCHANGED <<table, appId>>,
           UNCHANGED <<toNs[t], toSv[t], link[t], status[t], mySid[t], list[t]>>
    PROVE  KnownOf(t)'
<1> Lives(t) /\ Asks(t) /\ HasSid(t) /\ Shape(t) /\ Knows(t)
  BY DEF KnownOf
<1>1. Lives(t)'
  BY DEF Lives
<1>2. Asks(t)'
  BY DEF Asks
<1>3. HasSid(t)'
  BY DEF HasSid
<1>4. Shape(t)'
  BY DEF Shape
<1>5. Knows(t)'
  BY DEF Knows, RegisteredNow
<1> QED BY <1>1, <1>2, <1>3, <1>4, <1>5 DEF KnownOf

LEMMA OfTheOthers ==
    ASSUME NEW s \in Services, Knowledge, UNCHANGED <<table, appId>>, KnownOf(s)',
           \A t \in Services \ {s} :
              UNCHANGED <<toNs[t], toSv[t], link[t], status[t], mySid[t], list[t]>>
    PROVE  Knowledge'
<1>1. ASSUME NEW t \in Services \ {s} PROVE KnownOf(t)'
  BY OfAnother DEF Knowledge
<1> QED BY <1>1 DEF Knowledge

(* a message that is no acknowledgement is added or taken *)
LEMMA NotAcknowledging ==
    ASSUME NEW p \in Seq(ToNs), NEW r \in Seq(ToNs), NEW i \in SIds,
           \/ r = p
           \/ \E m \in ToNs : m.kind # "ACK_UNI" /\ r = Append(p, m)
           \/ p # <<>> /\ Head(p).kind # "ACK_UNI" /\ r = Tail(p)
    PROVE  /\ Cardinality(At(r, "ACK_UNI", i)) = Cardinality(At(p, "ACK_UNI", i))
           /\ At(r, "ACK_UNI", i) = {} <=> At(p, "ACK_UNI", i) = {}
<1>1. CASE r = p
  BY <1>1
<1>2. ASSUME NEW m \in ToNs, m.kind # "ACK_UNI", r = Append(p, m)
      PROVE  At(r, "ACK_UNI", i) = At(p, "ACK_UNI", i)
  BY <1>2, AppendAt
<1>3. CASE p # <<>> /\ Head(p).kind # "ACK_UNI" /\ r = Tail(p)
  BY <1>3, TailAt
<1> QED BY <1>1, <1>2, <1>3

(* What a service knows does not become wrong when it reads its first      *)
(* message and that is not an UNB                                          *)
LEMMA ReadKnows ==
    ASSUME NEW s \in Services, NEW i \in SIds, NEW l, NEW l2, NEW q \in Seq(ToSv),
           NEW p, NEW a,
           KnowsIn(table, s, i, l, q, p, a), q # <<>>, Head(q).kind # "UNB",
           \A c \in Services : Takes(l2, Tail(q), i, c) => Takes(l, q, i, c)
    PROVE  KnowsIn(table, s, i, l2, Tail(q), p, a)
<1>1. /\ Cardinality(At(Tail(q), "UNB", i)) = Cardinality(At(q, "UNB", i))
      /\ At(Tail(q), "UNB", i) = {} <=> At(q, "UNB", i) = {}
  BY TailAt
<1> QED BY <1>1 DEF KnowsIn

(* what is left to read, and what it says, is as before *)
LEMMA TailIsThere ==
    ASSUME NEW S, NEW q \in Seq(S), q # <<>>
    PROVE  /\ Tail(q) \in Seq(S) /\ Head(q) \in S
           /\ Head(q) = q[1] /\ 1 \in 1 .. Len(q)
           /\ \A k \in 1 .. Len(Tail(q)) :
                 k + 1 \in 1 .. Len(q) /\ k + 1 # 1 /\ Tail(q)[k] = q[k + 1]
BY HeadTailProperties, EmptySeq, LenProperties

LEMMA AppendIsThere ==
    ASSUME NEW S, NEW q \in Seq(S), NEW m \in S
    PROVE  /\ Append(q, m) \in Seq(S)
           /\ \A k \in 1 .. Len(Append(q, m)) :
                 \/ k \in 1 .. Len(q) /\ Append(q, m)[k] = q[k]
                 \/ k = Len(q) + 1 /\ Append(q, m)[k] = m
           /\ q = <<>> => Append(q, m) # <<>> /\ \A k \in 1 .. Len(Append(q, m)) : k = 1
<1>1. /\ Append(q, m) \in Seq(S) /\ Len(Append(q, m)) = Len(q) + 1 /\ Len(q) \in Nat
      /\ \A k \in 1 .. Len(q) : Append(q, m)[k] = q[k]
      /\ Append(q, m)[Len(q) + 1] = m
  BY AppendProperties, LenProperties
<1>2. q = <<>> => Len(q) = 0
  OBVIOUS
<1>3. \A k \in 1 .. Len(Append(q, m)) : k \in 1 .. Len(q) \/ k = Len(q) + 1
  BY <1>1
<1> QED BY <1>1, <1>2, <1>3, LenProperties, EmptySeq

LEMMA StartKnows ==
    ASSUME NamingInv, Knowledge, NEW s \in Services, Start(s)
    PROVE  Knowledge'
<1>0. NamingTypeOK
  BY DEF NamingInv
<1>1. /\ UNCHANGED <<table, appId, toSv, mySid, list>>
      /\ status[s] = "off" /\ status' = [status EXCEPT ![s] = "asking"]
      /\ link' = [link EXCEPT ![s] = "up"]
      /\ toNs' = [toNs EXCEPT ![s] = <<[kind |-> "RG", sid |-> Given[s]]>>]
  BY DEF Start, nsVars
<1>2. /\ status'[s] = "asking" /\ link'[s] = "up"
      /\ toNs'[s] = <<[kind |-> "RG", sid |-> Given[s]]>>
      /\ \A t \in Services \ {s} : UNCHANGED <<toNs[t], link[t], status[t]>>
  BY <1>0, <1>1 DEF NamingTypeOK
<1>3. Lives(s) /\ Asks(s) /\ HasSid(s) /\ Shape(s) /\ Knows(s)
  BY DEF Knowledge, KnownOf
<1>4. /\ appId[s] = NoSId /\ toSv[s] = <<>> /\ list[s] = Unlisted
      /\ \A e \in table : e.inst # s
  BY <1>1, <1>3 DEF Lives, Alive
<1>5. Lives(s)'
  BY <1>1, <1>2, <1>4 DEF Lives, Alive
<1>6. Asks(s)'
  BY <1>1, <1>2, <1>4 DEF Asks
<1>7. HasSid(s)'
  BY <1>1, <1>3, <1>4 DEF HasSid
<1>8. Shape(s)' /\ Knows(s)'
  BY <1>1, <1>3, <1>4 DEF Shape, Knows, RegisteredNow
<1>9. KnownOf(s)'
  BY <1>5, <1>6, <1>7, <1>8 DEF KnownOf
<1> QED BY <1>1, <1>2, <1>9, OfTheOthers

LEMMA EnterLoopKnows ==
    ASSUME NamingInv, Knowledge, NEW s \in Services, EnterLoop(s)
    PROVE  Knowledge'
<1>0. NamingTypeOK
  BY DEF NamingInv
<1>1. /\ UNCHANGED <<table, appId, toNs, toSv, link, mySid, list>>
      /\ status[s] = "ready" /\ status' = [status EXCEPT ![s] = "running"]
  BY DEF EnterLoop, nsVars
<1>2. status'[s] = "running" /\ \A t \in Services \ {s} : UNCHANGED status[t]
  BY <1>0, <1>1 DEF NamingTypeOK
<1>3. Lives(s) /\ Asks(s) /\ HasSid(s) /\ Shape(s) /\ Knows(s)
  BY DEF Knowledge, KnownOf
<1>4. Lives(s)'
  BY <1>1, <1>2, <1>3 DEF Lives, Alive
<1>5. Asks(s)'
  BY <1>1, <1>2, <1>3 DEF Asks
<1>6. HasSid(s)'
  BY <1>1, <1>3 DEF HasSid
<1>7. Shape(s)' /\ Knows(s)'
  BY <1>1, <1>3 DEF Shape, Knows, RegisteredNow
<1>8. KnownOf(s)'
  BY <1>4, <1>5, <1>6, <1>7 DEF KnownOf
<1> QED BY <1>1, <1>2, <1>8, OfTheOthers

(* the id is announced at most once in the list, that of its owner *)
LEMMA ListOfNames ==
    ASSUME NEW services \in SUBSET Listed, IsFiniteSet(services), NEW i \in SIds,
           \A n, o \in services : n.sid = o.sid => n = o
    PROVE  /\ ListOf(services)[i] = NoOne <=> \A n \in services : n.sid # i
           /\ \A n \in services : n.sid = i => ListOf(services)[i] = n.inst
<1> DEFINE same == {e \in services : e.sid = i}
<1>1. ListOf(services)[i] =
         IF same = {} THEN NoOne
         ELSE (CHOOSE e \in same : \A d \in same : d.rank <= e.rank).inst
  BY DEF ListOf
<1>2. ASSUME NEW n \in same
      PROVE  ListOf(services)[i] = n.inst
  <2>1. same = {n} /\ n.rank \in Nat
    BY DEF Listed
  <2>2. \A d \in same : d.rank <= n.rank
    BY <2>1
  <2>3. (CHOOSE e \in same : \A d \in same : d.rank <= e.rank) = n
    <3> HIDE DEF same
    <3> QED BY <2>1, <2>2
  <2> HIDE DEF same
  <2> QED BY <1>1, <2>3
<1>3. \A n \in same : n.inst # NoOne
  BY ConstantsAssumption DEF Listed
<1> QED BY <1>1, <1>2, <1>3

LEMMA ReadAnswerKnows ==
    ASSUME NamingInv, Knowledge, NEW s \in Services, ReadAnswer(s)
    PROVE  /\ Knowledge'
           /\ Head(toSv[s]).ok =>
                 \A i \in SIds : \A c \in Services :
                    list'[s][i] = c => Takes(list[s], toSv[s], i, c)
<1> DEFINE q == toSv[s]
           m == Head(q)
<1>0. NamingTypeOK
  BY DEF NamingInv
<1>1. /\ UNCHANGED <<table, appId, toNs, link>>
      /\ status[s] = "asking" /\ q # <<>> /\ m.kind = "RG"
      /\ toSv' = [toSv EXCEPT ![s] = Tail(q)]
  BY DEF ReadAnswer, nsVars, MessageIs, ReadBy
<1>2. q \in Seq(ToSv)
  BY <1>0 DEF NamingTypeOK
<1> HIDE DEF q, m
<1>3. toSv'[s] = Tail(q) /\ \A t \in Services \ {s} : UNCHANGED toSv[t]
  BY <1>0, <1>1 DEF NamingTypeOK
<1>4. Lives(s) /\ Asks(s) /\ HasSid(s) /\ Shape(s) /\ Knows(s)
  BY DEF Knowledge, KnownOf
<1>5. list[s] = Unlisted
  BY <1>1, <1>4 DEF Lives
<1>6. m \in ToSv /\ m = q[1] /\ 1 \in 1 .. Len(q)
  BY <1>1, <1>2, TailIsThere DEF m
<1>7. /\ m.sid \in SIds \cup {NoSId}
      /\ m.services \in SUBSET Listed /\ IsFiniteSet(m.services)
  BY <1>1, <1>6 DEF ToSv
<1>8. /\ m.ok => appId[s] = m.sid
      /\ \A n \in m.services : appId[n.inst] = n.sid
      /\ \A n, o \in m.services : n.sid = o.sid => n = o
  BY <1>1, <1>4, <1>6 DEF HasSid, q
<1>9. /\ status'[s] = (IF m.ok THEN "ready" ELSE "leaving")
      /\ mySid'[s] = (IF m.ok THEN m.sid ELSE mySid[s])
      /\ list'[s] = (IF m.ok THEN ListOf(m.services) ELSE list[s])
      /\ \A t \in Services \ {s} : UNCHANGED <<status[t], mySid[t], list[t]>>
  <2>1. CASE m.ok
    <3> /\ status' = [status EXCEPT ![s] = "ready"]
        /\ mySid' = [mySid EXCEPT ![s] = m.sid]
        /\ list' = [list EXCEPT ![s] = ListOf(m.services)]
      BY <2>1 DEF ReadAnswer, m, q
    <3> QED BY <1>0, <2>1 DEF NamingTypeOK
  <2>2. CASE ~m.ok
    <3> status' = [status EXCEPT ![s] = "leaving"] /\ UNCHANGED <<mySid, list>>
      BY <2>2 DEF ReadAnswer, m, q
    <3> QED BY <1>0, <2>2 DEF NamingTypeOK
  <2> QED BY <2>1, <2>2
<1>10. ASSUME NEW i \in SIds
       PROVE  \/ list'[s][i] = list[s][i]
              \/ list'[s][i] = NoOne
              \/ \E c \in Services : list'[s][i] = c /\ Announces(m, i, c)
  <2>1. CASE ~m.ok
    BY <2>1, <1>9
  <2>2. CASE m.ok /\ \A n \in m.services : n.sid # i
    BY <2>2, <1>7, <1>8, <1>9, ListOfNames
  <2>3. ASSUME m.ok, NEW n \in m.services, n.sid = i
        PROVE  list'[s][i] = n.inst /\ n.inst \in Services /\ Announces(m, i, n.inst)
    <3>1. n.inst \in Services
      BY <1>7 DEF Listed
    <3> QED BY <2>3, <3>1, <1>1, <1>7, <1>8, <1>9, ListOfNames DEF Announces
  <2> QED BY <2>1, <2>2, <2>3
<1>11. \A i \in SIds :
         /\ ShapeOf(list'[s], Tail(q), i)
         /\ \A c \in Services : Takes(list'[s], Tail(q), i, c) => Takes(list[s], q, i, c)
  <2> TAKE i \in SIds
  <2>1. ShapeOf(list[s], q, i)
    BY <1>4 DEF Shape, q
  <2> QED BY <1>1, <1>2, <1>10, <2>1, ShapeRead DEF m
<1>12. Lives(s)'
  BY <1>1, <1>4, <1>8, <1>9 DEF Lives, Alive
<1>13. Asks(s)'
  BY <1>1, <1>4 DEF Asks, q
<1>14. HasSid(s)'
  <2>1. \A i \in SIds : list'[s][i] # NoOne => appId[list'[s][i]] = i
    <3> SUFFICES ASSUME NEW i \in SIds, list'[s][i] # NoOne
                 PROVE  appId[list'[s][i]] = i
      OBVIOUS
    <3>1. CASE list'[s][i] = list[s][i]
      BY <3>1, <1>4 DEF HasSid
    <3>2. ASSUME NEW c \in Services, list'[s][i] = c, Announces(m, i, c)
          PROVE  appId[c] = i
      BY <3>2, <1>1, <1>8 DEF Announces
    <3> QED BY <3>1, <3>2, <1>10
  <2>2. \A k \in 1 .. Len(Tail(q)) : /\ Tail(q)[k].kind # "RG"
                                     /\ Tail(q)[k].kind = "RGB" =>
                                           appId[Tail(q)[k].inst] = Tail(q)[k].sid
    BY <1>1, <1>2, <1>4, TailIsThere DEF HasSid, q
  <2> QED BY <1>1, <1>3, <2>1, <2>2 DEF HasSid
<1>15. Shape(s)'
  BY <1>3, <1>11 DEF Shape
<1>16. Knows(s)'
  <2> SUFFICES ASSUME RegisteredNow(s), NEW i \in SIds
               PROVE  KnowsIn(table, s, i, list'[s], Tail(q), toNs[s], appId[s])
    BY <1>1, <1>3 DEF Knows, RegisteredNow
  <2>1. KnowsIn(table, s, i, list[s], q, toNs[s], appId[s])
    BY <1>4 DEF Knows, q
  <2>2. Head(q).kind # "UNB"
    BY <1>1 DEF m
  <2> QED BY <1>1, <1>2, <1>11, <2>1, <2>2, ReadKnows
<1>17. KnownOf(s)'
  BY <1>12, <1>13, <1>14, <1>15, <1>16 DEF KnownOf
<1>18. Knowledge'
  BY <1>1, <1>3, <1>9, <1>17, OfTheOthers
<1>19. ASSUME NEW i \in SIds, NEW c \in Services, list'[s][i] = c
       PROVE  Takes(list[s], q, i, c)
  BY <1>11, <1>19 DEF Takes
<1> QED BY <1>18, <1>19 DEF q

LEMMA ReadRegistrationKnows ==
    ASSUME NamingInv, Knowledge, NEW s \in Services, ReadRegistration(s)
    PROVE  Knowledge'
<1> DEFINE q == toSv[s]
           m == Head(q)
<1>0. NamingTypeOK
  BY DEF NamingInv
<1>1. /\ UNCHANGED <<table, appId, toNs, link, status, mySid>>
      /\ status[s] = "running" /\ q # <<>> /\ m.kind = "RGB"
      /\ toSv' = [toSv EXCEPT ![s] = Tail(q)]
      /\ list' = [list EXCEPT ![s][m.sid] = m.inst]
  BY DEF ReadRegistration, nsVars, MessageIs, ReadBy
<1>2. q \in Seq(ToSv)
  BY <1>0 DEF NamingTypeOK
<1> HIDE DEF q, m
<1>3. Lives(s) /\ Asks(s) /\ HasSid(s) /\ Shape(s) /\ Knows(s)
  BY DEF Knowledge, KnownOf
<1>4. m \in ToSv /\ m = q[1] /\ 1 \in 1 .. Len(q)
  BY <1>1, <1>2, TailIsThere DEF m
<1>5. m.sid \in SIds /\ m.inst \in Services
  BY <1>1, <1>4 DEF ToSv
<1>6. /\ toSv'[s] = Tail(q)
      /\ list'[s][m.sid] = m.inst
      /\ \A i \in SIds \ {m.sid} : list'[s][i] = list[s][i]
      /\ \A t \in Services \ {s} : UNCHANGED <<toSv[t], list[t]>>
  BY <1>0, <1>1, <1>5 DEF NamingTypeOK
<1>7. appId[m.inst] = m.sid
  BY <1>1, <1>3, <1>4 DEF HasSid, q
<1>8. \A i \in SIds :
         /\ ShapeOf(list'[s], Tail(q), i)
         /\ \A c \in Services : Takes(list'[s], Tail(q), i, c) => Takes(list[s], q, i, c)
  <2> TAKE i \in SIds
  <2>1. ShapeOf(list[s], q, i)
    BY <1>3 DEF Shape, q
  <2>2. \/ list'[s][i] = list[s][i]
        \/ \E c \in Services : list'[s][i] = c /\ Announces(m, i, c)
    BY <1>1, <1>5, <1>6 DEF Announces
  <2> QED BY <1>1, <1>2, <2>1, <2>2, ShapeRead DEF m
<1>9. Lives(s)'
  BY <1>1, <1>3 DEF Lives, Alive
<1>10. Asks(s)'
  BY <1>1, <1>3 DEF Asks
<1>11. HasSid(s)'
  <2>1. \A k \in 1 .. Len(Tail(q)) : /\ Tail(q)[k].kind # "RG"
                                     /\ Tail(q)[k].kind = "RGB" =>
                                           appId[Tail(q)[k].inst] = Tail(q)[k].sid
    BY <1>1, <1>2, <1>3, TailIsThere DEF HasSid, q
  <2> QED BY <1>1, <1>3, <1>5, <1>6, <1>7, <2>1 DEF HasSid
<1>12. Shape(s)'
  BY <1>6, <1>8 DEF Shape
<1>13. Knows(s)'
  <2> SUFFICES ASSUME RegisteredNow(s), NEW i \in SIds
               PROVE  KnowsIn(table, s, i, list'[s], Tail(q), toNs[s], appId[s])
    BY <1>1, <1>6 DEF Knows, RegisteredNow
  <2>1. KnowsIn(table, s, i, list[s], q, toNs[s], appId[s])
    BY <1>3 DEF Knows, q
  <2>2. Head(q).kind # "UNB"
    BY <1>1 DEF m
  <2> QED BY <1>1, <1>2, <1>8, <2>1, <2>2, ReadKnows
<1>14. KnownOf(s)'
  BY <1>9, <1>10, <1>11, <1>12, <1>13 DEF KnownOf
<1> QED BY <1>1, <1>6, <1>14, OfTheOthers

LEMMA ReadUnregistrationKnows ==
    ASSUME NamingInv, Knowledge, NEW s \in Services, ReadUnregistration(s)
    PROVE  Knowledge'
<1> DEFINE q == toSv[s]
           m == Head(q)
           p == toNs[s]
           ack == [kind |-> "ACK_UNI", sid |-> m.sid]
<1>0. NamingTypeOK
  BY DEF NamingInv
<1>1. /\ UNCHANGED <<table, appId, link, mySid>>
      /\ status[s] = "running" /\ q # <<>> /\ m.kind = "UNB"
      /\ toSv' = [toSv EXCEPT ![s] = Tail(q)]
      /\ list' = [list EXCEPT ![s][m.sid] = NoOne]
      /\ Ask(s, "ACK_UNI", m.sid)
      /\ status' = [status EXCEPT ![s] = IF mySid[s] = m.sid THEN "leaving" ELSE @]
  BY DEF ReadUnregistration, nsVars, MessageIs, ReadBy
<1>2. q \in Seq(ToSv) /\ p \in Seq(ToNs)
  BY <1>0 DEF NamingTypeOK
<1> HIDE DEF q, m, p
<1>3. Lives(s) /\ Asks(s) /\ HasSid(s) /\ Shape(s) /\ Knows(s)
  BY DEF Knowledge, KnownOf
<1>4. m \in ToSv /\ m = q[1] /\ 1 \in 1 .. Len(q)
  BY <1>1, <1>2, TailIsThere DEF m
<1>5. m.sid \in SIds
  BY <1>1, <1>4 DEF ToSv
<1>6. link[s] = "up"
  BY <1>1, <1>3 DEF Lives, Alive
<1>7. /\ toSv'[s] = Tail(q)
      /\ toNs'[s] = Append(p, ack)
      /\ list'[s][m.sid] = NoOne
      /\ \A i \in SIds \ {m.sid} : list'[s][i] = list[s][i]
      /\ status'[s] \in {"running", "leaving"}
      /\ \A t \in Services \ {s} : UNCHANGED <<toSv[t], toNs[t], list[t], status[t]>>
  BY <1>0, <1>1, <1>5, <1>6 DEF NamingTypeOK, Ask, p
<1>8. ack \in ToNs
  BY <1>5 DEF ToNs
<1> HIDE DEF ack
<1>9. ASSUME NEW i \in SIds
      PROVE  /\ ShapeOf(list'[s], Tail(q), i)
             /\ \A c \in Services : Takes(list'[s], Tail(q), i, c)
                                       => Takes(list[s], q, i, c) /\ i # m.sid
  <2>1. ShapeOf(list[s], q, i)
    BY <1>3 DEF Shape, q
  <2>2. list'[s][i] = list[s][i] \/ list'[s][i] = NoOne
    BY <1>7
  <2>3. i = m.sid => list'[s][i] = NoOne /\ Head(q).kind = "UNB" /\ Head(q).sid = i
    BY <1>1, <1>7 DEF m
  <2>4. /\ ShapeOf(list'[s], Tail(q), i)
        /\ \A c \in Services : Takes(list'[s], Tail(q), i, c) => Takes(list[s], q, i, c)
        /\ list'[s][i] = NoOne /\ Head(q).kind = "UNB" /\ Head(q).sid = i
                => \A c \in Services : ~Takes(list'[s], Tail(q), i, c)
    BY <1>1, <1>2, <2>1, <2>2, ShapeRead
  <2> QED BY <2>3, <2>4
<1>10. Lives(s)'
  BY <1>1, <1>3, <1>7 DEF Lives, Alive
<1>11. Asks(s)'
  <2>1. \A k \in 1 .. Len(p) : p[k].kind \notin {"RG", "RRG"}
    BY <1>1, <1>3 DEF Asks, p, q
  <2>2. \A k \in 1 .. Len(Append(p, ack)) : Append(p, ack)[k].kind \notin {"RG", "RRG"}
    <3> ack.kind = "ACK_UNI"
      BY DEF ack
    <3> QED BY <1>2, <1>8, <2>1, AppendIsThere
  <2> QED BY <1>7, <2>2 DEF Asks
<1>12. HasSid(s)'
  <2>1. \A k \in 1 .. Len(Tail(q)) : /\ Tail(q)[k].kind # "RG"
                                     /\ Tail(q)[k].kind = "RGB" =>
                                           appId[Tail(q)[k].inst] = Tail(q)[k].sid
    BY <1>1, <1>2, <1>3, TailIsThere DEF HasSid, q
  <2> QED BY <1>1, <1>3, <1>5, <1>7, <2>1 DEF HasSid
<1>13. Shape(s)'
  BY <1>7, <1>9 DEF Shape
<1>14. Knows(s)'
  <2> SUFFICES ASSUME RegisteredNow(s), NEW i \in SIds
               PROVE  KnowsIn(table, s, i, list'[s], Tail(q), Append(p, ack), appId[s])
    BY <1>1, <1>7 DEF Knows, RegisteredNow
  <2>1. KnowsIn(table, s, i, list[s], q, p, appId[s])
    BY <1>3 DEF Knows, q, p
  <2>2. /\ Cardinality(At(q, "UNB", i)) \in Nat
        /\ Cardinality(At(p, "ACK_UNI", i)) \in Nat
    BY <1>2, AtIsFinite
  <2>3. CASE i = m.sid
    <3>1. /\ Cardinality(At(Tail(q), "UNB", i)) = Cardinality(At(q, "UNB", i)) - 1
          /\ At(q, "UNB", i) # {}
      BY <1>1, <1>2, <2>3, TailAt DEF m
    <3>2. Cardinality(At(Append(p, ack), "ACK_UNI", i))
            = Cardinality(At(p, "ACK_UNI", i)) + 1
      BY <1>2, <1>8, <2>3, AppendAt DEF ack
    <3>3. Cardinality(At(Tail(q), "UNB", i)) + Cardinality(At(Append(p, ack), "ACK_UNI", i))
            = Cardinality(At(q, "UNB", i)) + Cardinality(At(p, "ACK_UNI", i))
      BY <2>2, <3>1, <3>2
    <3> QED BY <1>9, <2>1, <2>3, <3>1, <3>3 DEF KnowsIn
  <2>4. CASE i # m.sid
    <3>1. /\ Cardinality(At(Tail(q), "UNB", i)) = Cardinality(At(q, "UNB", i))
          /\ At(Tail(q), "UNB", i) = {} <=> At(q, "UNB", i) = {}
      BY <1>1, <1>2, <2>4, TailAt DEF m
    <3>2. At(Append(p, ack), "ACK_UNI", i) = At(p, "ACK_UNI", i)
      BY <1>2, <1>8, <2>4, AppendAt DEF ack
    <3> QED BY <1>9, <2>1, <3>1, <3>2 DEF KnowsIn
  <2> QED BY <2>3, <2>4
<1>15. KnownOf(s)'
  BY <1>10, <1>11, <1>12, <1>13, <1>14 DEF KnownOf
<1> QED BY <1>1, <1>7, <1>15, OfTheOthers

LEMMA GoneKnows ==
    ASSUME NamingInv, Knowledge, NEW s \in Services, Gone(s), status[s] \in Alive
    PROVE  Knowledge'
<1> DEFINE p == toNs[s]
           end == [kind |-> "disconnection", sid |-> NoSId]
<1>0. NamingTypeOK
  BY DEF NamingInv
<1>1. p \in Seq(ToNs) /\ end \in ToNs
  BY <1>0 DEF NamingTypeOK, ToNs
<1>2. Lives(s) /\ Asks(s) /\ HasSid(s) /\ Shape(s) /\ Knows(s)
  BY DEF Knowledge, KnownOf
<1>3. link[s] = "up"
  BY <1>2 DEF Lives
<1>4. /\ status'[s] = "dead" /\ toSv'[s] = <<>> /\ link'[s] = "none"
      /\ list'[s] = Unlisted /\ toNs'[s] = Append(p, end)
      /\ \A t \in Services \ {s} :
            UNCHANGED <<toNs[t], toSv[t], link[t], status[t], mySid[t], list[t]>>
      /\ UNCHANGED <<table, appId>>
  BY <1>0, <1>3 DEF Gone, Ask, NamingTypeOK, nsVars, p, end
<1> HIDE DEF p, end
<1>5. end.kind = "disconnection"
  BY DEF end
<1>6. \A k \in 1 .. Len(Append(p, end)) :
         \/ k \in 1 .. Len(p) /\ Append(p, end)[k] = p[k]
         \/ Append(p, end)[k] = end
  BY <1>1, AppendIsThere
<1>7. Lives(s)'
  BY <1>4 DEF Lives, Alive
<1>8. Asks(s)'
  BY <1>2, <1>4, <1>5, <1>6 DEF Asks, p
<1>9. HasSid(s)' /\ Shape(s)'
  BY <1>4 DEF HasSid, Shape, ShapeOf, Unlisted
<1>10. Knows(s)'
  <2> SUFFICES ASSUME RegisteredNow(s), NEW i \in SIds
               PROVE  KnowsIn(table, s, i, Unlisted, <<>>, Append(p, end), appId[s])
    BY <1>4 DEF Knows, RegisteredNow
  <2>1. KnowsIn(table, s, i, list[s], toSv[s], p, appId[s])
    BY <1>2 DEF Knows, p
  <2>2. At(Append(p, end), "ACK_UNI", i) = At(p, "ACK_UNI", i)
    BY <1>1, <1>5, AppendAt
  <2>3. /\ Cardinality(At(toSv[s], "UNB", i)) \in Nat
        /\ Cardinality(At(p, "ACK_UNI", i)) \in Nat
    BY <1>0, <1>1, AtIsFinite DEF NamingTypeOK
  <2>4. At(<<>>, "UNB", i) = {} /\ Cardinality(At(<<>>, "UNB", i)) = 0
    BY EmptyAt
  <2>5. \A c \in Services : ~Takes(Unlisted, <<>>, i, c)
    BY EmptyTakes
  <2>6. ASSUME NEW e \in table, e.sid = i
        PROVE  0 + Cardinality(At(p, "ACK_UNI", i)) <= e.acks[appId[s]]
    <3>1. e.acks[appId[s]] \in Nat
      <4>1. PICK d \in table : d.inst = s
        BY DEF RegisteredNow
      <4>2. appId[s] = d.sid
        BY <4>1 DEF Knowledge
      <4> QED BY <1>0, <4>2 DEF NamingTypeOK, Entries
    <3>2. Cardinality(At(toSv[s], "UNB", i)) + Cardinality(At(p, "ACK_UNI", i))
             <= e.acks[appId[s]]
      BY <2>1, <2>6 DEF KnowsIn
    <3> QED BY <2>3, <3>1, <3>2
  <2> QED BY <2>1, <2>2, <2>4, <2>5, <2>6 DEF KnowsIn
<1>11. KnownOf(s)'
  BY <1>7, <1>8, <1>9, <1>10 DEF KnownOf
<1> QED BY <1>4, <1>11, OfTheOthers

----------------------------------------------------------------------------
(* The steps of the naming service *)

(* it takes a message *)
LEMMA TakenLeaves ==
    ASSUME NamingTypeOK, NEW s \in Services, toNs[s] # <<>>, Taken(s)
    PROVE  /\ toNs'[s] = Tail(toNs[s])
           /\ \A t \in Services \ {s} : toNs'[t] = toNs[t]
           /\ \A t \in Services : /\ toNs[t] \in Seq(ToNs) /\ toNs'[t] \in Seq(ToNs)
                                  /\ toNs'[t] = toNs[t] \/ t = s
BY TakenFacts DEF Taken, NamingTypeOK

(* what is left of it is no request and no acknowledgement that was not    *)
(* there                                                                   *)
LEMMA TakenAsks ==
    ASSUME NamingTypeOK, NEW s \in Services, toNs[s] # <<>>, Taken(s),
           NEW t \in Services, Asks(t)
    PROVE  /\ \A k \in 1 .. Len(toNs'[t]) :
                 /\ toNs'[t][k].kind # "RRG"
                 /\ toNs'[t][k].kind = "RG" => t # s /\ toNs'[t] = toNs[t]
           /\ toNs[t] = <<>> => toNs'[t] = <<>>
<1>1. CASE t = s
  <2>1. toNs'[s] = Tail(toNs[s]) /\ toNs[s] \in Seq(ToNs)
    BY TakenLeaves
  <2>2. \A k \in 1 .. Len(Tail(toNs[s])) :
           k + 1 \in 1 .. Len(toNs[s]) /\ k + 1 # 1 /\ Tail(toNs[s])[k] = toNs[s][k + 1]
    BY <2>1, TailIsThere
  <2> QED BY <1>1, <2>1, <2>2 DEF Asks
<1>2. CASE t # s
  BY <1>2, TakenLeaves DEF Asks
<1> QED BY <1>1, <1>2

(* the ids of the entries are those of their services, and unique *)
LEMMA OneEntry ==
    ASSUME NamingInv, Knowledge, ~doubtful
    PROVE  /\ \A d, e \in table : d.sid = e.sid => d = e
           /\ \A d, e \in table : d.inst = e.inst => d = e
           /\ \A d \in table : d \in Entries /\ d.sid \in SIds /\ d.inst \in Services
                               /\ appId[d.inst] = d.sid
BY DEF NamingInv, NamingTypeOK, IdsAreUnique, Knowledge, Entries

(* The registration of e ends.  Everybody who is registered is told, and   *)
(* an acknowledgement is awaited of everybody who is told.                 *)
LEMMA RemovedKnows ==
    ASSUME NamingInv, Knowledge, ~doubtful, NEW e \in table, DoRemove(e),
           Tell(Accessible(e.inst, table), Unregistration(e)),
           NEW t \in Services, RegisteredNow(t)', NEW i \in SIds
    PROVE  /\ RegisteredNow(t) /\ t # e.inst
           /\ KnowsIn(table', t, i, list[t], toSv'[t], toNs[t], appId[t])
<1> DEFINE u == Unregistration(e)
           q == toSv[t]
           p == toNs[t]
           a == appId[t]
<1>0. NamingTypeOK /\ TableOK
  BY TableParts DEF NamingInv
<1>1. e \in Entries /\ e.sid \in SIds /\ e.inst \in Services
  BY OneEntry
<1>2. u \in ToSv /\ u.kind = "UNB" /\ u.sid = e.sid
  BY <1>1, UnregistrationFacts DEF Unregistration
<1>3. \A d \in table \ {e} : \E g \in table' :
         /\ g.sid = d.sid /\ g.inst = d.inst /\ g.waiting = d.waiting
         /\ g.acks = [d.acks EXCEPT ![e.sid] = 0]
  BY <1>0, RemovedFacts
<1>4. \A g \in table' :
         \/ \E d \in table \ {e} :
               /\ g.sid = d.sid /\ g.inst = d.inst /\ g.waiting = d.waiting
               /\ g.acks = [d.acks EXCEPT ![e.sid] = 0]
         \/ /\ g.sid = e.sid /\ g.inst = e.inst /\ g.waiting
            /\ \A b \in SIds \ {e.sid} :
                  /\ g.acks[b] >= e.acks[b]
                  /\ (\E d \in table \ {e} : ~d.waiting /\ d.sid = b)
                       => g.acks[b] >= e.acks[b] + 1
  BY <1>0, RemovedFacts
<1>5. \/ \A d \in table \ {e} : d.waiting
       \/ \E g \in table' : g.sid = e.sid /\ g.inst = e.inst /\ g.waiting
  BY <1>0, RemovedFacts
<1>6. PICK d \in table \ {e} : d.inst = t /\ ~d.waiting
  BY <1>4 DEF RegisteredNow
<1>7. RegisteredNow(t) /\ t # e.inst /\ a = d.sid /\ a \in SIds \ {e.sid}
  BY <1>6, OneEntry DEF RegisteredNow
<1>8. toSv'[t] = IF t \in Accessible(e.inst, table) THEN Told(t, u) ELSE q
  BY DEF Tell
<1>9. q \in Seq(ToSv) /\ p \in Seq(ToNs)
  BY <1>0 DEF NamingTypeOK
<1>10. toSv'[t] = q \/ toSv'[t] = Append(q, u)
  BY <1>8 DEF Told
<1>11. KnowsIn(table, t, i, list[t], q, p, a) /\ Lives(t)
  BY <1>7 DEF Knowledge, KnownOf, Knows
<1> SUFFICES KnowsIn(table', t, i, list[t], toSv'[t], p, a)
  BY <1>7
<1> HIDE DEF u, q, p, a
<1>12. \A c \in Services : Takes(list[t], toSv'[t], i, c) => Takes(list[t], q, i, c)
  <2> SUFFICES ASSUME NEW c \in Services, toSv'[t] = Append(q, u)
               PROVE  Takes(list[t], toSv'[t], i, c) => Takes(list[t], q, i, c)
    BY <1>10
  <2> ~Announces(u, i, c)
    BY <1>2 DEF Announces
  <2> QED BY <1>2, <1>9, AppendTakes
<1>13. /\ At(q, "UNB", i) # {} => At(toSv'[t], "UNB", i) # {}
       /\ Cardinality(At(toSv'[t], "UNB", i)) <= Cardinality(At(q, "UNB", i)) + 1
       /\ i # e.sid => At(toSv'[t], "UNB", i) = At(q, "UNB", i)
       /\ i = e.sid /\ toSv'[t] = Append(q, u) => At(toSv'[t], "UNB", i) # {}
       /\ Cardinality(At(q, "UNB", i)) \in Nat
       /\ Cardinality(At(toSv'[t], "UNB", i)) \in Nat
       /\ Cardinality(At(p, "ACK_UNI", i)) \in Nat
  <2>1. /\ Cardinality(At(q, "UNB", i)) \in Nat
        /\ Cardinality(At(p, "ACK_UNI", i)) \in Nat
    BY <1>9, AtIsFinite
  <2>2. CASE toSv'[t] = q /\ toSv'[t] # Append(q, u)
    BY <2>1, <2>2
  <2>3. CASE toSv'[t] = Append(q, u)
    <3>1. u.kind = "UNB" /\ u.sid = i
            => /\ Cardinality(At(Append(q, u), "UNB", i))
                    = Cardinality(At(q, "UNB", i)) + 1
               /\ At(Append(q, u), "UNB", i) # {}
      BY <1>2, <1>9, AppendAt
    <3>2. ~(u.kind = "UNB" /\ u.sid = i)
            => At(Append(q, u), "UNB", i) = At(q, "UNB", i)
      BY <1>2, <1>9, AppendAt
    <3> QED BY <1>2, <2>1, <2>3, <3>1, <3>2
  <2> QED BY <1>10, <2>2, <2>3
<1>14. CASE i = e.sid
  <2>1. PICK g \in table' : g.sid = e.sid /\ g.inst = e.inst /\ g.waiting
    BY <1>6, <1>5
  <2>2. ASSUME NEW c \in Services, Takes(list[t], toSv'[t], i, c)
        PROVE  c = e.inst /\ Net[c] = Net[t] /\ At(toSv'[t], "UNB", i) # {}
    <3>1. Takes(list[t], q, i, c)
      BY <1>12, <2>2
    <3>2. c = e.inst /\ Net[c] = Net[t]
      BY <1>11, <1>14, <3>1, OneEntry DEF KnowsIn
    <3>3. t \in Accessible(e.inst, table)
      BY <1>6, <3>2 DEF Accessible, CanAccess
    <3>4. link[t] = "up"
      <4>1. status[t] \in Alive
        <5> SUFFICES ASSUME status[t] \notin Alive PROVE FALSE
          OBVIOUS
        <5>1. status[t] \in {"off", "dead"}
          BY <1>0 DEF NamingTypeOK
        <5>2. q = <<>> /\ list[t] = Unlisted
          BY <1>11, <5>1 DEF Lives, q
        <5> QED BY <3>1, <5>2, EmptyTakes
      <4> QED BY <1>11, <4>1 DEF Lives
    <3>5. toSv'[t] = Append(q, u)
      BY <1>8, <3>3, <3>4 DEF Told, q
    <3> QED BY <1>13, <1>14, <3>2, <3>5
  <2>3. ASSUME NEW f \in table', f.sid = i
        PROVE  Cardinality(At(toSv'[t], "UNB", i)) + Cardinality(At(p, "ACK_UNI", i))
                  <= f.acks[a]
    <3>1. f.acks[a] >= e.acks[a] + 1
      <4>1. ~\E h \in table \ {e} : h.sid = e.sid
        BY OneEntry
      <4>2. \A b \in SIds \ {e.sid} : (\E h \in table \ {e} : ~h.waiting /\ h.sid = b)
                                          => f.acks[b] >= e.acks[b] + 1
        BY <4>1, <1>14, <1>4, <2>3
      <4> QED BY <4>2, <1>6, <1>7
    <3>2. Cardinality(At(q, "UNB", i)) + Cardinality(At(p, "ACK_UNI", i)) <= e.acks[a]
      BY <1>11, <1>14 DEF KnowsIn
    <3>3. e.acks[a] \in Nat /\ f.acks[a] \in Nat
      <4>1. table' \subseteq Entries
        BY <1>0, DoRemoveKeeps, TableParts, KeptIsOK DEF NamingInv, TableOK
      <4> QED BY <1>1, <1>7, <4>1 DEF Entries
    <3>4. Cardinality(At(toSv'[t], "UNB", i)) <= Cardinality(At(q, "UNB", i)) + 1
      BY <1>13
    <3>5. /\ Cardinality(At(q, "UNB", i)) \in Nat
          /\ Cardinality(At(toSv'[t], "UNB", i)) \in Nat
          /\ Cardinality(At(p, "ACK_UNI", i)) \in Nat
      BY <1>13
    <3> QED BY <3>1, <3>2, <3>3, <3>4, <3>5
  <2>4. \A c \in Services : Takes(list[t], toSv'[t], i, c) =>
           \E f \in table' : /\ f.sid = i /\ f.inst = c /\ Net[c] = Net[t]
                             /\ f.waiting => At(toSv'[t], "UNB", i) # {}
    BY <1>14, <2>1, <2>2
  <2>5. \E f \in table' : f.sid = i /\ f.waiting
    BY <1>14, <2>1
  <2> QED BY <2>3, <2>4, <2>5 DEF KnowsIn
<1>15. CASE i # e.sid
  <2>1. ASSUME NEW f \in table', f.sid = i
        PROVE  \E h \in table : h.sid = i /\ f.acks[a] = h.acks[a]
    <3>1. PICK h \in table \ {e} : /\ f.sid = h.sid
                                   /\ f.acks = [h.acks EXCEPT ![e.sid] = 0]
      BY <1>4, <1>15, <2>1
    <3>2. h.acks \in [SIds -> Nat]
      BY <1>0 DEF NamingTypeOK, Entries
    <3> QED BY <1>7, <2>1, <3>1, <3>2
  <2>2. \A h \in table : h.sid = i => \E g \in table' :
            g.sid = i /\ g.inst = h.inst /\ g.waiting = h.waiting
    BY <1>3, <1>15
  <2>3. At(toSv'[t], "UNB", i) = At(q, "UNB", i)
    BY <1>13, <1>15
  <2>4. \A c \in Services : Takes(list[t], toSv'[t], i, c) =>
           \E f \in table' : /\ f.sid = i /\ f.inst = c /\ Net[c] = Net[t]
                             /\ f.waiting => At(toSv'[t], "UNB", i) # {}
    BY <1>11, <1>12, <2>2, <2>3 DEF KnowsIn
  <2>5. At(toSv'[t], "UNB", i) # {} \/ At(p, "ACK_UNI", i) # {} =>
           \E f \in table' : f.sid = i /\ f.waiting
    BY <1>11, <2>2, <2>3 DEF KnowsIn
  <2>6. \A f \in table' : f.sid = i =>
           Cardinality(At(toSv'[t], "UNB", i)) + Cardinality(At(p, "ACK_UNI", i))
              <= f.acks[a]
    BY <1>11, <2>1, <2>3 DEF KnowsIn
  <2> QED BY <2>4, <2>5, <2>6 DEF KnowsIn
<1> QED BY <1>14, <1>15

(* The messages to the other services that are left, and the list, decide  *)
(* what a service will know.                                               *)
LEMMA RemovalKnows ==
    ASSUME NamingInv, Knowledge, ~doubtful, NEW e \in table, DoRemove(e),
           Tell(Accessible(e.inst, table), Unregistration(e)),
           UNCHANGED <<appId, link, status, mySid, list>>,
           \A t \in Services :
              /\ Asks(t) => \A k \in 1 .. Len(toNs'[t]) :
                    /\ toNs'[t][k].kind # "RRG"
                    /\ toNs'[t][k].kind = "RG" => toNs'[t] = toNs[t]
              /\ toNs[t] = <<>> => toNs'[t] = <<>>
              /\ \A i \in SIds :
                    /\ Cardinality(At(toNs'[t], "ACK_UNI", i))
                          = Cardinality(At(toNs[t], "ACK_UNI", i))
                    /\ At(toNs'[t], "ACK_UNI", i) = {} <=> At(toNs[t], "ACK_UNI", i) = {}
    PROVE  Knowledge'
<1> DEFINE u == Unregistration(e)
<1>0. NamingTypeOK /\ TableOK
  BY TableParts DEF NamingInv
<1>1. u \in ToSv /\ u.kind = "UNB"
  BY OneEntry, UnregistrationFacts DEF Unregistration
<1>2. \A g \in table' : \E d \in table : g.sid = d.sid /\ g.inst = d.inst
  BY <1>0, RemovedFacts
<1>3. \A t \in Services : toSv'[t] = IF t \in Accessible(e.inst, table) THEN Told(t, u)
                                     ELSE toSv[t]
  BY DEF Tell
<1> HIDE DEF u
<1>4. ASSUME NEW t \in Services
      PROVE  /\ toSv'[t] = toSv[t] \/ toSv'[t] = Append(toSv[t], u)
             /\ (\A d \in table : d.inst # t) => toSv'[t] = toSv[t]
             /\ status[t] \notin Alive => toSv'[t] = toSv[t]
  <2>1. Lives(t)
    BY DEF Knowledge, KnownOf
  <2>2. status[t] \notin Alive => link[t] # "up"
    BY <2>1 DEF Lives
  <2>3. t \in Accessible(e.inst, table) => \E d \in table : d.inst = t
    BY DEF Accessible
  <2> QED BY <1>3, <2>2, <2>3 DEF Told
<1>5. \A d \in table' : appId'[d.inst] = d.sid
  BY <1>2 DEF Knowledge
<1>6. ASSUME NEW t \in Services
      PROVE  KnownOf(t)'
  <2>1. Lives(t) /\ Asks(t) /\ HasSid(t) /\ Shape(t) /\ Knows(t)
    BY DEF Knowledge, KnownOf
  <2>2. toSv[t] \in Seq(ToSv)
    BY <1>0 DEF NamingTypeOK
  <2>3. Lives(t)'
    BY <1>2, <1>4, <2>1 DEF Lives
  <2>4. Asks(t)'
    BY <1>2, <1>4, <2>1 DEF Asks
  <2>5. HasSid(t)'
    <3>1. \A k \in 1 .. Len(toSv'[t]) :
             \/ k \in 1 .. Len(toSv[t]) /\ toSv'[t][k] = toSv[t][k]
             \/ toSv'[t][k].kind = "UNB"
      <4>1. CASE toSv'[t] = toSv[t]
        BY <4>1
      <4>2. CASE toSv'[t] = Append(toSv[t], u)
        <5>1. \A k \in 1 .. Len(Append(toSv[t], u)) :
                 \/ k \in 1 .. Len(toSv[t]) /\ Append(toSv[t], u)[k] = toSv[t][k]
                 \/ Append(toSv[t], u)[k] = u
          BY <1>1, <2>2, AppendIsThere
        <5> QED BY <4>2, <5>1, <1>1
      <4> QED BY <4>1, <4>2, <1>4
    <3> QED BY <2>1, <3>1 DEF HasSid
  <2>6. Shape(t)'
    <3> SUFFICES ASSUME NEW i \in SIds PROVE ShapeOf(list[t], toSv'[t], i)
      BY DEF Shape
    <3>1. ShapeOf(list[t], toSv[t], i)
      BY <2>1 DEF Shape
    <3>2. \A c \in Services : ~Announces(u, i, c)
      BY <1>1 DEF Announces
    <3>3. ShapeOf(list[t], Append(toSv[t], u), i)
      BY <1>1, <2>2, <3>1, <3>2, ShapeAppended
    <3> QED BY <1>4, <3>1, <3>3
  <2>7. Knows(t)'
    <3> SUFFICES ASSUME RegisteredNow(t)', NEW i \in SIds
                 PROVE  KnowsIn(table', t, i, list[t], toSv'[t], toNs'[t], appId[t])
      BY DEF Knows
    <3>1. KnowsIn(table', t, i, list[t], toSv'[t], toNs[t], appId[t])
      BY RemovedKnows
    <3>2. /\ Cardinality(At(toNs'[t], "ACK_UNI", i))
                = Cardinality(At(toNs[t], "ACK_UNI", i))
          /\ At(toNs'[t], "ACK_UNI", i) = {} <=> At(toNs[t], "ACK_UNI", i) = {}
      OBVIOUS
    <3> QED BY <3>1, <3>2 DEF KnowsIn
  <2> QED BY <2>3, <2>4, <2>5, <2>6, <2>7 DEF KnownOf
<1> QED BY <1>5, <1>6 DEF Knowledge

(* a service whose messages to the naming service are fewer, and are no    *)
(* requests                                                                *)
LEMMA NsDisconnectKnows ==
    ASSUME NamingInv, Knowledge, ~doubtful, NEW s \in Services, NsDisconnect(s)
    PROVE  /\ Knowledge'
           /\ \/ UNCHANGED <<table, toSv>>
              \/ \E e \in table : /\ e.inst = s /\ DoRemove(e)
                                  /\ Tell(Accessible(e.inst, table), Unregistration(e))
<1> DEFINE mine == {e \in table : e.inst = s /\ ~e.waiting}
<1>0. NamingTypeOK
  BY DEF NamingInv
<1>1. /\ toNs[s] # <<>> /\ Head(toNs[s]).kind = "disconnection" /\ Taken(s)
      /\ UNCHANGED <<appId, link, status, mySid, list>>
  BY DEF NsDisconnect, clientVars
<1>2. ASSUME NEW t \in Services
      PROVE  /\ Asks(t) => \A k \in 1 .. Len(toNs'[t]) :
                    /\ toNs'[t][k].kind # "RRG"
                    /\ toNs'[t][k].kind = "RG" => toNs'[t] = toNs[t]
             /\ toNs[t] = <<>> => toNs'[t] = <<>>
             /\ \A i \in SIds :
                    /\ Cardinality(At(toNs'[t], "ACK_UNI", i))
                          = Cardinality(At(toNs[t], "ACK_UNI", i))
                    /\ At(toNs'[t], "ACK_UNI", i) = {} <=> At(toNs[t], "ACK_UNI", i) = {}
  <2>1. /\ toNs'[s] = Tail(toNs[s])
        /\ \A r \in Services \ {s} : toNs'[r] = toNs[r]
        /\ toNs[t] \in Seq(ToNs) /\ toNs'[t] \in Seq(ToNs)
    BY <1>0, <1>1, TakenLeaves
  <2>2. toNs'[t] = toNs[t] \/ (toNs[t] # <<>> /\ Head(toNs[t]).kind # "ACK_UNI"
                                              /\ toNs'[t] = Tail(toNs[t]))
    BY <1>1, <2>1
  <2> QED BY <1>0, <1>1, <2>1, <2>2, TakenAsks, NotAcknowledging
<1>3. CASE mine = {}
  <2>1. UNCHANGED <<table, toSv>>
    BY <1>3 DEF NsDisconnect
  <2>2. ASSUME NEW t \in Services
        PROVE  KnownOf(t)'
    <3>1. Lives(t) /\ Asks(t) /\ HasSid(t) /\ Shape(t) /\ Knows(t)
      BY DEF Knowledge, KnownOf
    <3>2. Lives(t)'
      BY <1>1, <1>2, <2>1, <3>1 DEF Lives
    <3>3. Asks(t)'
      BY <1>1, <1>2, <2>1, <3>1 DEF Asks
    <3>4. HasSid(t)' /\ Shape(t)'
      BY <1>1, <2>1, <3>1 DEF HasSid, Shape
    <3>5. Knows(t)'
      BY <1>1, <1>2, <2>1, <3>1 DEF Knows, KnowsIn, RegisteredNow
    <3> QED BY <3>2, <3>3, <3>4, <3>5 DEF KnownOf
  <2> QED BY <1>1, <2>1, <2>2 DEF Knowledge
<1>4. CASE mine # {}
  <2> DEFINE e == First(mine)
  <2>1. DoRemove(e) /\ Tell(Accessible(s, table), Unregistration(e))
    BY <1>4 DEF NsDisconnect
  <2>2. e \in mine
    <3> mine \in SUBSET Entries
      BY <1>0 DEF NamingTypeOK
    <3> HIDE DEF mine
    <3> QED BY <1>4, FirstIsIn
  <2>3. e \in table /\ e.inst = s
    BY <2>2
  <2> HIDE DEF e, mine
  <2>4. Tell(Accessible(e.inst, table), Unregistration(e))
    BY <2>1, <2>3
  <2> QED BY <1>1, <1>2, <2>1, <2>3, <2>4, RemovalKnows
<1> QED BY <1>3, <1>4

LEMMA KillKnows ==
    ASSUME NamingInv, Knowledge, ~doubtful, NEW i \in SIds, Kill(i)
    PROVE  /\ Knowledge'
           /\ \E e \in table : /\ DoRemove(e)
                               /\ Tell(Accessible(e.inst, table), Unregistration(e))
<1> DEFINE same == {d \in table : d.sid = i}
           e == First(same)
<1>0. NamingTypeOK
  BY DEF NamingInv
<1>1. /\ DoRemove(e) /\ Tell(Accessible(e.inst, table), Unregistration(e))
      /\ UNCHANGED <<appId, toNs, link, status, mySid, list>>
  BY DEF Kill, clientVars
<1>2. e \in table
  <2> same \in SUBSET Entries /\ same # {}
    BY <1>0 DEF Kill, Used, NamingTypeOK
  <2> e \in same
    <3> HIDE DEF same
    <3> QED BY FirstIsIn
  <2> QED OBVIOUS
<1> HIDE DEF e
<1>3. \A t \in Services : Asks(t) => \A k \in 1 .. Len(toNs[t]) : toNs[t][k].kind # "RRG"
  BY DEF Asks
<1> QED BY <1>1, <1>2, <1>3, RemovalKnows

(* What is known after entries whose acknowledgements are complete are     *)
(* removed from T, to be the list                                          *)
LEMMA ReleaseKnows ==
    ASSUME NamingInv, Knowledge, NEW T \in SUBSET Entries,
           table' = T \ Acknowledged(T),
           \A f \in T : \E e \in table : /\ f.sid = e.sid /\ f.inst = e.inst
                                         /\ f.waiting = e.waiting,
           \A d, e \in T : d.sid = e.sid => d = e,
           UNCHANGED <<appId, toSv, link, status, mySid, list>>,
           \A t \in Services :
              /\ Asks(t) => \A k \in 1 .. Len(toNs'[t]) :
                    /\ toNs'[t][k].kind # "RRG"
                    /\ toNs'[t][k].kind = "RG" => toNs'[t] = toNs[t]
              /\ toNs[t] = <<>> => toNs'[t] = <<>>
              /\ toNs'[t] \in Seq(ToNs)
              /\ RegisteredNow(t) => \A i \in SIds :
                    KnowsIn(T, t, i, list[t], toSv[t], toNs'[t], appId[t])
    PROVE  /\ Knowledge'
           /\ \A t \in Services : RegisteredNow(t) =>
                 \A e \in Acknowledged(T) : \A c \in Services : list[t][e.sid] # c
<1>0. NamingTypeOK
  BY DEF NamingInv
<1>1. table' \subseteq T
  OBVIOUS
<1>2. \A d \in table' : appId'[d.inst] = d.sid
  BY <1>1 DEF Knowledge
<1>3. ASSUME NEW t \in Services, RegisteredNow(t), NEW i \in SIds
      PROVE  /\ KnowsIn(T \ Acknowledged(T), t, i, list[t], toSv[t], toNs'[t], appId[t])
             /\ \A e \in Acknowledged(T) : e.sid = i => At(toSv[t], "UNB", i) = {}
  <2>1. toSv[t] \in Seq(ToSv) /\ toNs'[t] \in Seq(ToNs)
    BY <1>0 DEF NamingTypeOK
  <2>2. appId[t] \in SIds
    <3>1. PICK e \in table : e.inst = t
      BY <1>3 DEF RegisteredNow
    <3> QED BY <1>0, <3>1 DEF Knowledge, NamingTypeOK, Entries
  <2>3. KnowsIn(T, t, i, list[t], toSv[t], toNs'[t], appId[t])
    BY <1>3
  <2> QED BY <2>1, <2>2, <2>3, ReleaseKeeps
<1>4. ASSUME NEW t \in Services
      PROVE  RegisteredNow(t)' => RegisteredNow(t)
  BY <1>1 DEF RegisteredNow
<1>5. ASSUME NEW t \in Services
      PROVE  KnownOf(t)'
  <2>1. Lives(t) /\ Asks(t) /\ HasSid(t) /\ Shape(t)
    BY DEF Knowledge, KnownOf
  <2>2. Lives(t)'
    BY <1>1, <2>1 DEF Lives
  <2>3. Asks(t)'
    BY <1>1, <2>1 DEF Asks
  <2>4. HasSid(t)' /\ Shape(t)'
    BY <2>1 DEF HasSid, Shape
  <2>5. Knows(t)'
    BY <1>3, <1>4 DEF Knows
  <2> QED BY <2>2, <2>3, <2>4, <2>5 DEF KnownOf
<1>6. ASSUME NEW t \in Services, RegisteredNow(t), NEW e \in Acknowledged(T),
             NEW c \in Services, list[t][e.sid] = c
      PROVE  FALSE
  <2>1. e \in T /\ e.waiting /\ e.sid \in SIds
    BY DEF Acknowledged, Entries
  <2>2. Takes(list[t], toSv[t], e.sid, c)
    BY <1>6 DEF Takes
  <2>3. PICK f \in T \ Acknowledged(T) : f.sid = e.sid
    BY <1>3, <1>6, <2>1, <2>2 DEF KnowsIn
  <2> QED BY <1>6, <2>1, <2>3
<1> QED BY <1>2, <1>5, <1>6 DEF Knowledge

LEMMA NsCheckKnows ==
    ASSUME NamingInv, Knowledge, ~doubtful, NsCheck
    PROVE  /\ Knowledge'
           /\ \A t \in Services : RegisteredNow(t) =>
                 \A e \in Acknowledged(table) : \A c \in Services : list[t][e.sid] # c
<1>0. NamingTypeOK
  BY DEF NamingInv
<1>1. /\ table' = table \ Acknowledged(table)
      /\ UNCHANGED <<appId, toNs, toSv, link, status, mySid, list>>
  BY DEF NsCheck, clientVars
<1>2. \A d, e \in table : d.sid = e.sid => d = e
  BY OneEntry
<1>3. ASSUME NEW t \in Services
      PROVE  /\ Asks(t) => \A k \in 1 .. Len(toNs[t]) : toNs[t][k].kind # "RRG"
             /\ toNs[t] \in Seq(ToNs)
             /\ RegisteredNow(t) => \A i \in SIds :
                    KnowsIn(table, t, i, list[t], toSv[t], toNs[t], appId[t])
  BY <1>0 DEF Asks, NamingTypeOK, Knowledge, KnownOf, Knows
<1>4. table \in SUBSET Entries
  BY <1>0 DEF NamingTypeOK
<1> QED BY <1>1, <1>2, <1>3, <1>4, ReleaseKnows

LEMMA NsAckKnows ==
    ASSUME NamingInv, Knowledge, ~doubtful, NEW s \in Services, NsAck(s), ~doubtful'
    PROVE  /\ Knowledge'
           /\ \/ UNCHANGED table
              \/ \E T \in SUBSET Entries :
                    /\ table' = T \ Acknowledged(T)
                    /\ \A f \in T : \E d \in table : /\ f.sid = d.sid /\ f.inst = d.inst
                                                     /\ f.waiting = d.waiting
                    /\ \A d \in table : \E f \in T : /\ f.sid = d.sid /\ f.inst = d.inst
                                                     /\ f.waiting = d.waiting
                    /\ \A d, f \in T : d.sid = f.sid => d = f
                    /\ \A t \in Services : RegisteredNow(t) =>
                          \A f \in Acknowledged(T) : \A c \in Services : list[t][f.sid] # c
<1> DEFINE m == Head(toNs[s])
           waiting == {d \in table : /\ d.sid = m.sid /\ d.waiting
                                     /\ appId[s] # NoSId /\ d.acks[appId[s]] > 0}
           e == First(waiting)
           b == appId[s]
           T == Acked(table, e, b)
<1>0. NamingTypeOK
  BY DEF NamingInv
<1>1. /\ toNs[s] # <<>> /\ m.kind = "ACK_UNI" /\ Taken(s)
      /\ waiting # {} => RegisteredNow(s)
      /\ UNCHANGED <<appId, toSv, link, status, mySid, list>>
  BY DEF NsAck, clientVars
<1>2. /\ toNs'[s] = Tail(toNs[s])
      /\ \A t \in Services \ {s} : toNs'[t] = toNs[t]
      /\ \A t \in Services : toNs[t] \in Seq(ToNs) /\ toNs'[t] \in Seq(ToNs)
  BY <1>0, <1>1, TakenLeaves
<1>3. ASSUME NEW t \in Services
      PROVE  Lives(t) /\ Asks(t) /\ HasSid(t) /\ Shape(t) /\ Knows(t)
  BY DEF Knowledge, KnownOf
<1>4. ASSUME NEW t \in Services
      PROVE  /\ Asks(t) => \A k \in 1 .. Len(toNs'[t]) :
                    /\ toNs'[t][k].kind # "RRG"
                    /\ toNs'[t][k].kind = "RG" => toNs'[t] = toNs[t]
             /\ toNs[t] = <<>> => toNs'[t] = <<>>
  BY <1>0, <1>1, <1>3, TakenAsks
<1>5. CASE waiting = {}
  <2>1. table' = table
    BY <1>5 DEF NsAck
  <2>2. ASSUME NEW t \in Services
        PROVE  KnownOf(t)'
    <3>1. Lives(t)' /\ Asks(t)' /\ HasSid(t)' /\ Shape(t)'
      BY <1>1, <1>4, <1>3, <2>1 DEF Lives, Asks, HasSid, Shape
    <3>2. ASSUME t # s PROVE Knows(t)'
      <4>1. toNs'[t] = toNs[t]
        BY <1>2, <3>2
      <4>2. RegisteredNow(t)' => RegisteredNow(t)
        BY <2>1 DEF RegisteredNow
      <4> QED BY <1>1, <1>3, <2>1, <4>1, <4>2 DEF Knows
    <3>3. ASSUME t = s PROVE Knows(t)'
      <4> SUFFICES ASSUME RegisteredNow(s), NEW i \in SIds
                   PROVE  KnowsIn(table, s, i, list[s], toSv[s], Tail(toNs[s]), appId[s])
        <5>1. RegisteredNow(s)' => RegisteredNow(s)
          BY <2>1 DEF RegisteredNow
        <5> HIDE DEF m, waiting, e, b, T
        <5> QED BY <1>1, <1>2, <2>1, <3>3, <5>1 DEF Knows
      <4>1. KnowsIn(table, s, i, list[s], toSv[s], toNs[s], appId[s])
        BY <1>3 DEF Knows
      <4>2. /\ Cardinality(At(Tail(toNs[s]), "ACK_UNI", i))
                  <= Cardinality(At(toNs[s], "ACK_UNI", i))
            /\ At(Tail(toNs[s]), "ACK_UNI", i) # {} => At(toNs[s], "ACK_UNI", i) # {}
            /\ Cardinality(At(Tail(toNs[s]), "ACK_UNI", i)) \in Nat
            /\ Cardinality(At(toNs[s], "ACK_UNI", i)) \in Nat
            /\ Cardinality(At(toSv[s], "UNB", i)) \in Nat
        <5>1. toNs[s] \in Seq(ToNs) /\ Tail(toNs[s]) \in Seq(ToNs) /\ toSv[s] \in Seq(ToSv)
          BY <1>0, <1>2 DEF NamingTypeOK
        <5>2. /\ Cardinality(At(Tail(toNs[s]), "ACK_UNI", i)) \in Nat
              /\ Cardinality(At(toNs[s], "ACK_UNI", i)) \in Nat
              /\ Cardinality(At(toSv[s], "UNB", i)) \in Nat
          BY <5>1, AtIsFinite
        <5>3. /\ \/ Cardinality(At(Tail(toNs[s]), "ACK_UNI", i))
                        = Cardinality(At(toNs[s], "ACK_UNI", i)) - 1
                 \/ Cardinality(At(Tail(toNs[s]), "ACK_UNI", i))
                        = Cardinality(At(toNs[s], "ACK_UNI", i))
              /\ At(Tail(toNs[s]), "ACK_UNI", i) # {} => At(toNs[s], "ACK_UNI", i) # {}
          BY <1>1, <5>1, TailAt
        <5> QED BY <5>2, <5>3
      <4>3. ASSUME NEW d \in table, d.sid = i
            PROVE  Cardinality(At(toSv[s], "UNB", i))
                     + Cardinality(At(Tail(toNs[s]), "ACK_UNI", i)) <= d.acks[appId[s]]
        <5>1. Cardinality(At(toSv[s], "UNB", i)) + Cardinality(At(toNs[s], "ACK_UNI", i))
                 <= d.acks[appId[s]]
          BY <4>1, <4>3 DEF KnowsIn
        <5>2. d.acks[appId[s]] \in Nat
          <6>1. PICK f \in table : f.inst = s
            BY DEF RegisteredNow
          <6> QED BY <1>0, <6>1 DEF Knowledge, NamingTypeOK, Entries
        <5> QED BY <4>2, <5>1, <5>2
      <4> QED BY <4>1, <4>2, <4>3 DEF KnowsIn
    <3> QED BY <3>1, <3>2, <3>3 DEF KnownOf
  <2> QED BY <1>1, <2>1, <2>2 DEF Knowledge
<1>6. CASE waiting # {}
  <2>1. e \in waiting
    <3> waiting \in SUBSET Entries
      BY <1>0 DEF NamingTypeOK
    <3> HIDE DEF waiting
    <3> QED BY <1>6, FirstIsIn
  <2>2. e \in table /\ e \in Entries /\ e.sid = m.sid /\ e.waiting /\ e.acks[b] > 0
        /\ b # NoSId
    BY <1>0, <2>1 DEF NamingTypeOK
  <2>3. b \in SIds /\ RegisteredNow(s)
    BY <1>0, <1>1, <1>6, <2>2 DEF NamingTypeOK
  <2>4. table' = T \ Acknowledged(T)
    BY <1>6 DEF NsAck, Acked, Less
  <2> HIDE DEF e, waiting, T
  <2>5. /\ Less(e, b) \in Entries
        /\ Less(e, b).sid = e.sid /\ Less(e, b).inst = e.inst
        /\ Less(e, b).waiting = e.waiting
    BY <2>2, <2>3, AckedFacts
  <2>6. T = (table \ {e}) \cup {Less(e, b)}
    BY DEF T, Acked
  <2>7. /\ T \in SUBSET Entries
        /\ \A f \in T : \E d \in table : /\ f.sid = d.sid /\ f.inst = d.inst
                                         /\ f.waiting = d.waiting
        /\ \A d \in table : \E f \in T : /\ f.sid = d.sid /\ f.inst = d.inst
                                         /\ f.waiting = d.waiting
        /\ \A d, f \in T : d.sid = f.sid => d = f
    <3>1. T \in SUBSET Entries
      BY <1>0, <2>5, <2>6 DEF NamingTypeOK
    <3>2. /\ \A f \in T : \E d \in table : /\ f.sid = d.sid /\ f.inst = d.inst
                                          /\ f.waiting = d.waiting
          /\ \A d \in table : \E f \in T : /\ f.sid = d.sid /\ f.inst = d.inst
                                          /\ f.waiting = d.waiting
      BY <2>2, <2>5, <2>6
    <3>3. \A d, f \in table : d.sid = f.sid => d = f
      BY OneEntry
    <3>4. \A d, f \in T : d.sid = f.sid => d = f
      BY <2>2, <2>5, <2>6, <3>3
    <3> QED BY <3>1, <3>2, <3>4
  <2>8. ASSUME NEW t \in Services, RegisteredNow(t), NEW i \in SIds
        PROVE  KnowsIn(T, t, i, list[t], toSv[t], toNs'[t], appId[t])
    <3>1. KnowsIn(table, t, i, list[t], toSv[t], toNs[t], appId[t])
      BY <1>3, <2>8 DEF Knows
    <3>2. appId[t] \in SIds /\ (t # s => appId[t] # b)
      BY <2>3, <2>8, OneEntry DEF RegisteredNow
    <3>3. table \in SUBSET Entries /\ toSv[t] \in Seq(ToSv) /\ toNs[t] \in Seq(ToNs)
      BY <1>0 DEF NamingTypeOK
    <3>4. /\ appId[t] # b => KnowsIn(T, t, i, list[t], toSv[t], toNs[t], appId[t])
          /\ toNs[t] # <<>> /\ Head(toNs[t]).kind = "ACK_UNI" /\ Head(toNs[t]).sid = e.sid
                => KnowsIn(T, t, i, list[t], toSv[t], Tail(toNs[t]), appId[t])
      BY <2>2, <2>3, <3>1, <3>2, <3>3, AckKeeps DEF T
    <3> QED BY <1>1, <1>2, <2>2, <3>2, <3>4
  <2> HIDE DEF b, m
  <2>9. /\ Knowledge'
        /\ \A t \in Services : RegisteredNow(t) =>
              \A f \in Acknowledged(T) : \A c \in Services : list[t][f.sid] # c
    BY <1>1, <1>2, <1>4, <2>4, <2>7, <2>8, ReleaseKnows
  <2> QED BY <2>4, <2>7, <2>9
<1> QED BY <1>5, <1>6

(* the answer names those the service can access, each once *)
LEMMA AnswerFacts ==
    ASSUME NEW E \in SUBSET Entries, IsFiniteSet(E), NEW s \in Services, NEW sid \in SIds,
           \A d, e \in E : d.sid = e.sid => d = e
    PROVE  /\ Answer(TRUE, sid, Replied(s, E)) \in ToSv
           /\ \A n \in Replied(s, E) : \E e \in E :
                 e.sid = n.sid /\ e.inst = n.inst /\ CanAccess(s, e)
           /\ \A n, o \in Replied(s, E) : n.sid = o.sid => n = o
<1>1. Replied(s, E) \in {L \in SUBSET Listed : IsFiniteSet(L)}
  BY RepliedFacts
<1>2. Answer(TRUE, sid, Replied(s, E)) \in ToSv
  BY <1>1 DEF Answer, ToSv
<1>3. \A n \in Replied(s, E) : \E e \in E :
         n = [rank |-> e.rank, sid |-> e.sid, inst |-> e.inst] /\ CanAccess(s, e)
  BY DEF Replied
<1>4. \A n \in Replied(s, E) : \E e \in E :
         e.sid = n.sid /\ e.inst = n.inst /\ CanAccess(s, e)
  BY <1>3
<1>5. ASSUME NEW n \in Replied(s, E), NEW o \in Replied(s, E), n.sid = o.sid
      PROVE  n = o
  <2>1. PICK d \in E : n = [rank |-> d.rank, sid |-> d.sid, inst |-> d.inst]
    BY <1>3
  <2>2. PICK e \in E : o = [rank |-> e.rank, sid |-> e.sid, inst |-> e.inst]
    BY <1>3
  <2>3. d.sid = e.sid
    BY <1>5, <2>1, <2>2
  <2> QED BY <2>1, <2>2, <2>3
<1> QED BY <1>2, <1>4, <1>5

(* the service asks, and is refused *)
LEMMA RefusedKnows ==
    ASSUME NamingInv, Knowledge, NEW s \in Services, Taken(s), toNs[s] # <<>>,
           Head(toNs[s]).kind = "RG",
           Tell({s}, Answer(FALSE, NoSId, {})),
           UNCHANGED <<table, appId, link, status, mySid, list>>
    PROVE  Knowledge'
<1> DEFINE m == Answer(FALSE, NoSId, {})
<1>0. NamingTypeOK
  BY DEF NamingInv
<1>1. m.kind = "RG" /\ m.ok = FALSE /\ m.services = {} /\ m \in ToSv
  <2> {} \in {L \in SUBSET Listed : IsFiniteSet(L)}
    BY FS_EmptySet
  <2> QED BY DEF Answer, ToSv
<1>2. /\ toSv'[s] = IF link[s] = "up" THEN Append(toSv[s], m) ELSE toSv[s]
      /\ \A t \in Services \ {s} : UNCHANGED <<toSv[t], toNs[t]>>
      /\ toNs'[s] = Tail(toNs[s]) /\ toNs[s] \in Seq(ToNs) /\ toNs'[s] \in Seq(ToNs)
  BY <1>0, TakenLeaves DEF Tell, Told
<1> HIDE DEF m
<1>3. Lives(s) /\ Asks(s) /\ HasSid(s) /\ Shape(s) /\ Knows(s)
  BY DEF Knowledge, KnownOf
<1>4. /\ toNs[s][1].kind = "RG" /\ 1 \in 1 .. Len(toNs[s])
      /\ \A k \in 1 .. Len(toNs'[s]) : /\ k + 1 \in 1 .. Len(toNs[s]) /\ k + 1 # 1
                                       /\ toNs'[s][k] = toNs[s][k + 1]
  BY <1>2, TailIsThere
<1>5. /\ toSv[s] = <<>> /\ status[s] \in {"asking", "dead"}
      /\ \A e \in table : e.inst # s
  BY <1>3, <1>4 DEF Asks
<1>6. \A k \in 1 .. Len(toNs'[s]) : toNs'[s][k].kind \notin {"RG", "RRG"}
  BY <1>3, <1>4 DEF Asks
<1>7. \A k \in 1 .. Len(toSv'[s]) : k = 1 /\ toSv'[s][k] = m /\ status[s] = "asking"
  <2>1. CASE link[s] = "up"
    <3>1. toSv'[s] = <<m>>
      BY <1>2, <1>5, <2>1
    <3>2. status[s] = "asking"
      BY <1>3, <1>5, <2>1 DEF Lives, Alive
    <3> QED BY <3>1, <3>2
  <2>2. CASE link[s] # "up"
    BY <1>2, <1>5, <2>2
  <2> QED BY <2>1, <2>2
<1>8. Lives(s)'
  BY <1>2, <1>3, <1>5 DEF Lives, Alive
<1>9. Asks(s)'
  BY <1>6 DEF Asks
<1>10. HasSid(s)'
  BY <1>1, <1>3, <1>7 DEF HasSid
<1>11. Shape(s)' /\ Knows(s)'
  BY <1>1, <1>5, <1>7 DEF Shape, ShapeOf, Announces, Knows, RegisteredNow
<1>12. KnownOf(s)'
  BY <1>8, <1>9, <1>10, <1>11 DEF KnownOf
<1> QED BY <1>2, <1>12, OfTheOthers

(* the service asks, and gets the id sid, that nobody takes for another's *)
LEMMA AcceptedKnows ==
    ASSUME NamingInv, Knowledge, ~doubtful, NEW s \in Services, NEW sid \in SIds \ Used,
           Taken(s), toNs[s] # <<>>, Head(toNs[s]).kind = "RG",
           Register(s, sid, FALSE),
           UNCHANGED <<link, status, mySid, list>>
    PROVE  /\ Knowledge'
           /\ ~RegisteredNow(s) /\ list[s] = Unlisted
           /\ \A t \in Services : RegisteredNow(t) => list[t][sid] = NoOne
<1> DEFINE entry0 == [rank |-> NextRank, sid |-> sid, inst |-> s, waiting |-> FALSE,
                      acks |-> NoAcks]
           after == table \cup {entry0}
           others == Accessible(s, {e \in after : e.sid # sid})
           answer == Answer(TRUE, sid, Replied(s, after))
           news == [kind |-> "RGB", sid |-> sid, inst |-> s]
<1>0. NamingTypeOK /\ TableOK /\ AwaitedAreThere /\ IdsAreUnique
  BY TableParts DEF NamingInv
<1>1. /\ table' = after /\ appId' = [appId EXCEPT ![s] = sid]
      /\ \A t \in Services : toSv'[t] =
            IF t = s THEN Told(s, answer) ELSE IF t \in others THEN Told(t, news) ELSE toSv[t]
  BY DEF Register
<1>2. TableOK' /\ \A d, e \in after : d.sid = e.sid => d = e
  <2>1. \A d, e \in table : d.sid = e.sid => d = e
    BY OneEntry
  <2> HIDE DEF after
  <2> QED BY <1>0, <1>1, <2>1, RegisterAdds
<1>3. after \in SUBSET Entries /\ IsFiniteSet(after)
  <2> HIDE DEF after
  <2> QED BY <1>1, <1>2 DEF TableOK
<1>4. entry0.sid = sid /\ entry0.inst = s /\ entry0.waiting = FALSE /\ entry0.acks = NoAcks
  OBVIOUS
<1>5. after = table \cup {entry0}
  OBVIOUS
<1>6. /\ answer \in ToSv /\ answer.kind = "RG" /\ answer.sid = sid
      /\ answer.services = Replied(s, after)
      /\ \A n \in answer.services : \E e \in after :
            e.sid = n.sid /\ e.inst = n.inst /\ CanAccess(s, e)
      /\ \A n, o \in answer.services : n.sid = o.sid => n = o
  <2>1. answer.kind = "RG" /\ answer.sid = sid /\ answer.services = Replied(s, after)
    BY DEF Answer
  <2> HIDE DEF after
  <2>2. /\ answer \in ToSv
        /\ \A n \in Replied(s, after) : \E e \in after :
              e.sid = n.sid /\ e.inst = n.inst /\ CanAccess(s, e)
        /\ \A n, o \in Replied(s, after) : n.sid = o.sid => n = o
    BY <1>2, <1>3, AnswerFacts
  <2> HIDE DEF answer
  <2> QED BY <2>1, <2>2
<1>7. news \in ToSv /\ news.kind = "RGB" /\ news.sid = sid /\ news.inst = s
  BY DEF ToSv
<1>8. \A t \in others : \E e \in table : e.inst = t /\ ~e.waiting /\ Net[t] = Net[s]
  BY DEF Accessible, CanAccess
<1> HIDE DEF after, entry0, others, answer, news
<1>9. /\ toNs'[s] = Tail(toNs[s]) /\ toNs[s] \in Seq(ToNs) /\ toNs'[s] \in Seq(ToNs)
      /\ \A t \in Services \ {s} : toNs'[t] = toNs[t]
  BY <1>0, TakenLeaves
<1>10. /\ toNs[s][1].kind = "RG" /\ 1 \in 1 .. Len(toNs[s])
       /\ \A k \in 1 .. Len(toNs'[s]) : /\ k + 1 \in 1 .. Len(toNs[s]) /\ k + 1 # 1
                                        /\ toNs'[s][k] = toNs[s][k + 1]
  BY <1>9, TailIsThere
<1>11. ASSUME NEW t \in Services
       PROVE  Lives(t) /\ Asks(t) /\ HasSid(t) /\ Shape(t) /\ Knows(t)
  BY DEF Knowledge, KnownOf
<1>12. /\ toSv[s] = <<>> /\ status[s] \in {"asking", "dead"} /\ list[s] = Unlisted
       /\ appId[s] = NoSId
       /\ \A e \in table : e.inst # s
       /\ \A n \in 1 .. Len(toNs[s]) : toNs[s][n].kind # "ACK_UNI"
  BY <1>10, <1>11 DEF Asks
<1>13. \A k \in 1 .. Len(toNs'[s]) : toNs'[s][k].kind \notin {"RG", "RRG", "ACK_UNI"}
  BY <1>10, <1>11, <1>12 DEF Asks
<1>14. (toSv'[s] = <<answer>> /\ status[s] = "asking") \/ toSv'[s] = <<>>
  <2>1. CASE link[s] = "up"
    <3>1. status[s] = "asking"
      BY <1>11, <1>12, <2>1 DEF Lives, Alive
    <3> QED BY <1>1, <1>12, <2>1, <3>1 DEF Told
  <2>2. CASE link[s] # "up"
    BY <1>1, <1>12, <2>2 DEF Told
  <2> QED BY <2>1, <2>2
<1>15. \A k \in 1 .. Len(toSv'[s]) : k = 1 /\ toSv'[s][k] = answer /\ status[s] = "asking"
  <2>1. CASE toSv'[s] = <<answer>> /\ status[s] = "asking"
    BY <2>1
  <2>2. CASE toSv'[s] = <<>>
    BY <2>2
  <2> QED BY <1>14, <2>1, <2>2
<1>16. /\ appId'[s] = sid /\ \A t \in Services \ {s} : appId'[t] = appId[t]
       /\ \A t \in Services : appId[t] \in SIds => appId'[t] = appId[t]
  BY <1>0, <1>1, <1>12, Constant DEF NamingTypeOK
<1>17. ASSUME NEW t \in Services \ {s}
       PROVE  /\ toSv'[t] = toSv[t] \/ (toSv'[t] = Append(toSv[t], news) /\ t \in others)
              /\ toSv[t] \in Seq(ToSv)
  BY <1>0, <1>1 DEF Told, NamingTypeOK
<1>18. \A e \in table' : appId'[e.inst] = e.sid
  <2>1. \A e \in table : e.inst \in Services \ {s} /\ appId[e.inst] = e.sid
    BY <1>12, OneEntry
  <2> QED BY <1>1, <1>4, <1>5, <1>16, <2>1
<1>19. ASSUME NEW t \in Services, RegisteredNow(t)
       PROVE  /\ t # s
              /\ \A c \in Services : ~Takes(list[t], toSv[t], sid, c)
              /\ At(toSv[t], "UNB", sid) = {} /\ At(toNs[t], "ACK_UNI", sid) = {}
  <2>1. KnowsIn(table, t, sid, list[t], toSv[t], toNs[t], appId[t])
    BY <1>11, <1>19 DEF Knows
  <2>2. \A e \in table : e.sid # sid
    BY DEF Used
  <2> QED BY <1>12, <1>19, <2>1, <2>2 DEF KnowsIn, RegisteredNow
<1>20. ASSUME NEW t \in Services
       PROVE  Lives(t)'
  <2>1. CASE t = s
    BY <1>11, <1>12, <1>14, <2>1 DEF Lives, Alive
  <2>2. CASE t # s
    <3>1. toSv'[t] = toSv[t] \/ status[t] \in Alive
      <4>1. link[t] = "up" => status[t] \in Alive
        BY <1>11 DEF Lives
      <4> QED BY <1>1, <2>2, <4>1 DEF Told
    <3>2. \A e \in table' : e.inst = t => e \in table
      BY <1>1, <1>4, <1>5, <2>2
    <3> QED BY <1>9, <1>11, <1>16, <2>2, <3>1, <3>2 DEF Lives
  <2> QED BY <2>1, <2>2
<1>21. ASSUME NEW t \in Services
       PROVE  Asks(t)'
  <2>1. CASE t = s
    BY <1>13, <2>1 DEF Asks
  <2>2. CASE t # s
    <3>1. \A e \in table' : e.inst = t => e \in table
      BY <1>1, <1>4, <1>5, <2>2
    <3>2. (\A e \in table : e.inst # t) => toSv'[t] = toSv[t]
      BY <1>8, <1>17, <2>2
    <3> QED BY <1>9, <1>11, <1>16, <2>2, <3>1, <3>2 DEF Asks
  <2> QED BY <2>1, <2>2
<1>22. ASSUME NEW t \in Services
       PROVE  HasSid(t)'
  <2>1. \A i \in SIds : list[t][i] # NoOne => appId'[list[t][i]] = i
    <3> TAKE i \in SIds
    <3>1. list[t][i] \in Services \cup {NoOne}
      BY <1>0 DEF NamingTypeOK
    <3> QED BY <1>11, <1>16, <3>1 DEF HasSid
  <2>2. CASE t = s
    <3>1. /\ answer.kind # "RGB" /\ appId'[s] = answer.sid /\ answer.sid # NoSId
          /\ \A n \in answer.services : appId'[n.inst] = n.sid
      BY <1>1, <1>6, <1>16, <1>18, Constant
    <3> QED BY <1>6, <1>15, <2>1, <2>2, <3>1 DEF HasSid
  <2>3. CASE t # s
    <3>1. \A k \in 1 .. Len(toSv'[t]) :
             \/ k \in 1 .. Len(toSv[t]) /\ toSv'[t][k] = toSv[t][k]
             \/ toSv'[t][k] = news
      BY <1>7, <1>17, <2>3, AppendIsThere
    <3>2. ASSUME NEW k \in 1 .. Len(toSv[t])
          PROVE  LET m == toSv[t][k] IN
                 /\ m.kind = "RGB" => appId'[m.inst] = m.sid
                 /\ m.kind = "RG" =>
                       /\ k = 1 /\ status[t] = "asking"
                       /\ m.ok => appId'[t] = m.sid /\ m.sid # NoSId
                       /\ \A n \in m.services : appId'[n.inst] = n.sid
                       /\ \A n, o \in m.services : n.sid = o.sid => n = o
      <4> DEFINE m == toSv[t][k]
      <4>1. m \in ToSv
        BY <1>17, <2>3
      <4>2. /\ m.kind = "RGB" => appId[m.inst] = m.sid
            /\ m.kind = "RG" =>
                  /\ k = 1 /\ status[t] = "asking"
                  /\ m.ok => appId[t] = m.sid /\ m.sid # NoSId
                  /\ \A n \in m.services : appId[n.inst] = n.sid
                  /\ \A n, o \in m.services : n.sid = o.sid => n = o
        BY <1>11 DEF HasSid
      <4> HIDE DEF m
      <4>3. m.kind = "RGB" => m.inst \in Services /\ m.sid \in SIds
        BY <4>1 DEF ToSv
      <4>4. m.kind = "RG" => \A n \in m.services : n.inst \in Services /\ n.sid \in SIds
        BY <4>1 DEF ToSv, Listed
      <4>5. /\ m.kind = "RGB" => appId'[m.inst] = m.sid
            /\ m.kind = "RG" => \A n \in m.services : appId'[n.inst] = n.sid
        BY <1>16, <4>2, <4>3, <4>4
      <4>6. appId'[t] = appId[t]
        BY <1>16, <2>3
      <4> QED BY <4>2, <4>5, <4>6 DEF m
    <3>3. news.kind = "RGB" /\ appId'[news.inst] = news.sid
      BY <1>7, <1>16
    <3> QED BY <2>1, <3>1, <3>2, <3>3 DEF HasSid
  <2> QED BY <2>2, <2>3
<1>23. ASSUME NEW t \in Services
       PROVE  Shape(t)'
  <2> SUFFICES ASSUME NEW i \in SIds PROVE ShapeOf(list[t], toSv'[t], i)
    BY DEF Shape
  <2>1. CASE t = s
    <3>1. list[s][i] = NoOne
      BY <1>12 DEF Unlisted
    <3>2. \A k \in 1 .. Len(toSv'[s]) : k = 1 /\ toSv'[s][k] = answer
      BY <1>15
    <3>3. \A c, d \in Services : Announces(answer, i, c) /\ Announces(answer, i, d) => c = d
      BY <1>6 DEF Announces
    <3>4. At(toSv'[s], "UNB", i) = {}
      BY <1>6, <3>2 DEF At
    <3> QED BY <2>1, <3>1, <3>2, <3>3, <3>4 DEF ShapeOf
  <2>2. CASE t # s
    <3>1. ShapeOf(list[t], toSv[t], i)
      BY <1>11 DEF Shape
    <3>2. ASSUME t \in others PROVE ShapeOf(list[t], Append(toSv[t], news), i)
      <4>1. RegisteredNow(t)
        BY <1>8, <3>2 DEF RegisteredNow
      <4>2. \A c \in Services : Announces(news, i, c) => i = sid /\ c = s
        BY <1>7 DEF Announces
      <4>3. list[t][i] \in Services \cup {NoOne}
        BY <1>0 DEF NamingTypeOK
      <4>4. i = sid => /\ list[t][i] = NoOne /\ At(toSv[t], "UNB", i) = {}
                       /\ \A d \in Services : ~Takes(list[t], toSv[t], i, d)
        BY <1>19, <4>1, <4>3 DEF Takes
      <4>5. toSv[t] \in Seq(ToSv)
        BY <1>17, <2>2
      <4> QED BY <1>7, <3>1, <4>2, <4>4, <4>5, ShapeAppended
    <3> QED BY <1>17, <2>2, <3>1, <3>2
  <2> QED BY <2>1, <2>2
<1>24. ASSUME NEW t \in Services
       PROVE  Knows(t)'
  <2> SUFFICES ASSUME RegisteredNow(t)', NEW i \in SIds
               PROVE  KnowsIn(table', t, i, list[t], toSv'[t], toNs'[t], appId'[t])
    BY DEF Knows
  <2>1. ASSUME t = s
        PROVE  KnowsIn(table', s, i, list[s], toSv'[s], toNs'[s], sid)
    <3>1. \A k \in 1 .. Len(toSv'[s]) : k = 1 /\ toSv'[s][k] = answer
      BY <1>15
    <3>2. At(toSv'[s], "UNB", i) = {} /\ At(toNs'[s], "ACK_UNI", i) = {}
      BY <1>6, <1>13, <3>1 DEF At
    <3>3. \A e \in table' : e.acks[sid] \in Nat
      BY <1>1, <1>3 DEF Entries
    <3>4. ASSUME NEW c \in Services, Takes(list[s], toSv'[s], i, c)
          PROVE  \E e \in table' : e.sid = i /\ e.inst = c /\ Net[c] = Net[s] /\ ~e.waiting
      <4>1. list[s][i] # c
        BY <1>12, ConstantsAssumption DEF Unlisted
      <4>2. Announces(answer, i, c)
        BY <3>1, <3>4, <4>1 DEF Takes
      <4>3. PICK n \in answer.services : n.sid = i /\ n.inst = c
        BY <1>6, <4>2 DEF Announces
      <4>4. PICK e \in after : e.sid = i /\ e.inst = c /\ CanAccess(s, e)
        BY <1>6, <4>3
      <4> QED BY <1>1, <4>4 DEF CanAccess
    <3>5. /\ Cardinality(At(toSv'[s], "UNB", i)) = 0
          /\ Cardinality(At(toNs'[s], "ACK_UNI", i)) = 0
      BY <3>2, FS_EmptySet
    <3>6. \A e \in table' : Cardinality(At(toSv'[s], "UNB", i))
             + Cardinality(At(toNs'[s], "ACK_UNI", i)) <= e.acks[sid]
      BY <3>3, <3>5
    <3> QED BY <3>2, <3>4, <3>6 DEF KnowsIn
  <2>2. ASSUME t # s
        PROVE  KnowsIn(table', t, i, list[t], toSv'[t], toNs[t], appId[t])
    <3>1. RegisteredNow(t)
      BY <1>1, <1>4, <1>5, <2>2 DEF RegisteredNow
    <3>2. KnowsIn(table, t, i, list[t], toSv[t], toNs[t], appId[t])
      BY <1>11, <3>1 DEF Knows
    <3>3. At(toSv'[t], "UNB", i) = At(toSv[t], "UNB", i)
      <4>1. ~(news.kind = "UNB" /\ news.sid = i)
        BY <1>7
      <4>2. toSv[t] \in Seq(ToSv)
        BY <1>17, <2>2
      <4>3. At(Append(toSv[t], news), "UNB", i) = At(toSv[t], "UNB", i)
        BY <1>7, <4>1, <4>2, AppendAt
      <4> QED BY <1>17, <2>2, <4>3
    <3>4. ASSUME NEW c \in Services, Takes(list[t], toSv'[t], i, c)
          PROVE  Takes(list[t], toSv[t], i, c) \/ (i = sid /\ c = s /\ Net[c] = Net[t])
      <4>1. toSv[t] \in Seq(ToSv)
        BY <1>17, <2>2
      <4>2. CASE toSv'[t] = toSv[t]
        BY <3>4, <4>2
      <4>3. CASE toSv'[t] = Append(toSv[t], news) /\ t \in others
        <5>1. Takes(list[t], toSv[t], i, c) \/ Announces(news, i, c)
          BY <1>7, <3>4, <4>1, <4>3, AppendTakes
        <5>2. Net[t] = Net[s]
          BY <1>8, <4>3
        <5> QED BY <1>7, <5>1, <5>2 DEF Announces
      <4> QED BY <1>17, <2>2, <4>2, <4>3
    <3>5. ASSUME NEW c \in Services, Takes(list[t], toSv'[t], i, c)
          PROVE  \E e \in table' : /\ e.sid = i /\ e.inst = c /\ Net[c] = Net[t]
                                   /\ e.waiting => At(toSv'[t], "UNB", i) # {}
      <4>1. CASE Takes(list[t], toSv[t], i, c)
        BY <1>1, <1>5, <3>2, <3>3, <4>1 DEF KnowsIn
      <4>2. CASE i = sid /\ c = s /\ Net[c] = Net[t]
        BY <1>1, <1>4, <1>5, <4>2
      <4> QED BY <3>4, <3>5, <4>1, <4>2
    <3>6. At(toSv'[t], "UNB", i) # {} \/ At(toNs[t], "ACK_UNI", i) # {} =>
             \E e \in table' : e.sid = i /\ e.waiting
      BY <1>1, <1>5, <3>2, <3>3 DEF KnowsIn
    <3>7. ASSUME NEW e \in table', e.sid = i
          PROVE  Cardinality(At(toSv'[t], "UNB", i)) + Cardinality(At(toNs[t], "ACK_UNI", i))
                    <= e.acks[appId[t]]
      <4>1. CASE e \in table
        BY <3>2, <3>3, <3>7, <4>1 DEF KnowsIn
      <4>2. CASE e = entry0
        <5>1. At(toSv'[t], "UNB", i) = {} /\ At(toNs[t], "ACK_UNI", i) = {}
          BY <1>4, <1>19, <3>1, <3>3, <3>7, <4>2
        <5>2. /\ Cardinality(At(toSv'[t], "UNB", i)) = 0
              /\ Cardinality(At(toNs[t], "ACK_UNI", i)) = 0
          BY <5>1, FS_EmptySet
        <5>3. e.acks[appId[t]] = 0
          <6> appId[t] \in SIds
            BY <3>1, OneEntry DEF RegisteredNow
          <6> QED BY <1>4, <4>2 DEF NoAcks
        <5> QED BY <5>2, <5>3
      <4> QED BY <1>1, <1>5, <4>1, <4>2
    <3> QED BY <3>5, <3>6, <3>7 DEF KnowsIn
  <2>3. t # s => toNs'[t] = toNs[t] /\ appId'[t] = appId[t]
    BY <1>9, <1>16
  <2> QED BY <1>16, <2>1, <2>2, <2>3
<1>25. Knowledge'
  BY <1>18, <1>20, <1>21, <1>22, <1>23, <1>24 DEF Knowledge, KnownOf
<1>26. ASSUME NEW t \in Services, RegisteredNow(t)
       PROVE  list[t][sid] = NoOne
  <2>1. list[t][sid] \in Services \cup {NoOne}
    BY <1>0 DEF NamingTypeOK
  <2> QED BY <1>19, <1>26, <2>1 DEF Takes
<1> QED BY <1>12, <1>19, <1>25, <1>26

LEMMA NsRegisterKnows ==
    ASSUME NamingInv, Knowledge, ~doubtful, NEW s \in Services, NsRegister(s), ~doubtful'
    PROVE  /\ Knowledge'
           /\ \/ UNCHANGED <<table, list>>
              \/ \E i \in SIds \ Used :
                    /\ Register(s, i, FALSE) /\ UNCHANGED list
                    /\ ~RegisteredNow(s) /\ list[s] = Unlisted
                    /\ \A t \in Services : RegisteredNow(t) => list[t][i] = NoOne
<1> DEFINE m == Head(toNs[s])
           sid == Wanted(m.sid)
           again == m.kind = "RRG"
<1>0. NamingTypeOK
  BY DEF NamingInv
<1>1. /\ toNs[s] # <<>> /\ m.kind \in {"RG", "RRG"} /\ Taken(s) /\ m.sid \notin Used
      /\ UNCHANGED <<link, status, mySid, list>>
      /\ IF sid # NoSId /\ ~Denied(s)
         THEN Register(s, sid, again)
         ELSE /\ Tell(IF again THEN {} ELSE {s}, Answer(FALSE, NoSId, {}))
              /\ UNCHANGED <<table, appId>>
  BY DEF NsRegister, clientVars, nsVars
<1>2. m.kind = "RG" /\ again = FALSE
  <2>1. toNs[s] \in Seq(ToNs)
    BY <1>0 DEF NamingTypeOK
  <2>2. Asks(s)
    BY DEF Knowledge, KnownOf
  <2>3. m = toNs[s][1] /\ 1 \in 1 .. Len(toNs[s])
    BY <1>1, <2>1, TailIsThere
  <2> QED BY <1>1, <2>2, <2>3 DEF Asks
<1>3. m.sid \in SIds \cup {NoSId}
  <2> m \in ToNs
    BY <1>0, <1>1, TakenFacts
  <2> QED BY DEF ToNs
<1> HIDE DEF m
<1>4. CASE sid # NoSId /\ ~Denied(s)
  <2>1. sid \in SIds \ Used
    BY <1>1, <1>3, <1>4, WantedIsFree
  <2>2. Register(s, sid, FALSE)
    BY <1>1, <1>2, <1>4
  <2> HIDE DEF sid
  <2> QED BY <1>1, <1>2, <2>1, <2>2, AcceptedKnows DEF m
<1>5. CASE ~(sid # NoSId /\ ~Denied(s))
  <2>1. Tell({s}, Answer(FALSE, NoSId, {})) /\ UNCHANGED <<table, appId>>
    BY <1>1, <1>2, <1>5
  <2> HIDE DEF sid
  <2> QED BY <1>1, <1>2, <2>1, RefusedKnows DEF m
<1> QED BY <1>4, <1>5

----------------------------------------------------------------------------
(* The invariant of every behaviour *)

LEMMA KnowInitially == NamingInit => KnowInv
<1> SUFFICES ASSUME NamingInit PROVE KnowInv
  OBVIOUS
<1>1. NamingInv
  BY Initially
<1>2. ASSUME NEW s \in Services
      PROVE  Lives(s) /\ Asks(s) /\ HasSid(s) /\ Shape(s) /\ Knows(s)
  BY DEF NamingInit, Lives, Asks, HasSid, Shape, ShapeOf, Knows, RegisteredNow, Alive,
         Unlisted
<1> QED BY <1>1, <1>2 DEF KnowInv, Knowledge, KnownOf, NamingInit

LEMMA ClientKnows ==
    ASSUME NamingInv, Knowledge, NEW s \in Services, ClientStep(s)
    PROVE  Knowledge'
<1>1. ~Reconnect(s)
  <2>1. Lives(s)
    BY DEF Knowledge, KnownOf
  <2> QED BY <2>1 DEF Lives, Alive, Reconnect
<1>2. Die(s) \/ Leave(s) => Gone(s) /\ status[s] \in Alive
  BY DEF Die, Leave, Alive
<1> QED BY <1>1, <1>2, StartKnows, ReadAnswerKnows, EnterLoopKnows, ReadRegistrationKnows,
           ReadUnregistrationKnows, GoneKnows DEF ClientStep

LEMMA NsKnows ==
    ASSUME NamingInv, Knowledge, ~doubtful, NsStep, ~doubtful'
    PROVE  Knowledge'
<1>1. ~NsTimeout /\ ~NsRestart
  BY DEF NsTimeout, NsRestart
<1> QED BY <1>1, NsRegisterKnows, NsDisconnectKnows, NsAckKnows, KillKnows, NsCheckKnows
        DEF NsStep

LEMMA DoubtStays == NamingInv /\ [NamingNext]_namingVars => (doubtful => doubtful')
<1> SUFFICES ASSUME NamingInv, [NamingNext]_namingVars, doubtful PROVE doubtful'
  OBVIOUS
<1>1. CASE NsStep
  BY <1>1 DEF NsStep, NsRegister, NsDisconnect, NsAck, Kill, NsCheck, NsTimeout, NsRestart,
              histVars
<1>2. ASSUME NEW s \in Services, ClientStep(s) PROVE doubtful'
  BY <1>2 DEF ClientStep, Start, ReadAnswer, EnterLoop, ReadRegistration,
              ReadUnregistration, Reconnect, Die, Leave, Gone, histVars
<1>3. CASE UNCHANGED namingVars
  BY <1>3 DEF namingVars, histVars
<1> QED BY <1>1, <1>2, <1>3 DEF NamingNext

LEMMA KnowInductive == KnowInv /\ [NamingNext]_namingVars => KnowInv'
<1> SUFFICES ASSUME KnowInv, [NamingNext]_namingVars PROVE KnowInv'
  OBVIOUS
<1>1. NamingInv /\ NamingInv' /\ (doubtful => doubtful')
  BY Inductive, DoubtStays DEF KnowInv
<1> SUFFICES ASSUME ~doubtful' PROVE Knowledge'
  BY <1>1 DEF KnowInv
<1>2. ~doubtful /\ Knowledge
  BY <1>1 DEF KnowInv
<1>3. CASE NamingNext
  BY <1>1, <1>2, <1>3, NsKnows, ClientKnows DEF NamingNext
<1>4. CASE UNCHANGED namingVars
  <2>1. UNCHANGED <<table, appId, toNs, toSv, link, status, mySid, list>>
    BY <1>4 DEF namingVars, nsVars, clientVars
  <2>2. ASSUME NEW t \in Services PROVE KnownOf(t)'
    BY <1>2, <2>1, OfAnother DEF Knowledge
  <2> QED BY <1>2, <2>1, <2>2 DEF Knowledge
<1> QED BY <1>3, <1>4

----------------------------------------------------------------------------
(* The refinement of Directory *)

OwnerIn(T) == [i \in SIds |-> LET E == {e \in T : e.sid = i}
                              IN IF E = {} THEN NoOne ELSE First(E).inst]

OneSid(T) == T \in SUBSET Entries /\ \A d, e \in T : d.sid = e.sid => d = e

LEMMA OwnerFacts ==
    ASSUME NEW T, OneSid(T), NEW i \in SIds
    PROVE  /\ (\A e \in T : e.sid # i) => OwnerIn(T)[i] = NoOne
           /\ \A e \in T : e.sid = i => OwnerIn(T)[i] = e.inst
<1> DEFINE E == {e \in T : e.sid = i}
<1>1. OwnerIn(T)[i] = IF E = {} THEN NoOne ELSE First(E).inst
  BY DEF OwnerIn
<1>2. E # {} => First(E) \in E
  <2> E \in SUBSET Entries
    BY DEF OneSid
  <2> HIDE DEF E
  <2> QED BY FirstIsIn
<1>3. \A e \in T : e.sid = i => First(E) = e /\ E # {}
  BY <1>2 DEF OneSid
<1> QED BY <1>1, <1>3

LEMMA SameOwner ==
    ASSUME NEW T, OneSid(T), NEW U, OneSid(U),
           \A d \in T : \E f \in U : f.sid = d.sid /\ f.inst = d.inst,
           \A f \in U : \E d \in T : f.sid = d.sid /\ f.inst = d.inst
    PROVE  OwnerIn(T) = OwnerIn(U)
<1>1. ASSUME NEW i \in SIds PROVE OwnerIn(T)[i] = OwnerIn(U)[i]
  <2>1. CASE \A d \in T : d.sid # i
    BY <2>1, OwnerFacts
  <2>2. ASSUME NEW d \in T, d.sid = i PROVE OwnerIn(T)[i] = OwnerIn(U)[i]
    <3>1. PICK f \in U : f.sid = d.sid /\ f.inst = d.inst
      OBVIOUS
    <3> QED BY <2>2, <3>1, OwnerFacts
  <2> QED BY <2>1, <2>2
<1>2. OwnerIn(T) = [i \in SIds |-> OwnerIn(T)[i]] /\ OwnerIn(U) = [i \in SIds |-> OwnerIn(U)[i]]
  BY DEF OwnerIn
<1> QED BY <1>1, <1>2

(* what a step that hurries nothing starts from and leads to *)
Calm ==
    /\ KnowInv /\ Knowledge /\ ~doubtful
    /\ Knowledge' /\ ~doubtful' /\ doubtful' = doubtful
    /\ OneSid(table) /\ OneSid(table')
    /\ list \in [Services -> [SIds -> Services \cup {NoOne}]]
    /\ list' \in [Services -> [SIds -> Services \cup {NoOne}]]

LEMMA CalmFacts ==
    ASSUME KnowInv, [NamingNext]_namingVars, ~doubtful'
    PROVE  Calm
<1>1. KnowInv' /\ (doubtful => doubtful')
  BY KnowInductive, DoubtStays DEF KnowInv
<1>2. OneSid(table) /\ OneSid(table')
  BY <1>1 DEF KnowInv, NamingInv, NamingTypeOK, IdsAreUnique, OneSid
<1> QED BY <1>1, <1>2 DEF Calm, KnowInv, NamingInv, NamingTypeOK

(* whom a registered service has in its list *)
LEMMA ListsOwners ==
    ASSUME Calm, NEW s \in Services, RegisteredNow(s), NEW i \in SIds, NEW c \in Services,
           Takes(list[s], toSv[s], i, c)
    PROVE  Owner[i] = c
<1>1. KnowsIn(table, s, i, list[s], toSv[s], toNs[s], appId[s])
  BY DEF Calm, Knowledge, KnownOf, Knows
<1>2. PICK e \in table : e.sid = i /\ e.inst = c
  BY <1>1 DEF KnowsIn
<1>3. OwnerIn(table)[i] = c
  BY <1>2, OwnerFacts DEF Calm
<1> QED BY <1>3 DEF Owner, OwnerIn

LEMMA GrantStep ==
    ASSUME Calm, NEW s \in Services, NEW i \in SIds \ Used, Register(s, i, FALSE),
           UNCHANGED list, list[s] = Unlisted,
           \A t \in Services : RegisteredNow(t) => list[t][i] = NoOne
    PROVE  Dir!Grant(i, s)
<1> DEFINE new == [rank |-> NextRank, sid |-> i, inst |-> s, waiting |-> FALSE,
                   acks |-> NoAcks]
<1>1. table' = table \cup {new} /\ new.sid = i /\ new.inst = s /\ new.waiting = FALSE
  BY DEF Register
<1> HIDE DEF new
<1>2. \A e \in table : e.sid # i
  BY DEF Used
<1>3. Owner = OwnerIn(table) /\ Owner' = OwnerIn(table')
  BY DEF Owner, OwnerIn
<1>4. Owner[i] = NoOne
  BY <1>2, <1>3, OwnerFacts DEF Calm
<1>5. Owner' = [Owner EXCEPT ![i] = s]
  <2>1. ASSUME NEW j \in SIds PROVE Owner'[j] = IF j = i THEN s ELSE Owner[j]
    <3>1. CASE j = i
      BY <1>1, <1>3, <3>1, OwnerFacts DEF Calm
    <3>2. CASE j # i /\ \A e \in table : e.sid # j
      <4>1. \A e \in table' : e.sid # j
        BY <1>1, <3>2
      <4> QED BY <1>3, <3>2, <4>1, OwnerFacts DEF Calm
    <3>3. ASSUME j # i, NEW e \in table, e.sid = j PROVE Owner'[j] = Owner[j]
      <4>1. e \in table'
        BY <1>1
      <4> QED BY <1>3, <3>3, <4>1, OwnerFacts DEF Calm
    <3> QED BY <3>1, <3>2, <3>3
  <2>2. Owner = [j \in SIds |-> Owner[j]] /\ Owner' = [j \in SIds |-> Owner'[j]]
    BY DEF Owner
  <2> HIDE DEF Owner
  <2> QED BY <2>1, <2>2
<1>6. Left' = Left
  BY <1>1 DEF Left
<1>7. View' = View
  <2>1. \A t \in Services \ {s} : RegisteredNow(t)' <=> RegisteredNow(t)
    BY <1>1 DEF RegisteredNow
  <2> QED BY <2>1 DEF View
<1>8. \A t \in Services : View[t][i] = NoOne
  BY DEF View, Unlisted
<1> QED BY <1>4, <1>5, <1>6, <1>7, <1>8 DEF Dir!Grant, Dir!Unseen, Calm

(* s reads an answer or a registration; Dir!Learn when it is registered *)
LEMMA LearnStep ==
    ASSUME Calm, NEW s \in Services, UNCHANGED table,
           \A t \in Services \ {s} : list'[t] = list[t],
           NEW I \in SUBSET SIds,
           \A i \in SIds \ I : list'[s][i] = list[s][i],
           \A i \in I : list[s][i] = NoOne /\ \E c \in Services :
              list'[s][i] = c /\ Takes(list[s], toSv[s], i, c)
    PROVE  Dir!Learn(s, I) \/ UNCHANGED Dir!vars
<1>1. Owner' = Owner /\ Left' = Left
  BY DEF Owner, Left
<1>2. \A t \in Services : RegisteredNow(t)' <=> RegisteredNow(t)
  BY DEF RegisteredNow
<1>3. CASE ~RegisteredNow(s)
  <2>1. View' = View
    BY <1>2, <1>3 DEF View
  <2> QED BY <1>1, <2>1 DEF Calm, Dir!vars
<1>4. CASE RegisteredNow(s)
  <2>1. \A i \in I : list'[s][i] = Owner[i] /\ Owner[i] # NoOne /\ View[s][i] = NoOne
    <3> TAKE i \in I
    <3>1. PICK c \in Services : list'[s][i] = c /\ Takes(list[s], toSv[s], i, c)
      OBVIOUS
    <3>2. Owner[i] = c
      BY <1>4, <3>1, ListsOwners
    <3> QED BY <1>4, <3>1, <3>2, ConstantsAssumption DEF View
  <2>2. View'[s] = [i \in SIds |-> IF i \in I THEN Owner[i] ELSE View[s][i]]
    <3>1. View'[s] = list'[s] /\ View[s] = list[s]
      BY <1>2, <1>4 DEF View
    <3>2. list'[s] = [i \in SIds |-> list'[s][i]]
      BY DEF Calm
    <3>3. \A i \in SIds : list'[s][i] = IF i \in I THEN Owner[i] ELSE View[s][i]
      BY <2>1, <3>1
    <3> QED BY <3>1, <3>2, <3>3
  <2>3. \A t \in Services \ {s} : View'[t] = View[t]
    BY <1>2 DEF View
  <2>4. View = [t \in Services |-> View[t]] /\ View' = [t \in Services |-> View'[t]]
    BY DEF View
  <2> HIDE DEF View, Owner
  <2>5. View' = [View EXCEPT ![s] = [i \in SIds |-> IF i \in I THEN Owner[i] ELSE @[i]]]
    BY <2>2, <2>3, <2>4
  <2> QED BY <1>1, <2>1, <2>5 DEF Dir!Learn, Calm
<1> QED BY <1>3, <1>4

LEMMA ForgetStep ==
    ASSUME Calm, NEW s \in Services, ReadUnregistration(s)
    PROVE  (\E i \in SIds : Dir!Forget(s, i)) \/ UNCHANGED Dir!vars
<1> DEFINE m == Head(toSv[s])
<1>0. NamingTypeOK
  BY DEF Calm, KnowInv, NamingInv
<1>1. /\ toSv[s] # <<>> /\ m.kind = "UNB" /\ toSv[s] \in Seq(ToSv)
      /\ UNCHANGED <<table, doubtful>>
      /\ list' = [list EXCEPT ![s][m.sid] = NoOne]
  BY <1>0 DEF ReadUnregistration, MessageIs, nsVars, histVars, NamingTypeOK
<1>2. m \in ToSv /\ m = toSv[s][1] /\ 1 \in 1 .. Len(toSv[s])
  BY <1>1, TailIsThere
<1>3. m.sid \in SIds
  BY <1>1, <1>2 DEF ToSv
<1>4. At(toSv[s], "UNB", m.sid) # {}
  BY <1>1, <1>2 DEF At
<1> HIDE DEF m
<1>5. Owner' = Owner /\ Left' = Left
  BY <1>1 DEF Owner, Left
<1>6. \A t \in Services : RegisteredNow(t)' <=> RegisteredNow(t)
  BY <1>1 DEF RegisteredNow
<1>7. CASE ~RegisteredNow(s)
  <2>1. View' = View
    BY <1>1, <1>6, <1>7 DEF View, Calm
  <2> QED BY <1>1, <1>5, <2>1 DEF Dir!vars
<1>8. CASE RegisteredNow(s)
  <2>1. KnowsIn(table, s, m.sid, list[s], toSv[s], toNs[s], appId[s])
    BY <1>3, <1>8 DEF Calm, Knowledge, KnownOf, Knows
  <2>2. m.sid \in Left
    BY <1>4, <2>1 DEF KnowsIn, Left
  <2>3. View' = [View EXCEPT ![s][m.sid] = NoOne]
    BY <1>1, <1>3, <1>6, <1>8 DEF View, Calm
  <2> QED BY <1>1, <1>3, <1>5, <2>2, <2>3 DEF Dir!Forget
<1> QED BY <1>7, <1>8

LEMMA EndStep ==
    ASSUME Calm, NEW s \in Services, Gone(s)
    PROVE  Dir!End(s)
<1>1. UNCHANGED <<table, doubtful>> /\ list' = [list EXCEPT ![s] = Unlisted]
  BY DEF Gone, nsVars
<1>2. Owner' = Owner /\ Left' = Left
  BY <1>1 DEF Owner, Left
<1>3. \A t \in Services : RegisteredNow(t)' <=> RegisteredNow(t)
  BY <1>1 DEF RegisteredNow
<1>4. View' = [View EXCEPT ![s] = Dir!Nothing]
  BY <1>1, <1>3 DEF View, Calm, Unlisted, Dir!Nothing
<1> QED BY <1>1, <1>2, <1>4 DEF Dir!End

(* The registration of e ends, with others to tell or with none *)
LEMMA GoAwayStep ==
    ASSUME Calm, NEW e \in table, DoRemove(e), UNCHANGED list
    PROVE  Dir!GoAway(e.sid) \/ Dir!GoAwayAlone(e.sid)
<1>0. NamingTypeOK /\ TableOK
  BY TableParts DEF Calm, KnowInv, NamingInv
<1>1. e.sid \in SIds /\ e.inst \in Services
      /\ \A d \in table \ {e} : d.sid # e.sid /\ d.inst # e.inst /\ d.inst \in Services
                                /\ d.sid \in SIds
  BY OneEntry DEF Calm, KnowInv
<1>2. \A d \in table \ {e} : \E g \in table' :
         g.sid = d.sid /\ g.inst = d.inst /\ g.waiting = d.waiting
  <2>1. \A d \in table \ {e} : \E g \in table' :
           /\ g.sid = d.sid /\ g.inst = d.inst /\ g.waiting = d.waiting
           /\ g.acks = [d.acks EXCEPT ![e.sid] = 0]
    BY <1>0, RemovedFacts
  <2> QED BY <2>1
<1>3. \A g \in table' :
         \/ \E d \in table \ {e} : g.sid = d.sid /\ g.inst = d.inst /\ g.waiting = d.waiting
         \/ g.sid = e.sid /\ g.inst = e.inst /\ g.waiting
  BY <1>0, RemovedFacts
<1>4. \/ \A d \in table \ {e} : d.waiting
      \/ \E g \in table' : g.sid = e.sid /\ g.inst = e.inst /\ g.waiting
  BY <1>0, RemovedFacts
<1>5. /\ ~RegisteredNow(e.inst)'
      /\ \A t \in Services \ {e.inst} : RegisteredNow(t)' <=> RegisteredNow(t)
  BY <1>1, <1>2, <1>3 DEF RegisteredNow
<1>6. Owner = OwnerIn(table) /\ Owner' = OwnerIn(table')
  BY DEF Owner, OwnerIn
<1>7. Owner[e.sid] = e.inst /\ e.inst # NoOne
  BY <1>1, <1>6, OwnerFacts, ConstantsAssumption DEF Calm
<1>8. View' = [View EXCEPT ![Owner[e.sid]] = Dir!Nothing]
  <2>1. View'[e.inst] = Unlisted /\ \A t \in Services \ {e.inst} : View'[t] = View[t]
    BY <1>1, <1>5 DEF View
  <2>2. View = [t \in Services |-> View[t]] /\ View' = [t \in Services |-> View'[t]]
    BY DEF View
  <2>3. Dir!Nothing = Unlisted
    BY DEF Dir!Nothing, Unlisted
  <2> HIDE DEF View
  <2> QED BY <1>1, <1>7, <2>1, <2>2, <2>3
<1>9. CASE \E g \in table' : g.sid = e.sid /\ g.inst = e.inst /\ g.waiting
  <2>1. Owner' = Owner
    <3>1. \A d \in table : \E g \in table' : g.sid = d.sid /\ g.inst = d.inst
      BY <1>2, <1>9
    <3>2. \A g \in table' : \E d \in table : g.sid = d.sid /\ g.inst = d.inst
      BY <1>3
    <3> QED BY <1>6, <3>1, <3>2, SameOwner DEF Calm
  <2>2. Left' = Left \cup {e.sid}
    <3>1. \A i : i \in Left' => i \in Left \/ i = e.sid
      BY <1>3 DEF Left
    <3>2. \A i : i \in Left /\ i # e.sid => i \in Left'
      BY <1>2 DEF Left
    <3>3. e.sid \in Left'
      BY <1>9 DEF Left
    <3> QED BY <3>1, <3>2, <3>3
  <2> QED BY <1>7, <1>8, <2>1, <2>2 DEF Dir!GoAway, Calm
<1>10. CASE ~\E g \in table' : g.sid = e.sid /\ g.inst = e.inst /\ g.waiting
  <2>1. \A t \in Services \ {e.inst} : ~RegisteredNow(t)
    BY <1>4, <1>10 DEF RegisteredNow
  <2>2. \A t \in Services \ {Owner[e.sid]} : View[t][e.sid] = NoOne
    BY <1>1, <1>7, <2>1 DEF View, Unlisted
  <2>3. \A g \in table' : g.sid # e.sid
    BY <1>1, <1>3, <1>10
  <2>4. Owner' = [Owner EXCEPT ![e.sid] = NoOne]
    <3>1. ASSUME NEW i \in SIds PROVE Owner'[i] = IF i = e.sid THEN NoOne ELSE Owner[i]
      <4>1. CASE i = e.sid
        BY <1>6, <2>3, <4>1, OwnerFacts DEF Calm
      <4>2. CASE i # e.sid /\ \A d \in table : d.sid # i
        <5>1. \A g \in table' : g.sid # i
          BY <1>3, <1>10, <4>2
        <5> QED BY <1>6, <4>2, <5>1, OwnerFacts DEF Calm
      <4>3. ASSUME i # e.sid, NEW d \in table, d.sid = i PROVE Owner'[i] = Owner[i]
        <5>1. PICK g \in table' : g.sid = i /\ g.inst = d.inst
          BY <1>2, <4>3
        <5> QED BY <1>6, <4>3, <5>1, OwnerFacts DEF Calm
      <4> QED BY <4>1, <4>2, <4>3
    <3>2. Owner = [i \in SIds |-> Owner[i]] /\ Owner' = [i \in SIds |-> Owner'[i]]
      BY DEF Owner
    <3> HIDE DEF Owner
    <3> QED BY <3>1, <3>2
  <2>5. Left' = Left \ {e.sid}
    <3>1. \A i : i \in Left' => i \in Left /\ i # e.sid
      BY <1>3, <2>3 DEF Left
    <3>2. \A i : i \in Left /\ i # e.sid => i \in Left'
      BY <1>2 DEF Left
    <3> QED BY <3>1, <3>2
  <2> QED BY <1>7, <1>8, <2>2, <2>4, <2>5 DEF Dir!GoAwayAlone, Calm
<1> QED BY <1>9, <1>10

(* entries are removed whose acknowledgements are complete *)
LEMMA ReleaseStep ==
    ASSUME Calm, UNCHANGED list, NEW T \in SUBSET Entries,
           table' = T \ Acknowledged(T),
           \A f \in T : \E d \in table : /\ f.sid = d.sid /\ f.inst = d.inst
                                         /\ f.waiting = d.waiting,
           \A d \in table : \E f \in T : /\ f.sid = d.sid /\ f.inst = d.inst
                                         /\ f.waiting = d.waiting,
           \A d, f \in T : d.sid = f.sid => d = f,
           \A t \in Services : RegisteredNow(t) =>
              \A f \in Acknowledged(T) : \A c \in Services : list[t][f.sid] # c
    PROVE  \E I \in SUBSET SIds : Dir!Release(I)
<1> DEFINE A == Acknowledged(T)
           I == {f.sid : f \in A}
<1>1. A \subseteq T /\ \A f \in A : f.waiting
  BY DEF Acknowledged
<1>2. \A f \in T : f.sid \in SIds
  BY DEF Entries
<1> HIDE DEF A
<1>3. I \in SUBSET SIds
  BY <1>1, <1>2
<1>4. I \subseteq Left
  BY <1>1 DEF Left
<1>5. \A i \in I : \A t \in Services : View[t][i] = NoOne
  <2> SUFFICES ASSUME NEW f \in A, NEW t \in Services PROVE View[t][f.sid] = NoOne
    OBVIOUS
  <2>1. f.sid \in SIds
    BY <1>1, <1>2
  <2>2. list[t][f.sid] \in Services \cup {NoOne}
    BY <2>1 DEF Calm
  <2> QED BY <2>1, <2>2 DEF View, Unlisted, A
<1>6. \A f \in T : f.sid \in I => f \in A
  BY <1>1
<1>7. Owner = OwnerIn(table) /\ Owner' = OwnerIn(table')
  BY DEF Owner, OwnerIn
<1>8. Owner = OwnerIn(T)
  <2>1. OneSid(T)
    BY DEF OneSid
  <2> QED BY <1>7, <2>1, SameOwner DEF Calm
<1>9. Owner' = [i \in SIds |-> IF i \in I THEN NoOne ELSE Owner[i]]
  <2>1. ASSUME NEW i \in SIds PROVE Owner'[i] = IF i \in I THEN NoOne ELSE Owner[i]
    <3>1. OneSid(T) /\ OneSid(table') /\ table' = T \ A
      BY DEF OneSid, Calm, A
    <3>2. CASE i \in I
      <4>1. \A g \in table' : g.sid # i
        BY <1>6, <3>1, <3>2
      <4> QED BY <1>7, <3>1, <3>2, <4>1, OwnerFacts
    <3>3. CASE i \notin I /\ \A f \in T : f.sid # i
      <4>1. \A g \in table' : g.sid # i
        BY <3>1, <3>3
      <4>2. OwnerIn(table')[i] = NoOne /\ OwnerIn(T)[i] = NoOne
        BY <3>1, <3>3, <4>1, OwnerFacts
      <4> QED BY <1>7, <1>8, <3>3, <4>2
    <3>4. ASSUME i \notin I, NEW f \in T, f.sid = i PROVE Owner'[i] = Owner[i]
      <4>1. f \in table'
        BY <3>1, <3>4
      <4>2. OwnerIn(table')[i] = f.inst /\ OwnerIn(T)[i] = f.inst
        BY <3>1, <3>4, <4>1, OwnerFacts
      <4> QED BY <1>7, <1>8, <4>2
    <3> QED BY <3>2, <3>3, <3>4
  <2>2. Owner' = [i \in SIds |-> Owner'[i]]
    BY DEF Owner
  <2> HIDE DEF Owner, I
  <2> QED BY <2>1, <2>2
<1>10. Left' = Left \ I
  <2>1. ASSUME NEW i \in Left' PROVE i \in Left /\ i \notin I
    <3>1. PICK g \in table' : g.sid = i /\ g.waiting
      BY DEF Left
    <3>2. g \in T /\ g \notin A
      BY <3>1 DEF A
    <3> QED BY <1>6, <3>1, <3>2 DEF Left
  <2>2. ASSUME NEW i \in Left, i \notin I PROVE i \in Left'
    <3>1. PICK d \in table : d.sid = i /\ d.waiting
      BY DEF Left
    <3>2. PICK f \in T : f.sid = i /\ f.waiting
      BY <3>1
    <3>3. f \in table'
      BY <2>2, <3>2 DEF A
    <3> QED BY <3>2, <3>3 DEF Left
  <2> QED BY <2>1, <2>2
<1>11. View' = View
  <2>1. ASSUME NEW t \in Services PROVE RegisteredNow(t)' <=> RegisteredNow(t)
    <3>1. ASSUME RegisteredNow(t) PROVE RegisteredNow(t)'
      <4>1. PICK d \in table : d.inst = t /\ ~d.waiting
        BY <3>1 DEF RegisteredNow
      <4>2. PICK f \in T : f.inst = t /\ f.waiting = d.waiting
        BY <4>1
      <4>3. f \in table'
        BY <1>1, <4>1, <4>2 DEF A
      <4> QED BY <4>1, <4>2, <4>3 DEF RegisteredNow
    <3>2. ASSUME RegisteredNow(t)' PROVE RegisteredNow(t)
      <4>1. PICK f \in table' : f.inst = t /\ ~f.waiting
        BY <3>2 DEF RegisteredNow
      <4>2. PICK d \in table : d.inst = f.inst /\ d.waiting = f.waiting
        OBVIOUS
      <4> QED BY <4>1, <4>2 DEF RegisteredNow
    <3> QED BY <3>1, <3>2
  <2> QED BY <2>1 DEF View
<1> HIDE DEF I
<1> QED BY <1>3, <1>4, <1>5, <1>9, <1>10, <1>11 DEF Dir!Release, Dir!Unseen, Calm

LEMMA StartSameLists == \A s \in Services : Start(s) \/ EnterLoop(s) \/ Reconnect(s) =>
                                               UNCHANGED <<table, list, doubtful>>
BY DEF Start, EnterLoop, Reconnect, nsVars, clientVars, histVars

LEMMA NamingRefines ==
    KnowInv /\ [NamingNext]_namingVars => [Dir!Next \/ doubtful']_(Dir!vars)
<1> SUFFICES ASSUME KnowInv, [NamingNext]_namingVars, ~doubtful'
             PROVE  Dir!Next \/ UNCHANGED Dir!vars
  OBVIOUS
<1>1. Calm /\ KnowInv /\ NamingInv /\ Knowledge /\ ~doubtful /\ doubtful' = doubtful
  BY CalmFacts DEF Calm, KnowInv
<1>2. UNCHANGED <<table, list>> => UNCHANGED Dir!vars
  <2> SUFFICES ASSUME UNCHANGED <<table, list>>
               PROVE  Owner' = Owner /\ Left' = Left /\ View' = View
    BY <1>1 DEF Dir!vars
  <2>1. \A t \in Services : RegisteredNow(t)' <=> RegisteredNow(t)
    BY DEF RegisteredNow
  <2> QED BY <2>1 DEF Owner, Left, View
<1>3. ASSUME NEW e \in table, DoRemove(e), UNCHANGED list PROVE Dir!Next
  <2>1. e.sid \in SIds
    BY <1>1, OneEntry
  <2> QED BY <1>1, <1>3, <2>1, GoAwayStep DEF Dir!Next
<1>4. ASSUME NEW s \in Services, NsRegister(s) PROVE Dir!Next \/ UNCHANGED Dir!vars
  <2>1. \/ UNCHANGED <<table, list>>
        \/ \E i \in SIds \ Used :
              /\ Register(s, i, FALSE) /\ UNCHANGED list
              /\ ~RegisteredNow(s) /\ list[s] = Unlisted
              /\ \A t \in Services : RegisteredNow(t) => list[t][i] = NoOne
    BY <1>1, <1>4, NsRegisterKnows
  <2>2. ASSUME NEW i \in SIds \ Used, Register(s, i, FALSE), UNCHANGED list,
               list[s] = Unlisted,
               \A t \in Services : RegisteredNow(t) => list[t][i] = NoOne
        PROVE  Dir!Next
    BY <1>1, <2>2, GrantStep DEF Dir!Next
  <2> QED BY <1>2, <2>1, <2>2
<1>5. ASSUME NEW s \in Services, NsDisconnect(s) PROVE Dir!Next \/ UNCHANGED Dir!vars
  <2>1. UNCHANGED list
    BY <1>5 DEF NsDisconnect, clientVars
  <2> QED BY <1>1, <1>2, <1>3, <1>5, <2>1, NsDisconnectKnows
<1>6. ASSUME NEW i \in SIds, Kill(i) PROVE Dir!Next
  <2>1. UNCHANGED list
    BY <1>6 DEF Kill, clientVars
  <2> QED BY <1>1, <1>3, <1>6, <2>1, KillKnows
<1>7. ASSUME NEW s \in Services, NsAck(s) PROVE Dir!Next \/ UNCHANGED Dir!vars
  <2>1. UNCHANGED list
    BY <1>7 DEF NsAck, clientVars
  <2>2. \/ UNCHANGED table
        \/ \E T \in SUBSET Entries :
              /\ table' = T \ Acknowledged(T)
              /\ \A f \in T : \E d \in table : /\ f.sid = d.sid /\ f.inst = d.inst
                                               /\ f.waiting = d.waiting
              /\ \A d \in table : \E f \in T : /\ f.sid = d.sid /\ f.inst = d.inst
                                               /\ f.waiting = d.waiting
              /\ \A d, f \in T : d.sid = f.sid => d = f
              /\ \A t \in Services : RegisteredNow(t) =>
                    \A f \in Acknowledged(T) : \A c \in Services : list[t][f.sid] # c
    BY <1>1, <1>7, NsAckKnows
  <2>3. CASE UNCHANGED table
    BY <1>2, <2>1, <2>3
  <2>4. ASSUME NEW T \in SUBSET Entries,
               table' = T \ Acknowledged(T),
               \A f \in T : \E d \in table : /\ f.sid = d.sid /\ f.inst = d.inst
                                             /\ f.waiting = d.waiting,
               \A d \in table : \E f \in T : /\ f.sid = d.sid /\ f.inst = d.inst
                                             /\ f.waiting = d.waiting,
               \A d, f \in T : d.sid = f.sid => d = f,
               \A t \in Services : RegisteredNow(t) =>
                  \A f \in Acknowledged(T) : \A c \in Services : list[t][f.sid] # c
        PROVE  Dir!Next
    <3>1. \E I \in SUBSET SIds : Dir!Release(I)
      BY <1>1, <2>1, <2>4, ReleaseStep
    <3> QED BY <3>1 DEF Dir!Next
  <2> QED BY <2>2, <2>3, <2>4
<1>8. CASE NsCheck
  <2>1. /\ table' = table \ Acknowledged(table) /\ UNCHANGED list
        /\ \A t \in Services : RegisteredNow(t) =>
              \A e \in Acknowledged(table) : \A c \in Services : list[t][e.sid] # c
    BY <1>1, <1>8, NsCheckKnows DEF NsCheck, clientVars
  <2>2. OneSid(table)
    BY <1>1 DEF Calm
  <2>3. \E I \in SUBSET SIds : Dir!Release(I)
    BY <1>1, <2>1, <2>2, ReleaseStep DEF OneSid
  <2> QED BY <2>3 DEF Dir!Next
<1>9. ASSUME NEW s \in Services, ReadAnswer(s) PROVE Dir!Next \/ UNCHANGED Dir!vars
  <2> DEFINE ok == Head(toSv[s]).ok
             I == {i \in SIds : list'[s][i] # NoOne}
  <2>1. /\ UNCHANGED table /\ status[s] = "asking"
        /\ ok => list' = [list EXCEPT ![s] = ListOf(Head(toSv[s]).services)]
        /\ ~ok => UNCHANGED list
    BY <1>9 DEF ReadAnswer, nsVars
  <2>2. list[s] = Unlisted
    BY <1>1, <2>1 DEF Knowledge, KnownOf, Lives
  <2>3. CASE ~ok
    BY <1>2, <2>1, <2>3
  <2>4. CASE ok
    <3>1. \A t \in Services \ {s} : list'[t] = list[t]
      BY <1>1, <2>1, <2>4 DEF Calm
    <3>2. \A i \in SIds \ I : list'[s][i] = list[s][i]
      BY <2>2 DEF Unlisted
    <3>3. \A i \in SIds : \A c \in Services :
             list'[s][i] = c => Takes(list[s], toSv[s], i, c)
      BY <1>1, <1>9, <2>4, ReadAnswerKnows
    <3>4. \A i \in I : list[s][i] = NoOne /\ \E c \in Services :
             list'[s][i] = c /\ Takes(list[s], toSv[s], i, c)
      <4> TAKE i \in I
      <4>1. list'[s][i] \in Services
        BY <1>1 DEF Calm
      <4> QED BY <2>2, <3>3, <4>1 DEF Unlisted
    <3> HIDE DEF ok
    <3>5. I \in SUBSET SIds
      OBVIOUS
    <3> HIDE DEF I
    <3>6. Dir!Learn(s, I) \/ UNCHANGED Dir!vars
      BY <1>1, <2>1, <3>1, <3>2, <3>4, <3>5, LearnStep
    <3> QED BY <3>5, <3>6 DEF Dir!Next
  <2> QED BY <2>3, <2>4
<1>10. ASSUME NEW s \in Services, ReadRegistration(s)
       PROVE  Dir!Next \/ UNCHANGED Dir!vars
  <2> DEFINE m == Head(toSv[s])
  <2>1. /\ UNCHANGED table /\ toSv[s] # <<>> /\ m.kind = "RGB" /\ toSv[s] \in Seq(ToSv)
        /\ list' = [list EXCEPT ![s][m.sid] = m.inst]
    BY <1>1, <1>10 DEF ReadRegistration, MessageIs, nsVars, NamingInv, NamingTypeOK
  <2>2. m \in ToSv /\ m = toSv[s][1] /\ 1 \in 1 .. Len(toSv[s])
    BY <2>1, TailIsThere
  <2>3. m.sid \in SIds /\ m.inst \in Services
    BY <2>1, <2>2 DEF ToSv
  <2>4. Announces(toSv[s][1], m.sid, m.inst)
    BY <2>1, <2>2 DEF Announces
  <2>5. Takes(list[s], toSv[s], m.sid, m.inst)
    BY <2>2, <2>4 DEF Takes
  <2>6. list[s][m.sid] = NoOne
    <3>1. ShapeOf(list[s], toSv[s], m.sid)
      BY <1>1, <2>3 DEF Knowledge, KnownOf, Shape
    <3> QED BY <2>2, <2>3, <2>4, <3>1 DEF ShapeOf
  <2> HIDE DEF m
  <2>7. /\ list'[s][m.sid] = m.inst
        /\ \A i \in SIds \ {m.sid} : list'[s][i] = list[s][i]
        /\ \A t \in Services \ {s} : list'[t] = list[t]
    BY <1>1, <2>1, <2>3 DEF Calm
  <2>8. Dir!Learn(s, {m.sid}) \/ UNCHANGED Dir!vars
    BY <1>1, <2>1, <2>3, <2>5, <2>6, <2>7, LearnStep
  <2> QED BY <2>3, <2>8 DEF Dir!Next
<1>11. ASSUME NEW s \in Services, ReadUnregistration(s)
       PROVE  Dir!Next \/ UNCHANGED Dir!vars
  BY <1>1, <1>11, ForgetStep DEF Dir!Next
<1>12. ASSUME NEW s \in Services, Die(s) \/ Leave(s)
       PROVE  Dir!Next
  <2>1. Gone(s)
    BY <1>12 DEF Die, Leave
  <2> QED BY <1>1, <2>1, EndStep DEF Dir!Next
<1>13. ASSUME NEW s \in Services, ClientStep(s)
       PROVE  Dir!Next \/ UNCHANGED Dir!vars
  BY <1>2, <1>9, <1>10, <1>11, <1>12, <1>13, StartSameLists DEF ClientStep
<1>14. ~NsTimeout /\ ~NsRestart
  BY DEF NsTimeout, NsRestart
<1>15. CASE NsStep
  BY <1>4, <1>5, <1>6, <1>7, <1>8, <1>14, <1>15 DEF NsStep
<1>16. CASE UNCHANGED namingVars
  BY <1>2, <1>16 DEF namingVars, nsVars, clientVars
<1> QED BY <1>13, <1>15, <1>16 DEF NamingNext

----------------------------------------------------------------------------
(* Layer 5 runs inside the naming clients *)

LEMMA StepIsNaming == [Next]_vars => [NamingNext]_namingVars
<1> SUFFICES ASSUME [Next]_vars PROVE [NamingNext]_namingVars
  OBVIOUS
<1>1. CASE UNCHANGED vars
  BY <1>1 DEF vars
<1>2. CASE NsStep
  BY <1>2 DEF NamingNext
<1>3. ASSUME NEW s \in Services,
             \/ Start(s) \/ Reconnect(s)
             \/ Registered(s) \/ Connect(s) \/ Announced(s) \/ Unannounced(s)
             \/ Ended(s)
      PROVE  NamingNext
  <2> ClientStep(s)
    BY <1>3 DEF Registered, Connect, Announced, Unannounced, Ended, ClientStep
  <2> QED BY DEF NamingNext
<1>4. ASSUME NEW s \in Services, Handle(s)
      PROVE  UNCHANGED namingVars
  BY <1>4 DEF Handle, Identified, Disconnected
<1> QED BY <1>1, <1>2, <1>3, <1>4 DEF Next

----------------------------------------------------------------------------
(* Theorems *)

(* Refinement: a behaviour of layer 5 is one of the naming service and its *)
(* clients (unified_network.cpp calls CNamingClient, and its callbacks     *)
(* send nothing to the naming service).                                    *)
THEOREM ImplementsNaming == Spec => NamingSpec
<1>1. Init => NamingInit
  BY DEF Init
<1> QED BY <1>1, StepIsNaming, PTL DEF Spec, NamingSpec

(* For every number of services and of ids, as long as the naming service  *)
(* is in no hurry: what a registered service has in its list or will read  *)
(* about an id is the owner that the naming service has; of an owner that  *)
(* is on its way out it has been told the end once, and each end that it   *)
(* has still to read or that it has acknowledged is awaited                *)
(* (naming_service.cpp, doRegister, doRemove, cbACKUnregistration).        *)
THEOREM KnowledgeHolds == NamingSpec => []KnowInv
BY KnowInitially, KnowInductive, PTL DEF NamingSpec

LEMMA DirInitially == NamingInit => Dir!Init
<1> SUFFICES ASSUME NamingInit PROVE Dir!Init
  OBVIOUS
<1>1. table = {} /\ list = [s \in Services |-> Unlisted] /\ doubtful = FALSE
  BY DEF NamingInit
<1>2. Owner = Dir!Nothing
  BY <1>1 DEF Owner, Dir!Nothing
<1>3. Left = {}
  BY <1>1 DEF Left
<1>4. View = [s \in Services |-> Dir!Nothing]
  BY <1>1 DEF View, RegisteredNow, Unlisted, Dir!Nothing
<1> QED BY <1>1, <1>2, <1>3, <1>4 DEF Dir!Init

(* Refinement, for every number of services and of ids: the naming service *)
(* and its clients do what Directory promises of the ids                   *)
(* (naming_service.cpp, naming_client.cpp).                                *)
THEOREM NamingImplementsDirectory == NamingSpec => Dir!Spec
BY KnowledgeHolds, DirInitially, NamingRefines, PTL DEF NamingSpec, Dir!Spec

(* The same with layer 5 on top *)
THEOREM ImplementsDirectory == Spec => DirectorySpec
BY ImplementsNaming, NamingImplementsDirectory, PTL DEF DirectorySpec
=============================================================================
