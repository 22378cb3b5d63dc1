--------------------------- MODULE Login_proofs ---------------------------
(***************************************************************************)
(* Proofs about Login, for every number of users, front ends, connections  *)
(* and cookies.                                                            *)
(* Who is let in: a cookie lets in one connection, and the connection that *)
(* a front end has for a user is his.                                      *)
(* What is counted: what the welcome service counts of a front end, and    *)
(* what the login service counts and calls Online, is what is there, the   *)
(* messages on their way taken into account.                               *)
(***************************************************************************)
EXTENDS Login, FiniteSetTheorems, FunctionTheorems, SequenceTheorems,
        WellFoundedInduction, TLAPS

----------------------------------------------------------------------------
(* The cookies on their way in a sequence of messages, each in one message *)

Carried(ms) == {ms[i].cookie : i \in {j \in 1 .. Len(ms) : ms[j].kind = "CS"}}

EachOnce(ms) ==
    \A i, j \in 1 .. Len(ms) :
       ms[i].kind = "CS" /\ ms[j].kind = "CS" /\ ms[i].cookie = ms[j].cookie => i = j

LEMMA NothingCarried == Carried(<<>>) = {} /\ EachOnce(<<>>)
BY DEF Carried, EachOnce

LEMMA HeadTaken ==
    ASSUME NEW ms \in Seq(ToWs), ms # <<>>, EachOnce(ms)
    PROVE  /\ Head(ms) \in ToWs /\ Tail(ms) \in Seq(ToWs)
           /\ EachOnce(Tail(ms))
           /\ Carried(Tail(ms)) \subseteq Carried(ms)
           /\ Head(ms).kind = "CS" => /\ Head(ms).cookie \in Carried(ms)
                                      /\ Head(ms).cookie \notin Carried(Tail(ms))
<1>1. /\ Head(ms) \in ToWs /\ Tail(ms) \in Seq(ToWs)
      /\ Len(Tail(ms)) = Len(ms) - 1 /\ Head(ms) = ms[1]
      /\ \A i \in 1 .. Len(Tail(ms)) : Tail(ms)[i] = ms[i + 1]
  BY HeadTailProperties
<1>2. Len(ms) \in Nat /\ Len(ms) > 0
  BY EmptySeq
<1>3. EachOnce(Tail(ms))
  BY <1>1, <1>2 DEF EachOnce
<1>4. Carried(Tail(ms)) \subseteq Carried(ms)
  BY <1>1, <1>2 DEF Carried
<1>5. ASSUME Head(ms).kind = "CS"
      PROVE  /\ Head(ms).cookie \in Carried(ms)
             /\ Head(ms).cookie \notin Carried(Tail(ms))
  <2>1. Head(ms).cookie \in Carried(ms)
    BY <1>1, <1>2, <1>5 DEF Carried
  <2>2. ASSUME NEW i \in 1 .. Len(Tail(ms)), Tail(ms)[i].kind = "CS",
               Tail(ms)[i].cookie = Head(ms).cookie
        PROVE  FALSE
    <3>1. i + 1 \in 1 .. Len(ms) /\ 1 \in 1 .. Len(ms) /\ i + 1 # 1
      BY <1>1, <1>2
    <3> QED BY <3>1, <2>2, <1>1, <1>5 DEF EachOnce
  <2> QED BY <2>1, <2>2 DEF Carried
<1> QED BY <1>1, <1>3, <1>4, <1>5

LEMMA OneMore ==
    ASSUME NEW ms \in Seq(ToWs), NEW m \in ToWs, EachOnce(ms),
           m.kind = "CS" => m.cookie \notin Carried(ms)
    PROVE  /\ Append(ms, m) \in Seq(ToWs)
           /\ EachOnce(Append(ms, m))
           /\ Carried(Append(ms, m)) \subseteq
                Carried(ms) \cup (IF m.kind = "CS" THEN {m.cookie} ELSE {})
<1> DEFINE more == Append(ms, m)
<1>1. /\ more \in Seq(ToWs) /\ Len(more) = Len(ms) + 1 /\ Len(ms) \in Nat
      /\ \A i \in 1 .. Len(ms) : more[i] = ms[i]
      /\ more[Len(ms) + 1] = m
  BY AppendProperties
<1> HIDE DEF more
<1>2. \A i \in 1 .. Len(more) : i \in 1 .. Len(ms) \/ i = Len(ms) + 1
  BY <1>1
<1>3. \A i \in 1 .. Len(ms) : ms[i].kind = "CS" => ms[i].cookie \in Carried(ms)
  BY DEF Carried
<1>4. EachOnce(more)
  <2> SUFFICES ASSUME NEW i \in 1 .. Len(more), NEW j \in 1 .. Len(more),
                      more[i].kind = "CS", more[j].kind = "CS",
                      more[i].cookie = more[j].cookie
               PROVE  i = j
    BY DEF EachOnce
  <2>1. CASE i \in 1 .. Len(ms) /\ j \in 1 .. Len(ms)
    BY <2>1, <1>1 DEF EachOnce
  <2>2. CASE i = Len(ms) + 1 /\ j \in 1 .. Len(ms)
    BY <2>2, <1>1, <1>3
  <2>3. CASE j = Len(ms) + 1 /\ i \in 1 .. Len(ms)
    BY <2>3, <1>1, <1>3
  <2> QED BY <1>2, <2>1, <2>2, <2>3
<1>5. Carried(more) \subseteq Carried(ms) \cup (IF m.kind = "CS" THEN {m.cookie} ELSE {})
  <2> SUFFICES ASSUME NEW i \in 1 .. Len(more), more[i].kind = "CS"
               PROVE  more[i].cookie \in
                         Carried(ms) \cup (IF m.kind = "CS" THEN {m.cookie} ELSE {})
    BY DEF Carried
  <2> QED BY <1>1, <1>2, <1>3
<1> QED BY <1>1, <1>4, <1>5 DEF more

----------------------------------------------------------------------------
(* The inductive invariant *)

Types ==
    /\ cookies \in Nat
    /\ toWs \in Seq(ToWs)
    /\ toFes \in [Fronts -> Seq(ToWs)]
    /\ pending \in [Fronts -> SUBSET Cookies]
    /\ sockOf \in [Fronts -> [Users -> Socks \cup {None}]]
    /\ sock \in [Socks -> Connections \cup {Unused}]
    /\ entered \subseteq Socks

(* a cookie that is somewhere has been generated *)
Old == {c \in Cookies : c.key <= cookies}

Generated ==
    /\ Carried(toWs) \subseteq Old
    /\ \A f \in Fronts : Carried(toFes[f]) \cup pending[f] \subseteq Old
    /\ \A x \in entered : sock[x].cookie \in Old

(* and is in one place: on the way to WS, on the way to one front end, in  *)
(* its list, or with a connection that was let in                          *)
Singly == EachOnce(toWs) /\ \A f \in Fronts : EachOnce(toFes[f])

WsApart ==
    \A f \in Fronts : Carried(toWs) \cap (Carried(toFes[f]) \cup pending[f]) = {}

FesApart ==
    \A f, g \in Fronts :
       /\ Carried(toFes[f]) \cap pending[g] = {}
       /\ f # g => /\ Carried(toFes[f]) \cap Carried(toFes[g]) = {}
                   /\ pending[f] \cap pending[g] = {}

EnteredApart ==
    \A x \in entered :
       /\ sock[x].state \in {"in", "gone"}
       /\ sock[x].cookie \notin Carried(toWs)
       /\ \A f \in Fronts : sock[x].cookie \notin Carried(toFes[f]) \cup pending[f]

EntersOnce == \A x, y \in entered : sock[x].cookie = sock[y].cookie => x = y

InOnePlace == Singly /\ WsApart /\ FesApart /\ EnteredApart /\ EntersOnce

(* the connection of a user is his *)
His ==
    \A f \in Fronts : \A u \in Users :
       LET x == sockOf[f][u]
       IN x # None => /\ sock[x].state = "in"
                      /\ sock[x].cookie.user = u /\ sock[x].f = f

LetInInv == Types /\ Generated /\ InOnePlace /\ His

cookieVars == <<cookies, toWs, toFes, pending, sockOf, sock, entered>>

(* what leaves cookies and connections alone *)
LEMMA Untouched ==
    ASSUME LetInInv, UNCHANGED cookieVars
    PROVE  LetInInv'
<1>1. /\ cookies' = cookies /\ toWs' = toWs /\ toFes' = toFes /\ pending' = pending
      /\ sockOf' = sockOf /\ sock' = sock /\ entered' = entered
  BY DEF cookieVars
<1>2. Types' /\ His'
  BY <1>1 DEF LetInInv, Types, His
<1>3. /\ Carried(toWs)' = Carried(toWs) /\ EachOnce(toWs)' = EachOnce(toWs)
      /\ \A f \in Fronts : /\ Carried(toFes[f])' = Carried(toFes[f])
                           /\ EachOnce(toFes[f])' = EachOnce(toFes[f])
  BY <1>1 DEF Carried, EachOnce
<1> QED BY <1>1, <1>2, <1>3 DEF LetInInv, Generated, Old, InOnePlace, Singly, WsApart, FesApart,
                         EnteredApart, EntersOnce

(* cookies get lost, and the connections let in stay what they are *)
LEMMA Fewer ==
    ASSUME LetInInv, Types', His', cookies' = cookies, entered' = entered,
           EachOnce(toWs'), Carried(toWs') \subseteq Carried(toWs),
           \A f \in Fronts : /\ EachOnce(toFes'[f])
                             /\ Carried(toFes'[f]) \subseteq Carried(toFes[f])
                             /\ pending'[f] \subseteq pending[f],
           \A x \in entered : /\ sock'[x].state \in {"in", "gone"}
                              /\ sock'[x].cookie = sock[x].cookie
    PROVE  LetInInv'
<1>1. Old' = Old
  BY DEF Old
<1>2. Generated'
  BY <1>1 DEF LetInInv, Generated
<1>3. Singly' /\ EntersOnce'
  BY DEF LetInInv, InOnePlace, Singly, EntersOnce
<1>4. WsApart'
  BY DEF LetInInv, InOnePlace, WsApart
<1>5. FesApart'
  BY DEF LetInInv, InOnePlace, FesApart
<1>6. EnteredApart'
  BY DEF LetInInv, InOnePlace, EnteredApart
<1> QED BY <1>2, <1>3, <1>4, <1>5, <1>6 DEF LetInInv, InOnePlace

LEMMA Initially == Init => LetInInv
<1> SUFFICES ASSUME Init PROVE LetInInv
  OBVIOUS
<1>1. Types
  BY EmptySeq DEF Init, Types
<1>2. Carried(toWs) = {} /\ EachOnce(toWs)
  BY NothingCarried DEF Init
<1>3. \A f \in Fronts : Carried(toFes[f]) = {} /\ EachOnce(toFes[f]) /\ pending[f] = {}
  BY NothingCarried DEF Init
<1>4. entered = {} /\ \A f \in Fronts : \A u \in Users : sockOf[f][u] = None
  BY DEF Init
<1> QED BY <1>1, <1>2, <1>3, <1>4 DEF LetInInv, Generated, InOnePlace, Singly, WsApart,
                              FesApart, EnteredApart, EntersOnce, His

----------------------------------------------------------------------------
(* The steps of LS and WS *)

LEMMA LsAskStep ==
    ASSUME LetInInv, NEW u \in Users, LsAsk(u)
    PROVE  LetInInv'
<1>1. CASE UNCHANGED <<cookies, toWs>>
  BY <1>1, Untouched DEF LsAsk, cookieVars, fesVars, histVars
<1>2. CASE ~ UNCHANGED <<cookies, toWs>>
  <2> DEFINE c == [user |-> u, key |-> cookies + 1]
             m == [kind |-> "CS", cookie |-> c]
  <2>1. /\ cookies' = cookies + 1 /\ cookies < MaxCookies /\ toWs' = Append(toWs, m)
        /\ UNCHANGED <<toFes, pending, sockOf, sock, entered>>
    BY <1>2 DEF LsAsk, SendWs, fesVars, histVars
  <2>2. cookies \in Nat /\ MaxCookies \in Nat /\ c.key = cookies + 1
    BY ConstantsAssumption DEF LetInInv, Types
  <2>3. c \in Cookies /\ m \in ToWs
    BY <2>1, <2>2 DEF Cookies, ToWs
  <2>4. m.kind = "CS" /\ m.cookie = c
    OBVIOUS
  <2> HIDE DEF m, c
  <2>5. c \notin Old
    BY <2>2 DEF Old
  <2>6. Old \subseteq Old' /\ c \in Old'
    BY <2>1, <2>2, <2>3 DEF Old, Cookies
  <2>7. /\ toWs' \in Seq(ToWs) /\ EachOnce(toWs')
        /\ Carried(toWs') \subseteq Carried(toWs) \cup {c}
    BY <2>1, <2>3, <2>4, <2>5, OneMore
       DEF LetInInv, Types, InOnePlace, Singly, Generated
  <2>8. Types' /\ His'
    BY <2>1, <2>2, <2>7 DEF LetInInv, Types, His
  <2>9. Generated'
    BY <2>1, <2>6, <2>7 DEF LetInInv, Generated
  <2>10. InOnePlace'
    <3>1. Singly' /\ FesApart' /\ EntersOnce'
      BY <2>1, <2>7 DEF LetInInv, InOnePlace, Singly, FesApart, EntersOnce
    <3>2. WsApart'
      BY <2>1, <2>5, <2>7 DEF LetInInv, InOnePlace, WsApart, Generated
    <3>3. EnteredApart'
      BY <2>1, <2>5, <2>7 DEF LetInInv, InOnePlace, EnteredApart, Generated
    <3> QED BY <3>1, <3>2, <3>3 DEF InOnePlace
  <2> QED BY <2>8, <2>9, <2>10 DEF LetInInv
<1> QED BY <1>1, <1>2

LEMMA LsKickStep ==
    ASSUME LetInInv, NEW u \in Users, LsKick(u)
    PROVE  LetInInv'
<1> DEFINE m == [kind |-> "DC", user |-> u]
<1>1. /\ UNCHANGED <<cookies, toFes, pending, sockOf, sock, entered>>
      /\ toWs' = toWs \/ toWs' = Append(toWs, m)
  BY DEF LsKick, SendWs, fesVars, histVars
<1>2. m \in ToWs /\ m.kind # "CS"
  BY DEF ToWs
<1> HIDE DEF m
<1>3. /\ toWs' \in Seq(ToWs) /\ EachOnce(toWs')
      /\ Carried(toWs') \subseteq Carried(toWs)
  BY <1>1, <1>2, OneMore DEF LetInInv, Types, InOnePlace, Singly
<1>4. Types' /\ His'
  BY <1>1, <1>3 DEF LetInInv, Types, His
<1> QED BY <1>1, <1>3, <1>4, Fewer DEF LetInInv, InOnePlace, Singly, EnteredApart

LEMMA LinkLostStep ==
    ASSUME LetInInv, LinkLost
    PROVE  LetInInv'
<1>1. UNCHANGED <<cookies, toFes, pending, sockOf, sock, entered>> /\ toWs' = <<>>
  BY DEF LinkLost, fesVars
<1>2. Types' /\ His'
  BY <1>1, EmptySeq DEF LetInInv, Types, His
<1>3. EachOnce(toWs') /\ Carried(toWs') \subseteq Carried(toWs)
  BY <1>1, NothingCarried
<1> QED BY <1>1, <1>2, <1>3, Fewer DEF LetInInv, InOnePlace, Singly, EnteredApart

(* what WS passes to a front end, if to any *)
LEMMA WsReadsLsStep ==
    ASSUME LetInInv, WsReadsLs
    PROVE  LetInInv'
<1> DEFINE m == Head(toWs)
<1>1. /\ UNCHANGED <<cookies, pending, sockOf, sock, entered>>
      /\ toWs' = Tail(toWs) /\ toWs # <<>>
  BY DEF WsReadsLs, lsVars, fesVars, histVars
<1>2. \/ toFes' = toFes
      \/ \E g \in Fronts : toFes' = [toFes EXCEPT ![g] = Append(toFes[g], m)]
  <2>1. CASE ChooseShard(m)
    <3>1. PICK g : \/ toFes' = toFes
                   \/ toFes' = [toFes EXCEPT ![g] = Append(@, m)]
      BY <2>1, Zenon DEF ChooseShard
    <3>2. CASE g \in Fronts
      BY <3>1, <3>2
    <3>3. CASE g \notin Fronts
      BY <3>1, <3>3 DEF LetInInv, Types
    <3> QED BY <3>2, <3>3
  <2>2. CASE DisconnectClient(m)
    <3>1. PICK g : \/ toFes' = toFes
                   \/ toFes' = [toFes EXCEPT ![g] = Append(@, m)]
      BY <2>2, Zenon DEF DisconnectClient
    <3>2. CASE g \in Fronts
      BY <3>1, <3>2
    <3>3. CASE g \notin Fronts
      BY <3>1, <3>3 DEF LetInInv, Types
    <3> QED BY <3>2, <3>3
  <2> QED BY <2>1, <2>2 DEF WsReadsLs
<1>3. /\ m \in ToWs /\ toWs' \in Seq(ToWs) /\ EachOnce(toWs')
      /\ Carried(toWs') \subseteq Carried(toWs)
      /\ m.kind = "CS" => m.cookie \in Carried(toWs) /\ m.cookie \notin Carried(toWs')
  BY <1>1, HeadTaken DEF LetInInv, Types, InOnePlace, Singly
<1> HIDE DEF m
<1>4. His'
  BY <1>1 DEF LetInInv, His
<1>5. CASE toFes' = toFes
  <2> Types'
    BY <1>1, <1>3, <1>5 DEF LetInInv, Types
  <2> QED BY <1>1, <1>3, <1>4, <1>5, Fewer
          DEF LetInInv, InOnePlace, Singly, EnteredApart
<1>6. ASSUME NEW g \in Fronts, toFes' = [toFes EXCEPT ![g] = Append(toFes[g], m)]
      PROVE  LetInInv'
  <2> DEFINE C == IF m.kind = "CS" THEN {m.cookie} ELSE {}
  <2>1. C \subseteq Carried(toWs) /\ C \cap Carried(toWs') = {}
    BY <1>3
  <2>2. m.kind = "CS" => m.cookie \notin Carried(toFes[g])
    BY <1>3 DEF LetInInv, InOnePlace, WsApart
  <2>3. toFes[g] \in Seq(ToWs) /\ EachOnce(toFes[g])
    BY DEF LetInInv, Types, InOnePlace, Singly
  <2>4. /\ Append(toFes[g], m) \in Seq(ToWs) /\ EachOnce(Append(toFes[g], m))
        /\ Carried(Append(toFes[g], m)) \subseteq Carried(toFes[g]) \cup C
    BY <1>3, <2>2, <2>3, OneMore
  <2> HIDE DEF C
  <2>5. /\ toFes' \in [Fronts -> Seq(ToWs)]
        /\ \A f \in Fronts : EachOnce(toFes'[f])
        /\ Carried(toFes'[g]) \subseteq Carried(toFes[g]) \cup C
        /\ \A f \in Fronts \ {g} : toFes'[f] = toFes[f]
    BY <1>6, <2>4 DEF LetInInv, Types, InOnePlace, Singly
  <2>6. Types'
    BY <1>1, <1>3, <2>5 DEF LetInInv, Types
  <2>7. Old' = Old
    BY <1>1 DEF Old
  <2>8. Generated'
    BY <1>1, <1>3, <2>1, <2>5, <2>7 DEF LetInInv, Generated
  <2>9. Singly' /\ EntersOnce'
    BY <1>1, <1>3, <2>5 DEF LetInInv, InOnePlace, Singly, EntersOnce
  <2>10. WsApart'
    BY <1>1, <1>3, <2>1, <2>5 DEF LetInInv, InOnePlace, WsApart
  <2>11. FesApart'
    <3>1. \A f \in Fronts : C \cap (Carried(toFes[f]) \cup pending[f]) = {}
      BY <2>1 DEF LetInInv, InOnePlace, WsApart
    <3> QED BY <1>1, <2>5, <3>1 DEF LetInInv, InOnePlace, FesApart
  <2>12. EnteredApart'
    <3>1. \A x \in entered : sock[x].cookie \notin C
      BY <2>1 DEF LetInInv, InOnePlace, EnteredApart
    <3> QED BY <1>1, <1>3, <2>5, <3>1 DEF LetInInv, InOnePlace, EnteredApart
  <2> QED BY <1>4, <2>6, <2>8, <2>9, <2>10, <2>11, <2>12 DEF LetInInv, InOnePlace
<1> QED BY <1>2, <1>5, <1>6

----------------------------------------------------------------------------
(* The steps of the front ends and of the clients *)

(* what the connections are *)
LEMMA SockFacts ==
    ASSUME Types, NEW x \in Socks, sock[x] # Unused
    PROVE  /\ sock[x] \in Connections
           /\ sock[x].f \in Fronts /\ sock[x].cookie \in Cookies
           /\ sock[x].cookie.user \in Users
<1>1. sock[x] \in Connections
  BY DEF Types
<1> QED BY <1>1 DEF Connections, Cookies

LEMMA ClosedFacts ==
    ASSUME Types, NEW x \in Socks, sock[x] \in Connections,
           sock' = [sock EXCEPT ![x].closed = TRUE]
    PROVE  /\ sock' \in [Socks -> Connections \cup {Unused}]
           /\ \A y \in Socks : /\ sock'[y].state = sock[y].state
                               /\ sock'[y].cookie = sock[y].cookie
                               /\ sock'[y].f = sock[y].f
<1> DEFINE r == [sock[x] EXCEPT !.closed = TRUE]
<1>1. /\ r \in Connections /\ r.state = sock[x].state
      /\ r.cookie = sock[x].cookie /\ r.f = sock[x].f
  BY DEF Connections
<1>2. sock' = [sock EXCEPT ![x] = r]
  OBVIOUS
<1> HIDE DEF r
<1> QED BY <1>1, <1>2 DEF Types

LEMMA FesReadsStep ==
    ASSUME LetInInv, NEW f \in Fronts, FesReads(f)
    PROVE  LetInInv'
<1> DEFINE m == Head(toFes[f])
<1>1. /\ UNCHANGED <<cookies, toWs, sockOf, entered>>
      /\ toFes' = [toFes EXCEPT ![f] = Tail(@)] /\ toFes[f] # <<>>
  BY DEF FesReads, lsVars, wsVars
<1>2. toFes[f] \in Seq(ToWs) /\ EachOnce(toFes[f])
  BY DEF LetInInv, Types, InOnePlace, Singly
<1>3. /\ m \in ToWs /\ Tail(toFes[f]) \in Seq(ToWs) /\ EachOnce(Tail(toFes[f]))
      /\ Carried(Tail(toFes[f])) \subseteq Carried(toFes[f])
      /\ m.kind = "CS" => /\ m.cookie \in Carried(toFes[f])
                          /\ m.cookie \notin Carried(Tail(toFes[f]))
  BY <1>1, <1>2, HeadTaken
<1>4. /\ toFes' \in [Fronts -> Seq(ToWs)]
      /\ \A g \in Fronts : /\ EachOnce(toFes'[g])
                           /\ Carried(toFes'[g]) \subseteq Carried(toFes[g])
      /\ m.kind = "CS" => m.cookie \notin Carried(toFes'[f])
      /\ toFes'[f] = Tail(toFes[f])
  BY <1>1, <1>3 DEF LetInInv, Types, InOnePlace, Singly
<1>5. CASE m.kind = "CS" /\ WSChooseShard(f, m.cookie)
  <2> DEFINE c == m.cookie
  <2>1. c \in Cookies
    BY <1>3, <1>5 DEF ToWs
  <2>2. /\ sock' = sock
        /\ pending' = [pending EXCEPT ![f] =
              (pending[f] \ {d \in pending[f] : d.user = c.user}) \cup {c}]
    BY <1>5 DEF WSChooseShard
  <2>3. c \in Carried(toFes[f]) /\ c \notin Carried(toFes'[f])
    BY <1>3, <1>4, <1>5
  <2> HIDE DEF c, m
  <2>4. /\ pending' \in [Fronts -> SUBSET Cookies]
        /\ pending'[f] \subseteq pending[f] \cup {c}
        /\ \A g \in Fronts \ {f} : pending'[g] = pending[g]
    BY <2>1, <2>2 DEF LetInInv, Types
  <2>5. Types' /\ His'
    BY <1>1, <1>4, <2>2, <2>4 DEF LetInInv, Types, His
  <2>6. Old' = Old
    BY <1>1 DEF Old
  <2>7. Generated'
    BY <1>1, <1>4, <2>2, <2>3, <2>4, <2>6 DEF LetInInv, Generated
  <2>8. Singly' /\ EntersOnce'
    BY <1>1, <1>4, <2>2 DEF LetInInv, InOnePlace, Singly, EntersOnce
  <2>9. WsApart'
    BY <1>1, <1>4, <2>3, <2>4 DEF LetInInv, InOnePlace, WsApart
  <2>10. FesApart'
    <3>1. \A g \in Fronts : c \notin pending[g]
      BY <2>3 DEF LetInInv, InOnePlace, FesApart
    <3>2. \A g \in Fronts \ {f} : c \notin Carried(toFes[g])
      BY <2>3 DEF LetInInv, InOnePlace, FesApart
    <3>3. \A g \in Fronts : c \notin Carried(toFes'[g])
      BY <1>4, <2>3, <3>2
    <3>4. \A g, h \in Fronts : Carried(toFes'[g]) \cap pending'[h] = {}
      <4> SUFFICES ASSUME NEW g \in Fronts, NEW h \in Fronts,
                          NEW d \in Carried(toFes'[g]), d \in pending'[h]
                   PROVE  FALSE
        OBVIOUS
      <4>1. d # c /\ d \in Carried(toFes[g])
        BY <1>4, <3>3
      <4>2. d \in pending[h]
        BY <2>4, <4>1
      <4> QED BY <4>1, <4>2 DEF LetInInv, InOnePlace, FesApart
    <3>5. \A g, h \in Fronts : g # h => Carried(toFes'[g]) \cap Carried(toFes'[h]) = {}
      BY <1>4 DEF LetInInv, InOnePlace, FesApart
    <3>6. \A g, h \in Fronts : g # h => pending'[g] \cap pending'[h] = {}
      BY <2>4, <3>1 DEF LetInInv, InOnePlace, FesApart
    <3> QED BY <3>4, <3>5, <3>6 DEF FesApart
  <2>11. EnteredApart'
    <3>1. \A x \in entered : sock[x].cookie # c
      BY <2>3 DEF LetInInv, InOnePlace, EnteredApart
    <3> QED BY <1>1, <1>4, <2>2, <2>4, <3>1 DEF LetInInv, InOnePlace, EnteredApart
  <2> QED BY <2>5, <2>7, <2>8, <2>9, <2>10, <2>11 DEF LetInInv, InOnePlace
<1>6. CASE m.kind = "DC" /\ WSDisconnectClient(f, m.user)
  <2> DEFINE y == sockOf[f][m.user]
  <2>1. /\ pending' = pending
        /\ sock' = sock \/ (y # None /\ sock' = [sock EXCEPT ![y].closed = TRUE])
    BY <1>6 DEF WSDisconnectClient
  <2>2. m.user \in Users
    BY <1>3, <1>6 DEF ToWs
  <2>3. y # None => y \in Socks /\ sock[y].state = "in"
    BY <2>2 DEF LetInInv, Types, His
  <2> HIDE DEF y, m
  <2>4. y # None => sock[y] \in Connections
    BY <2>3, SockFacts DEF LetInInv, Unused
  <2>5. /\ sock' \in [Socks -> Connections \cup {Unused}]
        /\ \A x \in Socks : /\ sock'[x].state = sock[x].state
                            /\ sock'[x].cookie = sock[x].cookie
                            /\ sock'[x].f = sock[x].f
    <3>1. CASE sock' = sock
      BY <3>1 DEF LetInInv, Types
    <3>2. CASE y # None /\ sock' = [sock EXCEPT ![y].closed = TRUE]
      BY <3>2, <2>3, <2>4, ClosedFacts DEF LetInInv
    <3> QED BY <2>1, <3>1, <3>2
  <2>6. Types'
    BY <1>1, <1>4, <2>1, <2>5 DEF LetInInv, Types
  <2>7. His'
    BY <1>1, <2>5 DEF LetInInv, His, Types
  <2>8. \A x \in entered : /\ sock'[x].state \in {"in", "gone"}
                           /\ sock'[x].cookie = sock[x].cookie
    BY <2>5 DEF LetInInv, Types, InOnePlace, EnteredApart
  <2> QED BY <1>1, <1>4, <2>1, <2>6, <2>7, <2>8, Fewer
          DEF LetInInv, InOnePlace, Singly
<1> QED BY <1>5, <1>6 DEF FesReads

LEMMA RefreshStep ==
    ASSUME LetInInv, NEW f \in Fronts, RefreshPendingList(f)
    PROVE  LetInInv'
<1>1. UNCHANGED <<cookies, toWs, toFes, sockOf, sock, entered>>
  BY DEF RefreshPendingList, lsVars, histVars
<1>2. PICK c \in pending[f] : pending' = [pending EXCEPT ![f] = @ \ {c}]
  BY DEF RefreshPendingList
<1>3. /\ pending' \in [Fronts -> SUBSET Cookies]
      /\ \A g \in Fronts : pending'[g] \subseteq pending[g]
  BY <1>2 DEF LetInInv, Types
<1>4. Types' /\ His'
  BY <1>1, <1>3 DEF LetInInv, Types, His
<1> QED BY <1>1, <1>3, <1>4, Fewer DEF LetInInv, InOnePlace, Singly, EnteredApart

LEMMA ConnectStep ==
    ASSUME LetInInv, NEW x \in Socks, NEW c \in Cookies, NEW f \in Fronts,
           ConnectToShard(x, c, f)
    PROVE  LetInInv'
<1>1. /\ UNCHANGED <<cookies, toWs, toFes, pending, sockOf, entered>>
      /\ sock' = [sock EXCEPT ![x] = [state |-> "connected", closed |-> FALSE,
                                      f |-> f, cookie |-> c]]
      /\ sock[x] = Unused
  BY DEF ConnectToShard, lsVars, fesVars, netVars, histVars
<1>2. Types'
  BY <1>1 DEF LetInInv, Types, Connections
<1>3. sock[x].state = "unused"
  BY <1>1 DEF Unused
<1>4. \A y \in Socks : y = x \/ sock'[y] = sock[y]
  BY <1>1 DEF LetInInv, Types
<1>5. His'
  BY <1>1, <1>3, <1>4 DEF LetInInv, His, Types
<1>6. \A y \in entered : /\ sock'[y].state \in {"in", "gone"}
                         /\ sock'[y].cookie = sock[y].cookie
  BY <1>3, <1>4 DEF LetInInv, InOnePlace, EnteredApart, Types
<1> QED BY <1>1, <1>2, <1>5, <1>6, Fewer DEF LetInInv, InOnePlace, Singly

LEMMA ClientLeavesStep ==
    ASSUME LetInInv, NEW x \in Socks, ClientLeaves(x)
    PROVE  LetInInv'
<1>1. /\ UNCHANGED <<cookies, toWs, toFes, pending, sockOf, entered>>
      /\ sock' = [sock EXCEPT ![x].closed = TRUE]
      /\ sock[x].state \in {"connected", "in"}
  BY DEF ClientLeaves, lsVars, fesVars, netVars, histVars
<1>2. sock[x] \in Connections
  BY <1>1, SockFacts DEF LetInInv, Unused
<1>3. /\ sock' \in [Socks -> Connections \cup {Unused}]
      /\ \A y \in Socks : /\ sock'[y].state = sock[y].state
                          /\ sock'[y].cookie = sock[y].cookie
                          /\ sock'[y].f = sock[y].f
  BY <1>1, <1>2, ClosedFacts DEF LetInInv
<1>4. Types' /\ His'
  BY <1>1, <1>3 DEF LetInInv, His, Types
<1>5. \A y \in entered : /\ sock'[y].state \in {"in", "gone"}
                         /\ sock'[y].cookie = sock[y].cookie
  BY <1>3 DEF LetInInv, Types, InOnePlace, EnteredApart
<1> QED BY <1>1, <1>4, <1>5, Fewer DEF LetInInv, InOnePlace, Singly

LEMMA ShardValidationStep ==
    ASSUME LetInInv, NEW x \in Socks, ShardValidation(x)
    PROVE  LetInInv'
<1> DEFINE f == sock[x].f
           c == sock[x].cookie
           u == c.user
<1>1. /\ UNCHANGED <<cookies, toWs, toFes>> /\ sock[x].state = "connected"
  BY DEF ShardValidation, lsVars
<1>2. sock[x] \in Connections /\ f \in Fronts /\ c \in Cookies /\ u \in Users
  BY <1>1, SockFacts DEF LetInInv, Unused
<1>3. x \notin entered
  BY <1>1 DEF LetInInv, InOnePlace, EnteredApart
<1>4. \A g \in Fronts : \A v \in Users : sockOf[g][v] # x \/ x = None
  BY <1>1 DEF LetInInv, His
<1>5. CASE c \in pending[f]
  <2> DEFINE r == [sock[x] EXCEPT !.state = "in"]
  <2>1. /\ pending' = [pending EXCEPT ![f] = @ \ {c}]
        /\ sockOf' = [sockOf EXCEPT ![f][u] = IF @ = None THEN x ELSE @]
        /\ sock' = [sock EXCEPT ![x] = r]
        /\ entered' = entered \cup {x}
    BY <1>5 DEF ShardValidation
  <2>2. /\ r \in Connections /\ r.state = "in" /\ r.cookie = c /\ r.f = f
    BY <1>2 DEF Connections
  <2> HIDE DEF r
  <2>3. /\ sock' \in [Socks -> Connections \cup {Unused}] /\ sock'[x] = r
        /\ \A y \in Socks \ {x} : sock'[y] = sock[y]
    BY <2>1, <2>2 DEF LetInInv, Types
  <2>4. /\ pending' \in [Fronts -> SUBSET Cookies]
        /\ pending'[f] = pending[f] \ {c}
        /\ \A g \in Fronts \ {f} : pending'[g] = pending[g]
    BY <1>2, <2>1 DEF LetInInv, Types
  <2>5. /\ sockOf' \in [Fronts -> [Users -> Socks \cup {None}]]
        /\ sockOf'[f][u] = IF sockOf[f][u] = None THEN x ELSE sockOf[f][u]
        /\ \A g \in Fronts : \A v \in Users :
              g # f \/ v # u => sockOf'[g][v] = sockOf[g][v]
    BY <1>2, <2>1 DEF LetInInv, Types
  <2>6. Types'
    BY <1>1, <2>1, <2>3, <2>4, <2>5 DEF LetInInv, Types
  <2>7. His'
    <3> SUFFICES ASSUME NEW g \in Fronts, NEW v \in Users, sockOf'[g][v] # None
                 PROVE  /\ sock'[sockOf'[g][v]].state = "in"
                        /\ sock'[sockOf'[g][v]].cookie.user = v
                        /\ sock'[sockOf'[g][v]].f = g
      BY DEF His
    <3>1. CASE sockOf'[g][v] = sockOf[g][v]
      <4>1. sockOf[g][v] \in Socks \ {x}
        BY <1>4, <3>1 DEF LetInInv, Types
      <4> QED BY <2>3, <3>1, <4>1 DEF LetInInv, His
    <3>2. CASE sockOf'[g][v] = x /\ g = f /\ v = u
      BY <2>2, <2>3, <3>2
    <3> QED BY <2>5, <3>1, <3>2
  <2>8. Old' = Old
    BY <1>1 DEF Old
  <2>9. c \in Old
    BY <1>2, <1>5 DEF LetInInv, Generated
  <2>10. /\ \A y \in entered : sock'[y] = sock[y]
         /\ sock'[x].cookie = c /\ sock'[x].state = "in"
    BY <1>3, <2>2, <2>3 DEF LetInInv, Types
  <2> HIDE DEF c, f, u
  <2>11. Generated'
    BY <1>1, <2>1, <2>4, <2>8, <2>9, <2>10 DEF LetInInv, Generated
  <2>12. Singly' /\ WsApart' /\ FesApart'
    BY <1>1, <2>4 DEF LetInInv, InOnePlace, Singly, WsApart, FesApart
  <2>13. EntersOnce'
    <3>1. \A y \in entered : sock[y].cookie # c
      BY <1>2, <1>5 DEF LetInInv, InOnePlace, EnteredApart
    <3> QED BY <2>1, <2>10, <3>1 DEF LetInInv, InOnePlace, EntersOnce
  <2>14. EnteredApart'
    <3>1. c \notin Carried(toWs) /\ \A g \in Fronts : c \notin Carried(toFes[g])
      BY <1>2, <1>5 DEF LetInInv, InOnePlace, WsApart, FesApart
    <3>2. \A g \in Fronts : c \notin pending'[g]
      BY <1>2, <1>5, <2>4 DEF LetInInv, InOnePlace, FesApart
    <3>3. \A g \in Fronts : pending'[g] \subseteq pending[g]
      BY <2>4
    <3> QED BY <1>1, <2>1, <2>10, <3>1, <3>2, <3>3
            DEF LetInInv, InOnePlace, EnteredApart
  <2> QED BY <2>6, <2>7, <2>11, <2>12, <2>13, <2>14 DEF LetInInv, InOnePlace
<1>6. CASE c \notin pending[f]
  <2> DEFINE r == [sock[x] EXCEPT !.state = "refused", !.closed = TRUE]
  <2>1. UNCHANGED <<pending, sockOf, entered>> /\ sock' = [sock EXCEPT ![x] = r]
    BY <1>6 DEF ShardValidation
  <2>2. r \in Connections
    BY <1>2 DEF Connections
  <2> HIDE DEF r
  <2>3. /\ sock' \in [Socks -> Connections \cup {Unused}]
        /\ \A y \in Socks \ {x} : sock'[y] = sock[y]
    BY <2>1, <2>2 DEF LetInInv, Types
  <2>4. Types'
    BY <1>1, <2>1, <2>3 DEF LetInInv, Types
  <2>5. His'
    BY <1>4, <2>1, <2>3 DEF LetInInv, His, Types
  <2>6. \A y \in entered : /\ sock'[y].state \in {"in", "gone"}
                           /\ sock'[y].cookie = sock[y].cookie
    BY <1>3, <2>3 DEF LetInInv, Types, InOnePlace, EnteredApart
  <2> QED BY <1>1, <2>1, <2>4, <2>5, <2>6, Fewer DEF LetInInv, InOnePlace, Singly
<1> QED BY <1>5, <1>6

LEMMA ClientDisconnectedStep ==
    ASSUME LetInInv, NEW x \in Socks, ClientDisconnected(x)
    PROVE  LetInInv'
<1> DEFINE f == sock[x].f
           u == sock[x].cookie.user
           r == [sock[x] EXCEPT !.state = "gone"]
<1>1. /\ UNCHANGED <<cookies, toWs, toFes, pending, entered>>
      /\ sock[x].state \in {"in", "refused"}
      /\ sock' = [sock EXCEPT ![x] = r]
      /\ \/ sock[x].state = "in" /\ sockOf' = [sockOf EXCEPT ![f][u] = None]
         \/ sock[x].state = "refused" /\ sockOf' = sockOf
  BY DEF ClientDisconnected, lsVars, histVars
<1>2. sock[x] \in Connections /\ f \in Fronts /\ u \in Users
  BY <1>1, SockFacts DEF LetInInv, Unused
<1>3. r \in Connections /\ r.state = "gone" /\ r.cookie = sock[x].cookie
  BY <1>2 DEF Connections
<1> HIDE DEF r
<1>4. /\ sock' \in [Socks -> Connections \cup {Unused}] /\ sock'[x] = r
      /\ \A y \in Socks \ {x} : sock'[y] = sock[y]
  BY <1>1, <1>3 DEF LetInInv, Types
<1>5. /\ sockOf' \in [Fronts -> [Users -> Socks \cup {None}]]
      /\ \A g \in Fronts : \A v \in Users :
            sockOf'[g][v] = sockOf[g][v] \/ sockOf'[g][v] = None
      /\ sock[x].state = "in" => sockOf'[f][u] = None
  <2>1. CASE sockOf' = sockOf /\ sock[x].state = "refused"
    BY <2>1 DEF LetInInv, Types
  <2>2. CASE sockOf' = [sockOf EXCEPT ![f][u] = None]
    <3> HIDE DEF f, u
    <3>1. sockOf' \in [Fronts -> [Users -> Socks \cup {None}]]
      BY <1>2, <2>2 DEF LetInInv, Types
    <3>2. sockOf'[f][u] = None
      BY <1>2, <2>2 DEF LetInInv, Types
    <3>3. \A g \in Fronts : \A v \in Users :
             sockOf'[g][v] = sockOf[g][v] \/ sockOf'[g][v] = None
      BY <1>2, <2>2 DEF LetInInv, Types
    <3> QED BY <3>1, <3>2, <3>3
  <2> QED BY <1>1, <2>1, <2>2
<1>6. Types'
  BY <1>1, <1>4, <1>5 DEF LetInInv, Types
<1>7. His'
  <2> SUFFICES ASSUME NEW g \in Fronts, NEW v \in Users, sockOf'[g][v] # None
               PROVE  /\ sock'[sockOf'[g][v]].state = "in"
                      /\ sock'[sockOf'[g][v]].cookie.user = v
                      /\ sock'[sockOf'[g][v]].f = g
    BY DEF His
  <2>1. sockOf'[g][v] = sockOf[g][v] /\ sockOf[g][v] \in Socks
    BY <1>5 DEF LetInInv, Types
  <2>2. sockOf[g][v] # x
    BY <1>5, <2>1 DEF LetInInv, His
  <2> QED BY <1>4, <2>1, <2>2 DEF LetInInv, His
<1>8. \A y \in entered : /\ sock'[y].state \in {"in", "gone"}
                         /\ sock'[y].cookie = sock[y].cookie
  BY <1>3, <1>4 DEF LetInInv, Types, InOnePlace, EnteredApart
<1> QED BY <1>1, <1>6, <1>7, <1>8, Fewer DEF LetInInv, InOnePlace, Singly

LEMMA FrontDiesStep ==
    ASSUME LetInInv, NEW f \in Fronts, FrontDies(f)
    PROVE  LetInInv'
<1>1. /\ UNCHANGED <<cookies, toWs, entered>>
      /\ pending' = [pending EXCEPT ![f] = {}]
      /\ sockOf' = [sockOf EXCEPT ![f] = [u \in Users |-> None]]
      /\ toFes' = [toFes EXCEPT ![f] = <<>>]
      /\ sock' = [x \in Socks |-> IF sock[x] # Unused /\ sock[x].f = f
                                  THEN [sock[x] EXCEPT !.state = "gone"] ELSE sock[x]]
  BY DEF FrontDies, lsVars
<1>2. \A x \in Socks : sock[x] # Unused =>
         /\ [sock[x] EXCEPT !.state = "gone"] \in Connections
         /\ [sock[x] EXCEPT !.state = "gone"].state = "gone"
         /\ [sock[x] EXCEPT !.state = "gone"].cookie = sock[x].cookie
  BY SockFacts DEF LetInInv, Connections
<1>3. /\ sock' \in [Socks -> Connections \cup {Unused}]
      /\ \A x \in Socks : \/ sock'[x] = sock[x]
                          \/ /\ sock[x].f = f /\ sock'[x].state = "gone"
                             /\ sock'[x].cookie = sock[x].cookie
  BY <1>1, <1>2 DEF LetInInv, Types
<1>4. /\ pending' \in [Fronts -> SUBSET Cookies]
      /\ \A g \in Fronts : pending'[g] \subseteq pending[g]
  BY <1>1 DEF LetInInv, Types
<1>5. /\ toFes' \in [Fronts -> Seq(ToWs)]
      /\ \A g \in Fronts : /\ EachOnce(toFes'[g])
                           /\ Carried(toFes'[g]) \subseteq Carried(toFes[g])
  BY <1>1, EmptySeq, NothingCarried DEF LetInInv, Types, InOnePlace, Singly
<1>6. /\ sockOf' \in [Fronts -> [Users -> Socks \cup {None}]]
      /\ \A u \in Users : sockOf'[f][u] = None
      /\ \A g \in Fronts \ {f} : sockOf'[g] = sockOf[g]
  BY <1>1 DEF LetInInv, Types
<1>7. Types'
  BY <1>1, <1>3, <1>4, <1>5, <1>6 DEF LetInInv, Types
<1>8. His'
  <2> SUFFICES ASSUME NEW g \in Fronts, NEW u \in Users, sockOf'[g][u] # None
               PROVE  /\ sock'[sockOf'[g][u]].state = "in"
                      /\ sock'[sockOf'[g][u]].cookie.user = u
                      /\ sock'[sockOf'[g][u]].f = g
    BY DEF His
  <2>1. g # f /\ sockOf'[g][u] = sockOf[g][u] /\ sockOf[g][u] \in Socks
    BY <1>6 DEF LetInInv, Types
  <2>2. sock'[sockOf[g][u]] = sock[sockOf[g][u]]
    BY <1>3, <2>1 DEF LetInInv, His
  <2> QED BY <2>1, <2>2 DEF LetInInv, His
<1>9. \A x \in entered : /\ sock'[x].state \in {"in", "gone"}
                         /\ sock'[x].cookie = sock[x].cookie
  BY <1>3 DEF LetInInv, Types, InOnePlace, EnteredApart
<1> QED BY <1>1, <1>4, <1>5, <1>7, <1>8, <1>9, Fewer
        DEF LetInInv, InOnePlace, Singly

----------------------------------------------------------------------------
(* Theorems *)

LEMMA Inductive == LetInInv /\ [Next]_vars => LetInInv'
<1> SUFFICES ASSUME LetInInv, [Next]_vars
             PROVE  LetInInv'
  OBVIOUS
<1>1. ASSUME NEW u \in Users, Asks(u)
      PROVE  LetInInv'
  <2>1. CASE WebCheck(u) \/ WebKicked(u)
    BY <2>1, Untouched
       DEF WebCheck, WebKicked, cookieVars, fesVars, netVars, histVars
  <2> QED BY <1>1, <2>1, LsAskStep, LsKickStep DEF Asks
<1>2. CASE LsReads
  BY <1>2, Untouched DEF LsReads, ClientConnected, ShardChosen, cookieVars, fesVars,
                         histVars
<1>3. CASE LinkBack
  BY <1>3, Untouched DEF LinkBack, cookieVars, fesVars, netVars, histVars
<1>4. CASE WsServes
  <2>1. ASSUME NEW f \in Fronts, WsReadsFes(f) \/ FrontDown(f)
        PROVE  LetInInv'
    <3>1. CASE WsReadsFes(f)
      BY <3>1, Untouched DEF WsReadsFes, cookieVars, lsVars, fesVars
    <3>2. CASE FrontDown(f)
      BY <3>2, Untouched DEF FrontDown, cookieVars, lsVars, fesVars
    <3> QED BY <2>1, <3>1, <3>2
  <2> QED BY <1>4, <2>1, WsReadsLsStep DEF WsServes
<1>5. ASSUME NEW f \in Fronts, FrontUp(f)
      PROVE  LetInInv'
  BY <1>5, Untouched DEF FrontUp, cookieVars, lsVars, netVars, histVars
<1>6. ASSUME NEW f \in Fronts, FesServes(f)
      PROVE  LetInInv'
  BY <1>6, FesReadsStep, ShardValidationStep, ClientDisconnectedStep DEF FesServes
<1>7. CASE UNCHANGED vars
  BY <1>7, Untouched DEF vars, cookieVars, lsVars, fesVars, netVars, histVars
<1> QED BY <1>1, <1>2, <1>3, <1>4, <1>5, <1>6, <1>7, LinkLostStep, RefreshStep,
           FrontDiesStep, ConnectStep, ClientLeavesStep DEF Next

(* The inductive invariant holds for every number of users, front ends and *)
(* cookies: a cookie is in one place on its way from cbAskClientConnection *)
(* to cbShardValidation, or nowhere.                                       *)
THEOREM CookiesAreInOnePlace == Spec => []LetInInv
BY Initially, Inductive, PTL DEF Spec

(* For every number of users, front ends and cookies, whatever expires, is *)
(* replaced, ends or is lost: a cookie lets in one connection, and the one *)
(* a front end has for a user is his (login_server.cpp, cbShardValidation).*)
THEOREM LetInOnce == Spec => []LetIn
<1>1. LetInInv => LetIn
  BY SockFacts DEF LetInInv, InOnePlace, EntersOnce, His, LetIn, In, Types
<1> QED BY <1>1, CookiesAreInOnePlace, PTL

----------------------------------------------------------------------------

LEMMA Least ==
    ASSUME NEW S \in SUBSET Nat, S # {}
    PROVE  \E x \in S : \A y \in S : x <= y
<1>1. PICK x \in S : \A y \in S : ~(<<y, x>> \in OpToRel(<, Nat))
  BY WFMin, NatLessThanWellFounded, Zenon
<1>2. \A y \in S : ~(y < x)
  BY <1>1, Zenon DEF OpToRel
<1> QED BY <1>2

----------------------------------------------------------------------------
(* How many of the first k messages of a sequence are among T *)

Of(ms, k, T) == {i \in 1 .. k : ms[i] \in T}
NumberTo(ms, k, T) == Cardinality(Of(ms, k, T))
Number(ms, T) == NumberTo(ms, Len(ms), T)

One(m, T) == IF m \in T THEN 1 ELSE 0

LEMMA NumberFacts ==
    ASSUME NEW ms, NEW T, NEW k \in Nat
    PROVE  /\ IsFiniteSet(Of(ms, k, T))
           /\ NumberTo(ms, k, T) \in Nat
           /\ NumberTo(ms, 0, T) = 0
           /\ NumberTo(ms, k + 1, T) = NumberTo(ms, k, T) + One(ms[k + 1], T)
<1>1. IsFiniteSet(1 .. k) /\ IsFiniteSet(1 .. k + 1)
  BY FS_Interval
<1>2. IsFiniteSet(Of(ms, k, T)) /\ Cardinality(Of(ms, k, T)) \in Nat
  <2> Of(ms, k, T) \in SUBSET (1 .. k)
    BY DEF Of
  <2> QED BY <1>1, FS_Subset, FS_CardinalityType
<1>3. NumberTo(ms, 0, T) = 0
  <2> Of(ms, 0, T) = {}
    BY DEF Of
  <2> QED BY FS_EmptySet DEF NumberTo
<1>4. NumberTo(ms, k + 1, T) = NumberTo(ms, k, T) + One(ms[k + 1], T)
  <2>1. CASE ms[k + 1] \in T
    <3>1. Of(ms, k + 1, T) = Of(ms, k, T) \cup {k + 1} /\ k + 1 \notin Of(ms, k, T)
      BY <2>1 DEF Of
    <3> QED BY <1>2, <2>1, <3>1, FS_AddElement DEF NumberTo, One
  <2>2. CASE ms[k + 1] \notin T
    <3>1. Of(ms, k + 1, T) = Of(ms, k, T)
      BY <2>2 DEF Of
    <3> QED BY <1>2, <2>2, <3>1 DEF NumberTo, One
  <2> QED BY <2>1, <2>2
<1> QED BY <1>2, <1>3, <1>4 DEF NumberTo

LEMMA NumberAppend ==
    ASSUME NEW S, NEW ms \in Seq(S), NEW m \in S, NEW T
    PROVE  /\ \A k \in 0 .. Len(ms) : NumberTo(Append(ms, m), k, T) = NumberTo(ms, k, T)
           /\ Number(Append(ms, m), T) = Number(ms, T) + One(m, T)
           /\ Len(Append(ms, m)) = Len(ms) + 1 /\ Len(ms) \in Nat
<1> DEFINE more == Append(ms, m)
<1>1. /\ Len(more) = Len(ms) + 1 /\ Len(ms) \in Nat
      /\ \A i \in 1 .. Len(ms) : more[i] = ms[i]
      /\ more[Len(ms) + 1] = m
  BY AppendProperties
<1> HIDE DEF more
<1>2. ASSUME NEW k \in 0 .. Len(ms)
      PROVE  NumberTo(more, k, T) = NumberTo(ms, k, T)
  <2> Of(more, k, T) = Of(ms, k, T)
    BY <1>1 DEF Of
  <2> QED BY DEF NumberTo
<1>3. NumberTo(more, Len(ms) + 1, T) = NumberTo(more, Len(ms), T) + One(m, T)
  BY <1>1, NumberFacts
<1> QED BY <1>1, <1>2, <1>3 DEF Number, more

LEMMA NumberTail ==
    ASSUME NEW S, NEW ms \in Seq(S), ms # <<>>, NEW T
    PROVE  /\ \A k \in 0 .. Len(ms) - 1 :
                 NumberTo(ms, k + 1, T) = NumberTo(Tail(ms), k, T) + One(Head(ms), T)
           /\ Number(ms, T) = Number(Tail(ms), T) + One(Head(ms), T)
           /\ Len(Tail(ms)) = Len(ms) - 1 /\ Len(ms) \in Nat \ {0}
           /\ Tail(ms) \in Seq(S) /\ Head(ms) \in S
<1> DEFINE r == Tail(ms)
<1>1. /\ Len(r) = Len(ms) - 1 /\ Len(ms) \in Nat \ {0} /\ r \in Seq(S)
      /\ Head(ms) = ms[1] /\ Head(ms) \in S
      /\ \A i \in 1 .. Len(r) : r[i] = ms[i + 1]
  BY HeadTailProperties, EmptySeq, LenProperties
<1> HIDE DEF r
<1>2. ASSUME NEW k \in 0 .. Len(ms) - 1
      PROVE  NumberTo(ms, k + 1, T) = NumberTo(r, k, T) + One(Head(ms), T)
  <2> DEFINE A == Of(r, k, T)
             B == {i \in 2 .. k + 1 : ms[i] \in T}
             f == [i \in A |-> i + 1]
  <2>1. A \in SUBSET (1 .. k) /\ IsFiniteSet(A) /\ Cardinality(A) = NumberTo(r, k, T)
    <3> k \in Nat
      BY <1>1
    <3> QED BY NumberFacts DEF Of, NumberTo
  <2>2. f \in [A -> B]
    BY <1>1 DEF Of
  <2>3. \A i, j \in A : f[i] = f[j] => i = j
    BY <2>1
  <2>4. \A j \in B : \E i \in A : f[i] = j
    <3> SUFFICES ASSUME NEW j \in B PROVE j - 1 \in A /\ f[j - 1] = j
      OBVIOUS
    <3>1. j - 1 \in 1 .. k /\ j - 1 \in 1 .. Len(r) /\ r[j - 1] = ms[j]
      BY <1>1
    <3>2. j - 1 \in A
      BY <3>1 DEF Of
    <3> QED BY <3>2
  <2> HIDE DEF A, B, f
  <2>5. ExistsBijection(A, B)
    <3>1. DOMAIN f = A
      BY <2>2
    <3>2. f \in Bijection(A, B)
      BY <2>2, <2>3, <2>4, <3>1 DEF Bijection, Injection, Surjection, IsInjective
    <3> QED BY <3>2 DEF ExistsBijection
  <2>6. IsFiniteSet(B) /\ Cardinality(B) = NumberTo(r, k, T)
    BY <2>1, <2>5, FS_Bijection
  <2>7. CASE ms[1] \in T
    <3>1. Of(ms, k + 1, T) = B \cup {1} /\ 1 \notin B
      BY <2>7 DEF Of, B
    <3> QED BY <1>1, <2>6, <2>7, <3>1, FS_AddElement DEF NumberTo, One
  <2>8. CASE ms[1] \notin T
    <3>1. Of(ms, k + 1, T) = B
      BY <2>8 DEF Of, B
    <3> QED BY <1>1, <2>6, <2>8, <3>1, NumberFacts DEF NumberTo, One
  <2> QED BY <2>7, <2>8
<1>3. NumberTo(ms, (Len(ms) - 1) + 1, T) = NumberTo(r, Len(ms) - 1, T) + One(Head(ms), T)
  BY <1>1, <1>2
<1> QED BY <1>1, <1>2, <1>3 DEF Number, r

----------------------------------------------------------------------------
(* What NbUser and NbPendingUsers of a front end are compared with: q and  *)
(* t are the messages from and to it, p are the cookies it has or has      *)
(* replaced, n its connections that are in                                 *)

Ins == {m \in FromFes : m.kind = "CC" /\ m.con = TRUE}
Outs == {m \in FromFes : m.kind = "CC" /\ m.con = FALSE}
Removals == {m \in FromFes : m.kind = "RPC"}
Chosen == {m \in ToWs : m.kind = "CS"}

(* nobody is reported to go who was not reported to come *)
Guarded(q, nbUser) ==
    \A k \in 0 .. Len(q) : NumberTo(q, k, Outs) <= nbUser + NumberTo(q, k, Ins)

Balance(e, q, t, p, n) ==
    /\ e.nbUser + Number(q, Ins) = Number(q, Outs) + n
    /\ Guarded(q, e.nbUser)
    /\ e.nbPending = p + Number(q, Ins) + Number(t, Chosen) + Number(q, Removals)

LEMMA NumbersAre ==
    ASSUME NEW q \in Seq(FromFes), NEW t \in Seq(ToWs)
    PROVE  /\ Number(q, Ins) \in Nat /\ Number(q, Outs) \in Nat
           /\ Number(q, Removals) \in Nat /\ Number(t, Chosen) \in Nat
           /\ \A k \in 0 .. Len(q) : NumberTo(q, k, Outs) \in Nat /\ NumberTo(q, k, Ins) \in Nat
<1> Len(q) \in Nat /\ Len(t) \in Nat
  BY LenProperties
<1> QED BY NumberFacts DEF Number

LEMMA KindsDiffer ==
    ASSUME NEW m \in FromFes
    PROVE  /\ One(m, Ins) = IF m \in Ins THEN 1 ELSE 0
           /\ One(m, Outs) = IF m \in Outs THEN 1 ELSE 0
           /\ One(m, Removals) = IF m \in Removals THEN 1 ELSE 0
           /\ m \in Ins => m \notin Outs /\ m \notin Removals
           /\ m \in Outs => m \notin Removals
           /\ m.kind = "RPC" <=> m \in Removals
           /\ m.kind = "CC" <=> m \in Ins \cup Outs
           /\ m.kind = "CC" => (m.con <=> m \in Ins) /\ (~m.con <=> m \in Outs) /\ m.user \in Users
           /\ m.kind \in {"CC", "RPC", "SCS"}
BY DEF One, Ins, Outs, Removals, FromFes, ToLs

(* a message is added; who is reported to go is in *)
LEMMA BalanceAppend ==
    ASSUME NEW e \in FES, NEW q \in Seq(FromFes), NEW t \in Seq(ToWs), NEW p \in Nat,
           NEW n \in Nat, Balance(e, q, t, p, n), NEW m \in FromFes
    PROVE  /\ m \in Ins /\ p > 0 => Balance(e, Append(q, m), t, p - 1, n + 1)
           /\ m \in Outs /\ n > 0 => Balance(e, Append(q, m), t, p, n - 1)
           /\ m \in Removals /\ p > 0 => Balance(e, Append(q, m), t, p - 1, n)
           /\ m.kind = "SCS" => Balance(e, Append(q, m), t, p, n)
<1> DEFINE r == Append(q, m)
<1>1. /\ Number(r, Ins) = Number(q, Ins) + One(m, Ins)
      /\ Number(r, Outs) = Number(q, Outs) + One(m, Outs)
      /\ Number(r, Removals) = Number(q, Removals) + One(m, Removals)
      /\ Len(r) = Len(q) + 1 /\ Len(q) \in Nat
      /\ \A k \in 0 .. Len(q) : /\ NumberTo(r, k, Outs) = NumberTo(q, k, Outs)
                                /\ NumberTo(r, k, Ins) = NumberTo(q, k, Ins)
  BY NumberAppend
<1> HIDE DEF r
<1>2. NumberTo(r, Len(q) + 1, Outs) = Number(r, Outs) /\ NumberTo(r, Len(q) + 1, Ins) = Number(r, Ins)
  BY <1>1 DEF Number
<1>3. e.nbUser \in Nat /\ e.nbPending \in Nat
  BY DEF FES
<1>4. /\ Number(q, Ins) \in Nat /\ Number(q, Outs) \in Nat
      /\ Number(q, Removals) \in Nat /\ Number(t, Chosen) \in Nat
  BY NumbersAre
<1>5. /\ e.nbUser + Number(q, Ins) = Number(q, Outs) + n
      /\ e.nbPending = p + Number(q, Ins) + Number(t, Chosen) + Number(q, Removals)
      /\ Guarded(q, e.nbUser)
  BY DEF Balance
<1>6. (m \in Outs => n > 0) => Guarded(r, e.nbUser)
  <2> SUFFICES ASSUME m \in Outs => n > 0, NEW k \in 0 .. Len(r)
               PROVE  NumberTo(r, k, Outs) <= e.nbUser + NumberTo(r, k, Ins)
    BY DEF Guarded
  <2>1. CASE k \in 0 .. Len(q)
    BY <2>1, <1>1, <1>5 DEF Guarded
  <2>2. CASE k = Len(q) + 1
    <3>1. One(m, Outs) \in {0, 1} /\ One(m, Ins) \in {0, 1} /\ (One(m, Outs) = 1 => n > 0)
      BY DEF One
    <3>2. /\ Number(r, Ins) = Number(q, Ins) + One(m, Ins)
          /\ Number(r, Outs) = Number(q, Outs) + One(m, Outs)
      BY <1>1
    <3>3. e.nbUser + Number(q, Ins) = Number(q, Outs) + n
      BY <1>5
    <3>4. Number(r, Outs) <= e.nbUser + Number(r, Ins)
      <4>1. Number(q, Outs) + One(m, Outs) <= e.nbUser + Number(q, Ins)
        BY <1>3, <1>4, <3>1, <3>3
      <4>2. e.nbUser + Number(q, Ins) <= e.nbUser + (Number(q, Ins) + One(m, Ins))
        BY <1>3, <1>4, <3>1
      <4> QED BY <4>1, <4>2, <1>3, <1>4, <3>1, <3>2
    <3> QED BY <2>2, <3>4, <1>2
  <2> QED BY <1>1, <2>1, <2>2
<1>7. One(m, Ins) \in {0, 1} /\ One(m, Outs) \in {0, 1} /\ One(m, Removals) \in {0, 1}
  BY DEF One
<1>8. ASSUME NEW pp \in Nat, NEW nn \in Nat,
             pp + One(m, Ins) + One(m, Removals) = p, nn + One(m, Outs) = n + One(m, Ins),
             m \in Outs => n > 0
      PROVE  Balance(e, r, t, pp, nn)
  <2> DEFINE ri == Number(r, Ins)
             ro == Number(r, Outs)
             rr == Number(r, Removals)
             qi == Number(q, Ins)
             qo == Number(q, Outs)
             qr == Number(q, Removals)
             c == Number(t, Chosen)
             i == One(m, Ins)
             o == One(m, Outs)
             x == One(m, Removals)
             eu == e.nbUser
             ep == e.nbPending
  <2>1. /\ qi \in Nat /\ qo \in Nat /\ qr \in Nat /\ c \in Nat
        /\ i \in Nat /\ o \in Nat /\ x \in Nat /\ eu \in Nat /\ ep \in Nat
        /\ ri = qi + i /\ ro = qo + o /\ rr = qr + x
    <3>1. ri = qi + i /\ ro = qo + o /\ rr = qr + x
      BY <1>1
    <3>2. i \in Nat /\ o \in Nat /\ x \in Nat
      BY <1>7
    <3> QED BY <3>1, <3>2, <1>3, <1>4
  <2>2. eu + qi = qo + n /\ nn + o = n + i
    BY <1>5, <1>8
  <2>3. ep = p + qi + c + qr /\ pp + i + x = p
    BY <1>5, <1>8
  <2>4. Guarded(r, eu)
    BY <1>6, <1>8
  <2> HIDE DEF ri, ro, rr, qi, qo, qr, c, i, o, x, eu, ep
  <2>5. eu + ri = ro + nn
    BY <2>1, <2>2
  <2>6. ep = pp + ri + c + rr
    BY <2>1, <2>3
  <2> QED BY <2>4, <2>5, <2>6 DEF Balance, ri, ro, rr, c, eu, ep
<1>9. ASSUME m \in Ins, p > 0 PROVE Balance(e, r, t, p - 1, n + 1)
  <2>1. One(m, Ins) = 1 /\ One(m, Outs) = 0 /\ One(m, Removals) = 0 /\ ~(m \in Outs)
    BY <1>9, KindsDiffer
  <2> QED BY <1>8, <1>9, <2>1
<1>10. ASSUME m \in Outs, n > 0 PROVE Balance(e, r, t, p, n - 1)
  <2>1. One(m, Ins) = 0 /\ One(m, Outs) = 1 /\ One(m, Removals) = 0
    BY <1>10, KindsDiffer
  <2> QED BY <1>8, <1>10, <2>1
<1>11. ASSUME m \in Removals, p > 0 PROVE Balance(e, r, t, p - 1, n)
  <2>1. One(m, Ins) = 0 /\ One(m, Outs) = 0 /\ One(m, Removals) = 1 /\ ~(m \in Outs)
    BY <1>11, KindsDiffer
  <2> QED BY <1>8, <1>11, <2>1
<1>12. ASSUME m.kind = "SCS" PROVE Balance(e, r, t, p, n)
  <2>1. One(m, Ins) = 0 /\ One(m, Outs) = 0 /\ One(m, Removals) = 0 /\ ~(m \in Outs)
    BY <1>12, KindsDiffer
  <2> QED BY <1>8, <2>1
<1> QED BY <1>9, <1>10, <1>11, <1>12 DEF r

(* a message is read: the guards against 0 are never needed *)
LEMMA BalanceTail ==
    ASSUME NEW e \in FES, NEW q \in Seq(FromFes), NEW t \in Seq(ToWs), NEW p \in Nat,
           NEW n \in Nat, Balance(e, q, t, p, n), q # <<>>, NEW d \in FES,
           LET m == Head(q)
           IN \/ m \in Ins /\ d.nbUser = e.nbUser + 1 /\ d.nbPending = Less(e.nbPending)
              \/ m \in Outs /\ d.nbUser = Less(e.nbUser) /\ d.nbPending = e.nbPending
              \/ m \in Removals /\ d.nbUser = e.nbUser /\ d.nbPending = Less(e.nbPending)
              \/ m.kind = "SCS" /\ d.nbUser = e.nbUser /\ d.nbPending = e.nbPending
    PROVE  Balance(d, Tail(q), t, p, n)
<1> DEFINE m == Head(q)
           r == Tail(q)
<1>1. /\ Number(q, Ins) = Number(r, Ins) + One(m, Ins)
      /\ Number(q, Outs) = Number(r, Outs) + One(m, Outs)
      /\ Number(q, Removals) = Number(r, Removals) + One(m, Removals)
      /\ Len(r) = Len(q) - 1 /\ Len(q) \in Nat \ {0}
      /\ \A k \in 0 .. Len(q) - 1 :
            /\ NumberTo(q, k + 1, Outs) = NumberTo(r, k, Outs) + One(m, Outs)
            /\ NumberTo(q, k + 1, Ins) = NumberTo(r, k, Ins) + One(m, Ins)
      /\ r \in Seq(FromFes) /\ m \in FromFes
  BY NumberTail
<1>2. \/ m \in Ins /\ d.nbUser = e.nbUser + 1 /\ d.nbPending = Less(e.nbPending)
      \/ m \in Outs /\ d.nbUser = Less(e.nbUser) /\ d.nbPending = e.nbPending
      \/ m \in Removals /\ d.nbUser = e.nbUser /\ d.nbPending = Less(e.nbPending)
      \/ m.kind = "SCS" /\ d.nbUser = e.nbUser /\ d.nbPending = e.nbPending
  OBVIOUS
<1> HIDE DEF m, r
<1>3. /\ e.nbUser \in Nat /\ e.nbPending \in Nat /\ d.nbUser \in Nat /\ d.nbPending \in Nat
  BY DEF FES
<1>4. /\ Number(r, Ins) \in Nat /\ Number(r, Outs) \in Nat
      /\ Number(r, Removals) \in Nat /\ Number(t, Chosen) \in Nat
      /\ \A k \in 0 .. Len(r) : NumberTo(r, k, Outs) \in Nat /\ NumberTo(r, k, Ins) \in Nat
  BY <1>1, NumbersAre
<1>5. /\ e.nbUser + Number(q, Ins) = Number(q, Outs) + n
      /\ e.nbPending = p + Number(q, Ins) + Number(t, Chosen) + Number(q, Removals)
  BY DEF Balance
<1>6. \A k \in 0 .. Len(r) : NumberTo(r, k, Outs) + One(m, Outs)
                                <= e.nbUser + NumberTo(r, k, Ins) + One(m, Ins)
  <2> SUFFICES ASSUME NEW k \in 0 .. Len(r)
               PROVE  NumberTo(r, k, Outs) + One(m, Outs)
                         <= e.nbUser + (NumberTo(r, k, Ins) + One(m, Ins))
    <3>1. One(m, Ins) \in Nat
      BY DEF One
    <3>2. \A a, b, c \in Nat : a + b + c = a + (b + c)
      OBVIOUS
    <3>3. ASSUME NEW j \in 0 .. Len(r)
          PROVE  e.nbUser + NumberTo(r, j, Ins) + One(m, Ins)
                    = e.nbUser + (NumberTo(r, j, Ins) + One(m, Ins))
      <4>1. NumberTo(r, j, Ins) \in Nat /\ e.nbUser \in Nat
        BY <1>3, <1>4
      <4> QED BY <4>1, <3>1, <3>2
    <3> QED BY <3>3
  <2>1. k \in 0 .. Len(q) - 1 /\ k + 1 \in 0 .. Len(q)
    BY <1>1
  <2>2. NumberTo(q, k + 1, Outs) <= e.nbUser + NumberTo(q, k + 1, Ins)
    BY <2>1 DEF Balance, Guarded
  <2> QED BY <1>1, <2>1, <2>2
<1>7. m \in Outs => e.nbUser > 0
  <2> SUFFICES ASSUME m \in Outs PROVE e.nbUser > 0
    OBVIOUS
  <2>1. NumberTo(r, 0, Outs) = 0 /\ NumberTo(r, 0, Ins) = 0 /\ 0 \in 0 .. Len(r)
    BY <1>1, NumberFacts
  <2>2. One(m, Outs) = 1 /\ One(m, Ins) = 0
    BY <1>1, KindsDiffer
  <2>3. 0 + 1 <= e.nbUser + 0 + 0
    BY <1>6, <2>1, <2>2
  <2> QED BY <2>3, <1>3
<1>8. m \in Ins \cup Removals => e.nbPending > 0
  <2> SUFFICES ASSUME m \in Ins \cup Removals PROVE e.nbPending > 0
    OBVIOUS
  <2>1. /\ Number(q, Ins) = Number(r, Ins) + One(m, Ins)
        /\ Number(q, Removals) = Number(r, Removals) + One(m, Removals)
    BY <1>1
  <2>2. /\ One(m, Ins) \in Nat /\ One(m, Removals) \in Nat
        /\ One(m, Ins) + One(m, Removals) > 0
    BY DEF One
  <2>3. e.nbPending = p + Number(q, Ins) + Number(t, Chosen) + Number(q, Removals)
    BY <1>5
  <2> QED BY <2>1, <2>2, <2>3, <1>4
<1>9. d.nbUser + One(m, Outs) = e.nbUser + One(m, Ins)
  BY <1>1, <1>2, <1>3, <1>7, KindsDiffer DEF Less
<1>10. d.nbPending + One(m, Ins) + One(m, Removals) = e.nbPending
  BY <1>1, <1>2, <1>3, <1>8, KindsDiffer DEF Less
<1>11. One(m, Ins) \in Nat /\ One(m, Outs) \in Nat /\ One(m, Removals) \in Nat
  BY DEF One
<1>12. Guarded(r, d.nbUser)
  <2> SUFFICES ASSUME NEW k \in 0 .. Len(r)
               PROVE  NumberTo(r, k, Outs) <= d.nbUser + NumberTo(r, k, Ins)
    BY DEF Guarded
  <2> DEFINE a == NumberTo(r, k, Outs)
             b == NumberTo(r, k, Ins)
             i == One(m, Ins)
             o == One(m, Outs)
             u == d.nbUser
             v == e.nbUser
  <2>1. /\ a \in Nat /\ b \in Nat /\ i \in Nat /\ o \in Nat /\ u \in Nat /\ v \in Nat
        /\ a + o <= v + b + i /\ u + o = v + i
    BY <1>3, <1>4, <1>6, <1>9, <1>11
  <2> HIDE DEF a, b, i, o, u, v
  <2>2. a <= u + b
    BY <2>1
  <2> QED BY <2>2 DEF a, b, u
<1>13. /\ d.nbUser + Number(r, Ins) = Number(r, Outs) + n
       /\ d.nbPending = p + Number(r, Ins) + Number(t, Chosen) + Number(r, Removals)
  <2> DEFINE ri == Number(r, Ins)
             ro == Number(r, Outs)
             rr == Number(r, Removals)
             c == Number(t, Chosen)
             i == One(m, Ins)
             o == One(m, Outs)
             x == One(m, Removals)
             du == d.nbUser
             eu == e.nbUser
             dp == d.nbPending
             ep == e.nbPending
  <2>1. /\ ri \in Nat /\ ro \in Nat /\ rr \in Nat /\ c \in Nat
        /\ i \in Nat /\ o \in Nat /\ x \in Nat
        /\ du \in Nat /\ eu \in Nat /\ dp \in Nat /\ ep \in Nat
    BY <1>3, <1>4, <1>11
  <2>2. /\ eu + (ri + i) = (ro + o) + n /\ du + o = eu + i
    BY <1>1, <1>5, <1>9
  <2>3. ep = p + (ri + i) + c + (rr + x) /\ dp + i + x = ep
    BY <1>1, <1>5, <1>10
  <2> HIDE DEF ri, ro, rr, c, i, o, x, du, eu, dp, ep
  <2>4. du + ri = ro + n
    BY <2>1, <2>2
  <2>5. dp = p + ri + c + rr
    BY <2>1, <2>3
  <2> QED BY <2>4, <2>5 DEF ri, ro, rr, c, du, dp
<1> QED BY <1>12, <1>13 DEF Balance, r

(* what is sent to the front end, and what it reads *)
LEMMA BalanceTold ==
    ASSUME NEW e \in FES, NEW q \in Seq(FromFes), NEW t \in Seq(ToWs), NEW p \in Nat,
           NEW n \in Nat, Balance(e, q, t, p, n)
    PROVE  /\ \A m \in ToWs : \A d \in FES :
                 /\ m.kind = "DC" => Balance(e, q, Append(t, m), p, n)
                 /\ m.kind = "CS" /\ d.nbUser = e.nbUser /\ d.nbPending = e.nbPending + 1
                       => Balance(d, q, Append(t, m), p, n)
           /\ t # <<>> /\ Head(t).kind = "DC" => Balance(e, q, Tail(t), p, n)
           /\ t # <<>> /\ Head(t).kind = "CS" => Balance(e, q, Tail(t), p + 1, n)
<1>1. /\ e.nbUser \in Nat /\ e.nbPending \in Nat
      /\ Number(q, Ins) \in Nat /\ Number(q, Outs) \in Nat
      /\ Number(q, Removals) \in Nat /\ Number(t, Chosen) \in Nat
  BY NumbersAre DEF FES
<1>2. \A m \in ToWs : /\ m.kind = "CS" => One(m, Chosen) = 1
                      /\ m.kind = "DC" => One(m, Chosen) = 0
  BY DEF One, Chosen
<1>3. \A m \in ToWs : Number(Append(t, m), Chosen) = Number(t, Chosen) + One(m, Chosen)
  BY NumberAppend
<1>4. t # <<>> => /\ Number(t, Chosen) = Number(Tail(t), Chosen) + One(Head(t), Chosen)
                  /\ Head(t) \in ToWs /\ Number(Tail(t), Chosen) \in Nat
  <2> SUFFICES ASSUME t # <<>>
               PROVE  /\ Number(t, Chosen) = Number(Tail(t), Chosen) + One(Head(t), Chosen)
                      /\ Head(t) \in ToWs /\ Number(Tail(t), Chosen) \in Nat
    OBVIOUS
  <2>1. /\ Number(t, Chosen) = Number(Tail(t), Chosen) + One(Head(t), Chosen)
        /\ Head(t) \in ToWs /\ Tail(t) \in Seq(ToWs)
    BY NumberTail
  <2> QED BY <2>1, NumbersAre
<1>5. ASSUME NEW m \in ToWs, NEW d \in FES
      PROVE  /\ m.kind = "DC" => Balance(e, q, Append(t, m), p, n)
             /\ m.kind = "CS" /\ d.nbUser = e.nbUser /\ d.nbPending = e.nbPending + 1
                   => Balance(d, q, Append(t, m), p, n)
  <2>1. /\ e.nbUser + Number(q, Ins) = Number(q, Outs) + n
        /\ Guarded(q, e.nbUser)
        /\ e.nbPending = p + Number(q, Ins) + Number(t, Chosen) + Number(q, Removals)
    BY DEF Balance
  <2>2. Number(Append(t, m), Chosen) = Number(t, Chosen) + One(m, Chosen)
    BY <1>3
  <2>3. CASE m.kind = "DC"
    <3>1. Number(Append(t, m), Chosen) = Number(t, Chosen) /\ m.kind # "CS"
      BY <2>2, <2>3, <1>1, <1>2
    <3> QED BY <3>1, <2>1 DEF Balance
  <2>4. CASE m.kind = "CS"
    <3>1. Number(Append(t, m), Chosen) = Number(t, Chosen) + 1 /\ m.kind # "DC"
      BY <2>2, <2>4, <1>2
    <3>2. ASSUME d.nbUser = e.nbUser, d.nbPending = e.nbPending + 1
          PROVE  d.nbPending = p + Number(q, Ins) + Number(Append(t, m), Chosen)
                                 + Number(q, Removals)
      BY <3>1, <3>2, <2>1, <1>1
    <3> QED BY <3>1, <3>2, <2>1 DEF Balance
  <2> QED BY <2>3, <2>4
<1>6. ASSUME t # <<>> PROVE /\ Head(t).kind = "DC" => Balance(e, q, Tail(t), p, n)
                            /\ Head(t).kind = "CS" => Balance(e, q, Tail(t), p + 1, n)
  <2>1. /\ Number(t, Chosen) = Number(Tail(t), Chosen) + One(Head(t), Chosen)
        /\ Number(Tail(t), Chosen) \in Nat
        /\ Head(t).kind = "DC" => One(Head(t), Chosen) = 0
        /\ Head(t).kind = "CS" => One(Head(t), Chosen) = 1
    BY <1>2, <1>4, <1>6
  <2>2. /\ e.nbUser + Number(q, Ins) = Number(q, Outs) + n
        /\ Guarded(q, e.nbUser)
        /\ e.nbPending = p + Number(q, Ins) + Number(t, Chosen) + Number(q, Removals)
    BY DEF Balance
  <2>3. Head(t).kind = "DC" => Balance(e, q, Tail(t), p, n)
    BY <1>1, <2>1, <2>2 DEF Balance
  <2>4. Head(t).kind = "CS" => Balance(e, q, Tail(t), p + 1, n)
    BY <1>1, <2>1, <2>2 DEF Balance
  <2> QED BY <2>3, <2>4
<1> QED BY <1>5, <1>6

----------------------------------------------------------------------------
(* The list of front ends *)

LEMMA MinIn ==
    ASSUME NEW S \in SUBSET Nat, S # {}
    PROVE  Min(S) \in S
<1>1. \E x \in S : \A y \in S : x <= y
  BY Least
<1> QED BY <1>1, Zenon DEF Min

LEMMA MaxIn ==
    ASSUME NEW S \in SUBSET Nat, S # {}, NEW n \in Nat, \A x \in S : x <= n
    PROVE  Max(S) \in S /\ \A x \in S : x <= Max(S)
<1> DEFINE R == {n - x : x \in S}
<1>1. R \in SUBSET Nat /\ R # {}
  <2>1. \A x \in S : n - x \in Nat
    OBVIOUS
  <2> QED BY <2>1
<1>2. PICK r \in R : \A y \in R : r <= y
  BY <1>1, Least
<1>3. PICK x \in S : r = n - x
  BY <1>2
<1>4. \A y \in S : x >= y
  <2> SUFFICES ASSUME NEW y \in S PROVE x >= y
    OBVIOUS
  <2>1. n - y \in R /\ x \in Nat /\ y \in Nat
    OBVIOUS
  <2>2. n - x <= n - y
    BY <1>2, <1>3, <2>1
  <2> QED BY <2>1, <2>2
<1>5. \A y \in S : Max(S) >= y
  BY <1>4, Zenon DEF Max
<1>6. Max(S) \in S
  BY <1>4, Zenon DEF Max
<1> QED BY <1>5, <1>6

(* two lists of the same front ends with the same users *)
Alike(fs, gs) ==
    /\ fs \in Seq(FES) /\ Len(gs) = Len(fs)
    /\ \A i \in 1 .. Len(fs) : /\ gs[i].f = fs[i].f /\ gs[i].nbUser = fs[i].nbUser
                               /\ gs[i].nbPending = fs[i].nbPending

LEMMA OpenedAlike ==
    ASSUME NEW fs \in Seq(FES)
    PROVE  OpenNewFES(fs) \in Seq(FES) /\ Alike(OpenNewFES(fs), fs)
<1> DEFINE closed == {i \in DOMAIN fs : ~fs[i].open}
<1>1. DOMAIN fs = 1 .. Len(fs) /\ Len(fs) \in Nat /\ fs \in [1 .. Len(fs) -> FES]
  BY LenProperties
<1>2. CASE closed = {}
  BY <1>2 DEF OpenNewFES, Alike
<1>3. CASE closed # {}
  <2>1. Min(closed) \in closed
    <3>1. closed \in SUBSET Nat
      BY <1>1
    <3> HIDE DEF closed
    <3> QED BY <1>3, <3>1, MinIn
  <2> DEFINE k == Min(closed)
             e == [fs[k] EXCEPT !.open = TRUE]
  <2>2. OpenNewFES(fs) = [fs EXCEPT ![k] = e]
    BY <1>3 DEF OpenNewFES
  <2>3. k \in 1 .. Len(fs)
    BY <1>1, <2>1
  <2>4. /\ e \in FES /\ e.f = fs[k].f /\ e.nbUser = fs[k].nbUser
        /\ e.nbPending = fs[k].nbPending
    BY <1>1, <2>3 DEF FES
  <2> HIDE DEF k, e
  <2>5. /\ OpenNewFES(fs) \in Seq(FES) /\ Len(OpenNewFES(fs)) = Len(fs)
        /\ OpenNewFES(fs)[k] = e
        /\ \A i \in 1 .. Len(fs) : i # k => OpenNewFES(fs)[i] = fs[i]
    BY <1>1, <2>2, <2>3, <2>4, ExceptSeq
  <2> QED BY <2>3, <2>4, <2>5 DEF Alike
<1> QED BY <1>2, <1>3

LEMMA BestIsOne ==
    ASSUME NEW fs \in Seq(FES)
    PROVE  BestFES(fs) = 0 \/ BestFES(fs) \in 1 .. Len(fs)
<1> DEFINE open == {i \in DOMAIN fs : fs[i].open}
           best == {i \in open : \A j \in open : Load(fs[i]) <= Load(fs[j])}
           loads == {Load(fs[i]) : i \in open}
<1>1. DOMAIN fs = 1 .. Len(fs) /\ Len(fs) \in Nat /\ fs \in [1 .. Len(fs) -> FES]
  BY LenProperties
<1>2. \A i \in open : Load(fs[i]) \in Nat
  BY <1>1 DEF Load, FES
<1>3. ASSUME open # {} PROVE best # {}
  <2>1. loads \in SUBSET Nat /\ loads # {}
    BY <1>2, <1>3
  <2> HIDE DEF open
  <2>2. PICK n \in loads : \A y \in loads : n <= y
    BY <2>1, Least
  <2>3. PICK i \in open : n = Load(fs[i])
    BY <2>2
  <2> QED BY <2>2, <2>3
<1>4. best \in SUBSET (1 .. Len(fs))
  BY <1>1
<1>5. BestFES(fs) = IF open = {} THEN 0 ELSE Min(best)
  BY DEF BestFES
<1> HIDE DEF open, best
<1>6. CASE open # {}
  <2>1. best \in SUBSET Nat /\ best # {}
    BY <1>1, <1>3, <1>4, <1>6
  <2>2. Min(best) \in best
    BY <2>1, MinIn
  <2> QED BY <1>4, <1>5, <1>6, <2>2
<1> QED BY <1>5, <1>6

(* what lsChooseShard does to the list and sends *)
LEMMA ChooseShardDoes ==
    ASSUME NEW m \in ToWs, m.kind = "CS", fesList \in Seq(FES), ChooseShard(m)
    PROVE  \E fs \in Seq(FES) :
              /\ Alike(fs, fesList)
              /\ \/ /\ fesList' = fs /\ UNCHANGED toFes
                    /\ SendLs(<<Refusal(m.cookie)>>)
                 \/ \E b \in 1 .. Len(fs) :
                       /\ fesList' = [fs EXCEPT ![b].nbPending = @ + 1]
                       /\ toFes' = IF life[fs[b].f] = "up"
                                   THEN [toFes EXCEPT ![fs[b].f] = Append(@, m)] ELSE toFes
                       /\ UNCHANGED toLs
<1> DEFINE first == BestFES(fesList)
           fs == IF first = 0 \/ Load(fesList[first]) >= Threshold
                 THEN OpenNewFES(fesList) ELSE fesList
           best == BestFES(fs)
<1>1. fs \in Seq(FES) /\ Alike(fs, fesList)
  BY OpenedAlike DEF Alike
<1>2. best = 0 \/ best \in 1 .. Len(fs)
  BY <1>1, BestIsOne
<1>3. \/ /\ fesList' = fs /\ UNCHANGED toFes
         /\ SendLs(<<Refusal(m.cookie)>>)
      \/ /\ best # 0
         /\ fesList' = [fs EXCEPT ![best].nbPending = @ + 1]
         /\ toFes' = IF life[fs[best].f] = "up"
                     THEN [toFes EXCEPT ![fs[best].f] = Append(@, m)] ELSE toFes
         /\ UNCHANGED toLs
  BY DEF ChooseShard
<1> HIDE DEF fs, best
<1> QED BY <1>1, <1>2, <1>3

(* a list without one of its front ends *)
LEMMA Removed ==
    ASSUME NEW fs \in Seq(FES), NEW k \in 1 .. Len(fs)
    PROVE  /\ RemoveAt(fs, k) \in Seq(FES) /\ Len(RemoveAt(fs, k)) = Len(fs) - 1
           /\ \A i \in 1 .. Len(fs) - 1 :
                 RemoveAt(fs, k)[i] = IF i < k THEN fs[i] ELSE fs[i + 1]
<1> DEFINE a == SubSeq(fs, 1, k - 1)
           b == SubSeq(fs, k + 1, Len(fs))
           n == Len(fs)
<1>1. n \in Nat /\ k \in 1 .. n /\ \A i \in 1 .. n : fs[i] \in FES
  BY LenProperties
<1>2. /\ a \in Seq(FES) /\ Len(a) = k - 1
      /\ \A i \in 1 .. k - 1 : a[i] = fs[i]
  <2>1. 1 \in Int /\ k - 1 \in Int /\ \A i \in 1 .. k - 1 : fs[i] \in FES
    BY <1>1
  <2>2. /\ a \in Seq(FES)
        /\ Len(a) = IF 1 <= k - 1 THEN (k - 1) - 1 + 1 ELSE 0
        /\ \A i \in 1 .. (k - 1) - 1 + 1 : a[i] = fs[1 + i - 1]
    BY <2>1, SubSeqProperties
  <2> HIDE DEF a, n
  <2> QED BY <1>1, <2>2
<1>3. /\ b \in Seq(FES) /\ Len(b) = n - k
      /\ \A i \in 1 .. n - k : b[i] = fs[k + i]
  <2>1. k + 1 \in Int /\ n \in Int /\ \A i \in k + 1 .. n : fs[i] \in FES
    BY <1>1
  <2>2. /\ b \in Seq(FES)
        /\ Len(b) = IF k + 1 <= n THEN n - (k + 1) + 1 ELSE 0
        /\ \A i \in 1 .. n - (k + 1) + 1 : b[i] = fs[(k + 1) + i - 1]
    BY <2>1, SubSeqProperties
  <2> HIDE DEF b, n
  <2>3. Len(b) = n - k /\ n - (k + 1) + 1 = n - k
    BY <1>1, <2>2
  <2>4. \A i \in 1 .. n - k : (k + 1) + i - 1 = k + i
    BY <1>1
  <2> QED BY <2>2, <2>3, <2>4
<1>4. /\ a \o b \in Seq(FES) /\ Len(a \o b) = Len(a) + Len(b)
      /\ \A i \in 1 .. Len(a) + Len(b) : (a \o b)[i] =
            IF i <= Len(a) THEN a[i] ELSE b[i - Len(a)]
  BY <1>2, <1>3, ConcatProperties
<1>5. RemoveAt(fs, k) = a \o b
  BY DEF RemoveAt
<1> HIDE DEF a, b, n
<1>6. RemoveAt(fs, k) \in Seq(FES) /\ Len(RemoveAt(fs, k)) = n - 1
  BY <1>1, <1>2, <1>3, <1>4, <1>5
<1>7. ASSUME NEW i \in 1 .. n - 1
      PROVE  RemoveAt(fs, k)[i] = IF i < k THEN fs[i] ELSE fs[i + 1]
  <2>1. CASE i < k
    BY <2>1, <1>1, <1>2, <1>3, <1>4, <1>5
  <2>2. CASE ~(i < k)
    <3>1. i - (k - 1) \in 1 .. n - k /\ k + (i - (k - 1)) = i + 1
      BY <2>2, <1>1
    <3> QED BY <2>2, <3>1, <1>1, <1>2, <1>3, <1>4, <1>5
  <2> QED BY <2>1, <2>2
<1> QED BY <1>6, <1>7 DEF n

----------------------------------------------------------------------------
(* Types, and NbPlayers of LS *)

LsTypes ==
    /\ web \in [Users -> {"idle", "checked", "kicking", "kicked"}]
    /\ online \subseteq Users /\ shard \in BOOLEAN
    /\ forgotten \in Nat /\ nbPlayers = Cardinality(online) + forgotten
    /\ cookies \in 0 .. MaxCookies
    /\ granted \subseteq Cookies \X Fronts
    /\ lost \in BOOLEAN /\ (~lost => shard)

WsTypes ==
    /\ fesList \in Seq(FES)
    /\ where \in [Users -> Fronts \cup {None}]
    /\ toLs \in Seq(ToLs)
    /\ kicked \subseteq Users /\ disturbed \subseteq Users

FesTypes ==
    /\ life \in [Fronts -> {"off", "up", "dead"}]
    /\ fromFes \in [Fronts -> Seq(FromFes)]
    /\ replaced \in [Fronts -> Nat]
    /\ faults \in 0 .. MaxFaults
    /\ IsFiniteSet(entered)
    /\ \A f \in Fronts : IsFiniteSet(pending[f])

AllTypes == LsTypes /\ WsTypes /\ FesTypes

lsRest == <<web, online, shard, forgotten, nbPlayers, cookies, granted, lost>>
wsRest == <<fesList, where, toLs, kicked, disturbed>>
fesRest == <<life, fromFes, replaced, faults, entered, pending>>

LEMMA SameTypes ==
    /\ LsTypes /\ UNCHANGED lsRest => LsTypes'
    /\ WsTypes /\ UNCHANGED wsRest => WsTypes'
    /\ FesTypes /\ UNCHANGED fesRest => FesTypes'
<1>1. LsTypes /\ UNCHANGED lsRest => LsTypes'
  BY DEF LsTypes, lsRest
<1>2. WsTypes /\ UNCHANGED wsRest => WsTypes'
  BY DEF WsTypes, wsRest
<1>3. FesTypes /\ UNCHANGED fesRest => FesTypes'
  BY DEF FesTypes, fesRest
<1> QED BY <1>1, <1>2, <1>3

LEMMA TypesInit == Init => AllTypes
<1> SUFFICES ASSUME Init PROVE AllTypes
  OBVIOUS
<1>1. LsTypes
  <2>1. nbPlayers = Cardinality(online) + forgotten
    <3> Cardinality(online) = 0
      BY FS_EmptySet DEF Init
    <3> QED BY DEF Init
  <2>2. /\ web \in [Users -> {"idle", "checked", "kicking", "kicked"}]
        /\ forgotten \in Nat /\ cookies \in 0 .. MaxCookies
    BY ConstantsAssumption DEF Init
  <2>3. /\ online \subseteq Users /\ granted \subseteq Cookies \X Fronts
        /\ shard = TRUE /\ lost = FALSE
    BY DEF Init
  <2> QED BY <2>1, <2>2, <2>3 DEF LsTypes
<1>2. WsTypes
  BY EmptySeq DEF Init, WsTypes
<1>3. FesTypes
  BY FS_EmptySet, EmptySeq, ConstantsAssumption DEF Init, FesTypes
<1> QED BY <1>1, <1>2, <1>3 DEF AllTypes

(* the state of the users in the data base, and NbPlayers *)
LEMMA CountOnline ==
    ASSUME online \subseteq Users, forgotten \in Nat,
           nbPlayers = Cardinality(online) + forgotten, NEW u \in Users
    PROVE  /\ Cardinality(online) \in Nat
           /\ u \notin online => Cardinality(online \cup {u}) = Cardinality(online) + 1
           /\ u \in online => Cardinality(online \ {u}) = Cardinality(online) - 1
<1>1. IsFiniteSet(online)
  BY ConstantsAssumption, FS_Subset
<1> QED BY <1>1, FS_CardinalityType, FS_AddElement, FS_RemoveElement

LEMMA LsReadsTypes ==
    ASSUME AllTypes, LsReads
    PROVE  AllTypes'
<1> DEFINE m == Head(toLs)
<1>1. /\ UNCHANGED <<web, shard, forgotten, cookies, lost>>
      /\ UNCHANGED <<fesList, where, kicked, disturbed>> /\ UNCHANGED fesRest
      /\ toLs # <<>> /\ toLs' = Tail(toLs)
  BY DEF LsReads, wsVars, fesVars, histVars, fesRest
<1>2. m \in ToLs /\ toLs' \in Seq(ToLs)
  BY <1>1, HeadTailProperties DEF AllTypes, WsTypes
<1>3. \/ m.kind = "CC" /\ ClientConnected(m)
      \/ m.kind = "SCS" /\ ShardChosen(m)
  BY DEF LsReads
<1> HIDE DEF m
<1>4. LsTypes'
  <2>1. CASE m.kind = "CC" /\ ClientConnected(m)
    <3>1. m.user \in Users /\ m.con \in BOOLEAN
      BY <1>2, <2>1 DEF ToLs
    <3>2. granted' = granted
      BY <2>1 DEF ClientConnected
    <3>3. \/ UNCHANGED <<online, nbPlayers>>
          \/ m.user \notin online /\ online' = online \cup {m.user} /\ nbPlayers' = nbPlayers + 1
          \/ m.user \in online /\ online' = online \ {m.user} /\ nbPlayers' = nbPlayers - 1
      <4>1. CASE m.con = (m.user \in online)
        BY <2>1, <4>1, Zenon DEF ClientConnected
      <4>2. CASE m.con # (m.user \in online)
        <5> DEFINE there == m.user \in online
        <5>0. there \in BOOLEAN /\ m.con \in BOOLEAN /\ m.con # there
          BY <3>1, <4>2
        <5> HIDE DEF there
        <5>01. there = TRUE \/ m.con = TRUE
          BY <5>0
        <5>02. there = FALSE \/ m.con = FALSE
          BY <5>0
        <5>1. m.user \in online \/ m.con = TRUE
          BY <5>01 DEF there
        <5>2. m.user \notin online \/ m.con = FALSE
          BY <5>02 DEF there
        <5>3. IF m.con
              THEN online' = online \cup {m.user} /\ nbPlayers' = nbPlayers + 1
              ELSE online' = online \ {m.user} /\ nbPlayers' = nbPlayers - 1
          BY <2>1, <4>2, Zenon DEF ClientConnected
        <5>4. m.con => m.user \notin online
          BY <5>2, Zenon
        <5>5. ~m.con => m.user \in online
          BY <5>1, Zenon
        <5> QED BY <5>3, <5>4, <5>5
      <4> QED BY <4>1, <4>2
    <3>4. /\ Cardinality(online) \in Nat
          /\ m.user \notin online => Cardinality(online \cup {m.user}) = Cardinality(online) + 1
          /\ m.user \in online => Cardinality(online \ {m.user}) = Cardinality(online) - 1
      BY <3>1, CountOnline DEF AllTypes, LsTypes
    <3>5. nbPlayers = Cardinality(online) + forgotten /\ forgotten \in Nat
          /\ online \subseteq Users
      BY DEF AllTypes, LsTypes
    <3>6. nbPlayers' = Cardinality(online') + forgotten /\ online' \subseteq Users
      <4>1. CASE UNCHANGED <<online, nbPlayers>>
        BY <3>5, <4>1
      <4>2. CASE m.user \notin online /\ online' = online \cup {m.user}
                 /\ nbPlayers' = nbPlayers + 1
        BY <3>1, <3>4, <3>5, <4>2
      <4>3. CASE m.user \in online /\ online' = online \ {m.user}
                 /\ nbPlayers' = nbPlayers - 1
        BY <3>4, <3>5, <4>3
      <4> QED BY <3>3, <4>1, <4>2, <4>3
    <3> QED BY <1>1, <3>2, <3>5, <3>6 DEF AllTypes, LsTypes
  <2>2. CASE m.kind = "SCS" /\ ShardChosen(m)
    <3>1. m.f # None => <<m.cookie, m.f>> \in Cookies \X Fronts
      BY <1>2, <2>2 DEF ToLs
    <3> QED BY <1>1, <2>2, <3>1 DEF AllTypes, LsTypes, ShardChosen
  <2> QED BY <1>3, <2>1, <2>2
<1>5. WsTypes'
  BY <1>1, <1>2 DEF AllTypes, WsTypes
<1> QED BY <1>1, <1>4, <1>5, SameTypes DEF AllTypes

LEMMA AsksTypes ==
    ASSUME AllTypes, NEW u \in Users, Asks(u)
    PROVE  AllTypes'
<1>1. UNCHANGED fesRest
  BY DEF Asks, WebCheck, LsAsk, LsKick, WebKicked, fesVars, netVars, histVars, fesRest
<1>2. FesTypes'
  BY <1>1, SameTypes DEF AllTypes
<1>3. CASE WebKicked(u)
  <2>1. /\ UNCHANGED <<shard, nbPlayers, cookies, granted, lost, fesList, where, toLs>>
        /\ web' = [web EXCEPT ![u] = "idle"] /\ online' = online \ {u}
        /\ forgotten' = forgotten + IF u \in online THEN 1 ELSE 0
        /\ kicked' = IF where[u] = None THEN kicked ELSE kicked \cup {u}
        /\ disturbed' = disturbed \cup {u}
    BY <1>3 DEF WebKicked, wsVars, netVars
  <2>2. /\ Cardinality(online) \in Nat
        /\ u \in online => Cardinality(online \ {u}) = Cardinality(online) - 1
        /\ u \notin online => online \ {u} = online
    BY CountOnline DEF AllTypes, LsTypes
  <2>3. nbPlayers' = Cardinality(online') + forgotten' /\ forgotten' \in Nat
    <3>1. nbPlayers = Cardinality(online) + forgotten /\ forgotten \in Nat
      BY DEF AllTypes, LsTypes
    <3>2. CASE u \in online
      BY <2>1, <2>2, <3>1, <3>2
    <3>3. CASE u \notin online
      <4>1. online' = online /\ forgotten' = forgotten + 0 /\ nbPlayers' = nbPlayers
        BY <2>1, <2>2, <3>3
      <4> QED BY <3>1, <4>1
    <3> QED BY <3>2, <3>3
  <2>4. LsTypes'
    BY <2>1, <2>3 DEF AllTypes, LsTypes
  <2>5. WsTypes'
    BY <2>1 DEF AllTypes, WsTypes
  <2> QED BY <1>2, <2>4, <2>5 DEF AllTypes
<1>4. CASE WebCheck(u) \/ LsAsk(u) \/ LsKick(u)
  <2>1. UNCHANGED wsRest
    BY <1>4 DEF WebCheck, LsAsk, LsKick, wsVars, netVars, histVars, wsRest
  <2>2. UNCHANGED <<online, shard, forgotten, nbPlayers, granted, lost>>
    BY <1>4 DEF WebCheck, LsAsk, LsKick, histVars
  <2>3. \E w \in {"idle", "checked", "kicking", "kicked"} : web' = [web EXCEPT ![u] = w]
    BY <1>4 DEF WebCheck, LsAsk, LsKick
  <2>4. cookies' \in 0 .. MaxCookies
    BY <1>4, ConstantsAssumption DEF WebCheck, LsAsk, LsKick, AllTypes, LsTypes
  <2>5. LsTypes'
    BY <2>2, <2>3, <2>4 DEF AllTypes, LsTypes
  <2> QED BY <1>2, <2>1, <2>5, SameTypes DEF AllTypes
<1> QED BY <1>3, <1>4 DEF Asks

LEMMA LinkTypes ==
    ASSUME AllTypes, LinkLost \/ LinkBack
    PROVE  AllTypes'
<1>1. CASE LinkLost
  <2>1. /\ UNCHANGED <<web, cookies, granted, fesList, where, kicked, disturbed>>
        /\ UNCHANGED <<life, fromFes, replaced, entered, pending>>
        /\ shard' = FALSE /\ online' = {} /\ nbPlayers' = 0 /\ forgotten' = 0
        /\ lost' = TRUE /\ toLs' = <<>> /\ faults < MaxFaults /\ faults' = faults + 1
    BY <1>1 DEF LinkLost, Fault, wsVars, fesVars
  <2>2. LsTypes'
    <3>1. nbPlayers' = Cardinality(online') + forgotten'
      <4> Cardinality(online') = 0
        BY <2>1, FS_EmptySet
      <4> QED BY <2>1
    <3> QED BY <2>1, <3>1 DEF AllTypes, LsTypes
  <2>3. WsTypes'
    BY <2>1, EmptySeq DEF AllTypes, WsTypes
  <2>4. FesTypes'
    BY <2>1, ConstantsAssumption DEF AllTypes, FesTypes
  <2> QED BY <2>2, <2>3, <2>4 DEF AllTypes
<1>2. CASE LinkBack
  <2>1. UNCHANGED wsRest /\ UNCHANGED fesRest
    BY <1>2 DEF LinkBack, wsVars, fesVars, netVars, histVars, wsRest, fesRest
  <2>2. LsTypes'
    BY <1>2 DEF LinkBack, histVars, AllTypes, LsTypes
  <2> QED BY <2>1, <2>2, SameTypes DEF AllTypes
<1> QED BY <1>1, <1>2

LEMMA SendLsTypes ==
    ASSUME AllTypes, NEW ms \in Seq(ToLs), SendLs(ms)
    PROVE  toLs' \in Seq(ToLs)
BY ConcatProperties DEF SendLs, AllTypes, WsTypes

LEMMA WsReadsLsTypes ==
    ASSUME LetInInv, AllTypes, WsReadsLs
    PROVE  AllTypes'
<1> DEFINE m == Head(toWs)
<1>1. /\ UNCHANGED lsRest /\ UNCHANGED fesRest
      /\ UNCHANGED <<where, kicked, disturbed>> /\ toWs # <<>>
  BY DEF WsReadsLs, lsVars, fesVars, histVars, lsRest, fesRest
<1>2. m \in ToWs
  BY <1>1, HeadTailProperties DEF LetInInv, Types
<1>3. \/ m.kind = "CS" /\ ChooseShard(m)
      \/ m.kind = "DC" /\ DisconnectClient(m)
  BY DEF WsReadsLs
<1> HIDE DEF m
<1>4. fesList' \in Seq(FES) /\ toLs' \in Seq(ToLs)
  <2>1. CASE m.kind = "CS" /\ ChooseShard(m)
    <3>1. PICK fs \in Seq(FES) :
              \/ fesList' = fs /\ SendLs(<<Refusal(m.cookie)>>)
              \/ \E b \in 1 .. Len(fs) :
                    fesList' = [fs EXCEPT ![b].nbPending = @ + 1] /\ UNCHANGED toLs
      BY <1>2, <2>1, ChooseShardDoes DEF AllTypes, WsTypes
    <3>2. <<Refusal(m.cookie)>> \in Seq(ToLs)
      <4>1. m.cookie \in Cookies
        BY <1>2, <2>1 DEF ToWs
      <4> QED BY <4>1 DEF Refusal, ToLs
    <3>3. CASE fesList' = fs /\ SendLs(<<Refusal(m.cookie)>>)
      BY <3>2, <3>3, SendLsTypes
    <3>4. ASSUME NEW b \in 1 .. Len(fs),
                 fesList' = [fs EXCEPT ![b].nbPending = @ + 1], UNCHANGED toLs
          PROVE  fesList' \in Seq(FES) /\ toLs' \in Seq(ToLs)
      <4> DEFINE e == [fs[b] EXCEPT !.nbPending = @ + 1]
      <4>1. fs[b] \in FES
        BY LenProperties
      <4>2. e \in FES
        <5>1. fs[b].nbPending + 1 \in Nat
          BY <4>1 DEF FES
        <5> QED BY <4>1, <5>1 DEF FES
      <4>3. fesList' = [fs EXCEPT ![b] = e]
        BY <3>4
      <4> HIDE DEF e
      <4> QED BY <3>4, <4>2, <4>3, ExceptSeq DEF AllTypes, WsTypes
    <3> QED BY <3>1, <3>3, <3>4
  <2>2. CASE m.kind = "DC" /\ DisconnectClient(m)
    BY <2>2 DEF DisconnectClient, AllTypes, WsTypes
  <2> QED BY <1>3, <2>1, <2>2
<1>5. WsTypes'
  BY <1>1, <1>4 DEF AllTypes, WsTypes
<1> QED BY <1>1, <1>5, SameTypes DEF AllTypes

(* what a report does to the list *)
FesOf(e, m) ==
    IF m.kind = "RPC" THEN [e EXCEPT !.nbPending = Less(@)]
    ELSE IF m.kind = "SCS" THEN e
    ELSE IF m.con THEN [e EXCEPT !.nbUser = @ + 1, !.nbPending = Less(@)]
    ELSE [e EXCEPT !.nbUser = Less(@)]

LEMMA WsReadsFesDoes ==
    ASSUME AllTypes, NEW f \in Fronts, WsReadsFes(f)
    PROVE  LET m == Head(fromFes[f])
           IN /\ m \in FromFes /\ fromFes[f] \in Seq(FromFes) /\ fromFes[f] # <<>>
              /\ fromFes' = [fromFes EXCEPT ![f] = Tail(@)]
              /\ fesList' \in Seq(FES) /\ Len(fesList') = Len(fesList)
              /\ \A i \in 1 .. Len(fesList) :
                    fesList'[i] = IF fesList[i].f = f THEN FesOf(fesList[i], m)
                                  ELSE fesList[i]
<1> DEFINE m == Head(fromFes[f])
<1>1. /\ fromFes[f] # <<>> /\ fromFes[f] \in Seq(FromFes)
      /\ fromFes' = [fromFes EXCEPT ![f] = Tail(@)]
      /\ \/ m.kind = "SCS" /\ FESShardChooseShard(m)
         \/ m.kind = "CC" /\ FESClientConnected(f, m)
         \/ m.kind = "RPC" /\ FESRemovedPendingCookie(f)
  BY DEF WsReadsFes, AllTypes, FesTypes
<1>2. m \in FromFes
  BY <1>1, HeadTailProperties
<1> HIDE DEF m
<1>3. DOMAIN fesList = 1 .. Len(fesList) /\ Len(fesList) \in Nat
      /\ fesList \in [1 .. Len(fesList) -> FES] /\ fesList \in Seq(FES)
  BY LenProperties DEF AllTypes, WsTypes
<1>4. \A e \in FES : FesOf(e, m) \in FES
  <2> SUFFICES ASSUME NEW e \in FES PROVE FesOf(e, m) \in FES
    OBVIOUS
  <2>1. e.nbUser \in Nat /\ e.nbPending \in Nat
    BY DEF FES
  <2>2. Less(e.nbUser) \in Nat /\ Less(e.nbPending) \in Nat /\ e.nbUser + 1 \in Nat
    BY <2>1 DEF Less
  <2> QED BY <2>2 DEF FesOf, FES
<1>5. \/ m.kind = "SCS" /\ fesList' = fesList
      \/ fesList' = [i \in DOMAIN fesList |-> IF fesList[i].f = f THEN FesOf(fesList[i], m)
                                             ELSE fesList[i]]
  BY <1>1 DEF FESShardChooseShard, FESClientConnected, FESRemovedPendingCookie, OfFront, FesOf
<1>6. CASE m.kind = "SCS" /\ fesList' = fesList
  <2> \A i \in 1 .. Len(fesList) : FesOf(fesList[i], m) = fesList[i]
    BY <1>6 DEF FesOf
  <2> QED BY <1>1, <1>2, <1>3, <1>6 DEF m
<1>7. CASE fesList' = [i \in DOMAIN fesList |-> IF fesList[i].f = f THEN FesOf(fesList[i], m)
                                                ELSE fesList[i]]
  <2>1. fesList' \in [1 .. Len(fesList) -> FES]
    BY <1>3, <1>4, <1>7
  <2>2. fesList' \in Seq(FES) /\ Len(fesList') = Len(fesList)
    BY <1>3, <2>1, SeqDef, LenProperties
  <2>3. \A i \in 1 .. Len(fesList) :
           fesList'[i] = IF fesList[i].f = f THEN FesOf(fesList[i], m) ELSE fesList[i]
    BY <1>3, <1>7
  <2> QED BY <1>1, <1>2, <2>2, <2>3 DEF m
<1> QED BY <1>5, <1>6, <1>7

LEMMA WsReadsFesTypes ==
    ASSUME AllTypes, NEW f \in Fronts, WsReadsFes(f)
    PROVE  AllTypes'
<1> DEFINE m == Head(fromFes[f])
<1>1. /\ UNCHANGED lsRest
      /\ UNCHANGED <<life, replaced, faults, entered, pending>>
  BY DEF WsReadsFes, lsVars, fesVars, lsRest
<1>2. /\ m \in FromFes /\ fromFes[f] \in Seq(FromFes) /\ fromFes[f] # <<>>
      /\ fromFes' = [fromFes EXCEPT ![f] = Tail(@)] /\ fesList' \in Seq(FES)
  BY WsReadsFesDoes
<1>3. \/ m.kind = "SCS" /\ FESShardChooseShard(m)
      \/ m.kind = "CC" /\ FESClientConnected(f, m)
      \/ m.kind = "RPC" /\ FESRemovedPendingCookie(f)
  BY DEF WsReadsFes
<1> HIDE DEF m
<1>4. /\ where' \in [Users -> Fronts \cup {None}] /\ toLs' \in Seq(ToLs)
      /\ kicked' \subseteq Users /\ disturbed' \subseteq Users
  <2>1. CASE m.kind = "CC" /\ FESClientConnected(f, m)
    <3>1. m \in ToLs /\ m.user \in Users
      BY <1>2, <2>1 DEF FromFes, ToLs
    <3>2. toLs' \in Seq(ToLs)
      <4>1. <<m>> \in Seq(ToLs) /\ SendLs(<<m>>)
        BY <2>1, <3>1 DEF FESClientConnected
      <4> QED BY <4>1, SendLsTypes
    <3> QED BY <2>1, <3>1, <3>2 DEF FESClientConnected, AllTypes, WsTypes
  <2>2. CASE m.kind = "SCS" /\ FESShardChooseShard(m)
    <3>1. m \in ToLs
      BY <1>2, <2>2 DEF FromFes, ToLs
    <3>2. toLs' \in Seq(ToLs)
      <4>1. <<m>> \in Seq(ToLs) /\ SendLs(<<m>>)
        BY <2>2, <3>1 DEF FESShardChooseShard
      <4> QED BY <4>1, SendLsTypes
    <3> QED BY <2>2, <3>2 DEF FESShardChooseShard, AllTypes, WsTypes
  <2>3. CASE m.kind = "RPC" /\ FESRemovedPendingCookie(f)
    BY <2>3 DEF FESRemovedPendingCookie, AllTypes, WsTypes
  <2> QED BY <1>3, <2>1, <2>2, <2>3
<1>5. WsTypes'
  BY <1>2, <1>4 DEF WsTypes
<1>6. FesTypes'
  <2>1. Tail(fromFes[f]) \in Seq(FromFes)
    BY <1>2, HeadTailProperties
  <2> QED BY <1>1, <1>2, <2>1 DEF AllTypes, FesTypes
<1> QED BY <1>1, <1>5, <1>6, SameTypes DEF AllTypes

(* what LS is told when a front end has ended *)
LEMMA Goodbyes ==
    ASSUME NEW gone \in SUBSET Users
    PROVE  LET ms == SetToSeq({Connected(u, FALSE) : u \in gone})
           IN /\ ms \in Seq(ToLs)
              /\ \A i \in 1 .. Len(ms) : \E u \in gone : ms[i] = Connected(u, FALSE)
              /\ \A u \in gone : \E i \in 1 .. Len(ms) : ms[i] = Connected(u, FALSE)
<1> DEFINE T == {Connected(u, FALSE) : u \in gone}
           n == Cardinality(T)
           ms == SetToSeq(T)
           g == [u \in gone |-> Connected(u, FALSE)]
<1>1. IsFiniteSet(T)
  <2>1. IsFiniteSet(gone)
    BY ConstantsAssumption, FS_Subset
  <2>2. g \in [gone -> T] /\ \A t \in T : \E u \in gone : g[u] = t
    OBVIOUS
  <2>3. g \in Surjection(gone, T)
    BY <2>2 DEF Surjection
  <2> QED BY <2>1, <2>3, FS_Surjection
<1>2. T \subseteq ToLs
  <2> SUFFICES ASSUME NEW u \in gone PROVE Connected(u, FALSE) \in ToLs
    OBVIOUS
  <2> u \in Users
    OBVIOUS
  <2> QED BY DEF Connected, ToLs
<1>3. \A t \in T : \E u \in gone : t = Connected(u, FALSE)
  OBVIOUS
<1>4. \A u \in gone : Connected(u, FALSE) \in T
  OBVIOUS
<1> HIDE DEF T, g
<1>5. n \in Nat /\ ExistsBijection(1 .. n, T)
  BY <1>1, FS_CardinalityType
<1>6. PICK b : b \in Bijection(1 .. n, T)
  BY <1>5 DEF ExistsBijection
<1>7. b \in [1 .. n -> T] /\ IsInjective(b)
  BY <1>6 DEF Bijection, Injection
<1>8. ms \in [1 .. n -> T] /\ IsInjective(ms)
  BY <1>7, Zenon DEF SetToSeq
<1>9. ms \in Surjection(1 .. n, T)
  <2>1. ms \in Injection(1 .. n, T)
    BY <1>8 DEF Injection
  <2>2. Cardinality(1 .. n) = Cardinality(T)
    BY <1>5, FS_Interval
  <2> QED BY <1>1, <2>1, <2>2, FS_Injection
<1>10. ms \in Seq(T) /\ Len(ms) = n
  BY <1>5, <1>8, SeqDef, LenProperties
<1> HIDE DEF ms, n
<1>11. ms \in Seq(ToLs)
  BY <1>2, <1>10
<1>12. \A i \in 1 .. Len(ms) : \E u \in gone : ms[i] = Connected(u, FALSE)
  BY <1>3, <1>8, <1>10
<1>13. \A u \in gone : \E i \in 1 .. Len(ms) : ms[i] = Connected(u, FALSE)
  BY <1>4, <1>9, <1>10 DEF Surjection
<1> QED BY <1>11, <1>12, <1>13 DEF ms, T

(* the place in the list from which a front end is erased *)
LEMMA FrontDownDoes ==
    ASSUME AllTypes, NEW f \in Fronts, FrontDown(f)
    PROVE  \E k \in 1 .. Len(fesList) :
              fesList[k].f = f /\ fesList' = RemoveAt(fesList, k)
<1>1. DOMAIN fesList = 1 .. Len(fesList)
  BY LenProperties DEF AllTypes, WsTypes
<1> QED BY <1>1, Zenon DEF FrontDown

LEMMA FrontDownTypes ==
    ASSUME AllTypes, NEW f \in Fronts, FrontDown(f)
    PROVE  AllTypes'
<1> DEFINE gone == {u \in Users : where[u] = f}
           ms == SetToSeq({Connected(u, FALSE) : u \in gone})
<1>1. /\ UNCHANGED lsRest /\ UNCHANGED <<life, replaced, faults, entered, pending>>
      /\ fromFes' = [fromFes EXCEPT ![f] = <<>>]
      /\ SendLs(ms)
      /\ where' = [u \in Users |-> IF u \in gone THEN None ELSE where[u]]
      /\ kicked' = kicked \ gone /\ disturbed' = disturbed
  BY DEF FrontDown, lsVars, fesVars, lsRest
<1>2. toLs' \in Seq(ToLs)
  <2>1. ms \in Seq(ToLs)
    BY Goodbyes
  <2> HIDE DEF ms
  <2> QED BY <1>1, <2>1, SendLsTypes
<1>3. fesList' \in Seq(FES)
  BY FrontDownDoes, Removed DEF AllTypes, WsTypes
<1>4. WsTypes'
  BY <1>1, <1>2, <1>3 DEF AllTypes, WsTypes
<1>5. FesTypes'
  BY <1>1, EmptySeq DEF AllTypes, FesTypes
<1> QED BY <1>1, <1>4, <1>5, SameTypes DEF AllTypes

LEMMA FrontUpTypes ==
    ASSUME AllTypes, NEW f \in Fronts, FrontUp(f)
    PROVE  AllTypes'
<1> DEFINE e == [f |-> f, open |-> FALSE, nbUser |-> 0, nbPending |-> 0]
<1>1. /\ UNCHANGED lsRest /\ UNCHANGED <<where, toLs, kicked, disturbed>>
      /\ UNCHANGED <<fromFes, replaced, faults, entered, pending>>
      /\ life' = [life EXCEPT ![f] = "up"] /\ fesList' = Append(fesList, e)
  BY DEF FrontUp, lsVars, netVars, histVars, lsRest
<1>2. e \in FES
  BY DEF FES
<1> HIDE DEF e
<1>3. WsTypes'
  BY <1>1, <1>2, AppendProperties DEF AllTypes, WsTypes
<1>4. FesTypes'
  BY <1>1 DEF AllTypes, FesTypes
<1> QED BY <1>1, <1>3, <1>4, SameTypes DEF AllTypes

LEMMA ReportTypes ==
    ASSUME AllTypes, NEW f \in Fronts, NEW m \in FromFes, Report(f, m)
    PROVE  /\ fromFes' \in [Fronts -> Seq(FromFes)]
           /\ fromFes'[f] = Append(fromFes[f], m)
           /\ \A g \in Fronts : g # f => fromFes'[g] = fromFes[g]
<1>1. fromFes \in [Fronts -> Seq(FromFes)]
  BY DEF AllTypes, FesTypes
<1>2. fromFes' = [fromFes EXCEPT ![f] = Append(fromFes[f], m)]
  BY DEF Report
<1>3. Append(fromFes[f], m) \in Seq(FromFes)
  BY <1>1, AppendProperties
<1> QED BY <1>1, <1>2, <1>3

(* the messages of the front ends *)
LEMMA Reported ==
    /\ \A u \in Users : Connected(u, TRUE) \in FromFes /\ Connected(u, FALSE) \in FromFes
    /\ \A c \in Cookies : [kind |-> "RPC", cookie |-> c] \in FromFes
    /\ \A c \in Cookies, f \in Fronts :
          [kind |-> "SCS", cookie |-> c, f |-> f] \in FromFes
<1>1. \A u \in Users : Connected(u, TRUE) \in FromFes /\ Connected(u, FALSE) \in FromFes
  BY DEF Connected, FromFes, ToLs
<1>2. \A c \in Cookies : [kind |-> "RPC", cookie |-> c] \in FromFes
  BY DEF FromFes
<1>3. \A c \in Cookies, f \in Fronts :
          [kind |-> "SCS", cookie |-> c, f |-> f] \in FromFes
  BY DEF FromFes, ToLs
<1> QED BY <1>1, <1>2, <1>3

LEMMA FesReadsTypes ==
    ASSUME LetInInv, AllTypes, NEW f \in Fronts, FesReads(f)
    PROVE  AllTypes'
<1> DEFINE m == Head(toFes[f])
<1>1. /\ UNCHANGED lsRest /\ UNCHANGED wsRest /\ UNCHANGED <<life, faults, entered>>
      /\ toFes[f] # <<>>
  BY DEF FesReads, lsVars, wsVars, lsRest, wsRest
<1>2. m \in ToWs
  BY <1>1, HeadTailProperties DEF LetInInv, Types
<1>3. \/ m.kind = "CS" /\ WSChooseShard(f, m.cookie)
      \/ m.kind = "DC" /\ WSDisconnectClient(f, m.user)
  BY DEF FesReads
<1> HIDE DEF m
<1>4. CASE m.kind = "CS" /\ WSChooseShard(f, m.cookie)
  <2> DEFINE c == m.cookie
             old == {d \in pending[f] : d.user = c.user}
  <2>1. c \in Cookies
    BY <1>2, <1>4 DEF ToWs
  <2>2. /\ pending' = [pending EXCEPT ![f] = (pending[f] \ old) \cup {c}]
        /\ replaced' = [replaced EXCEPT ![f] = @ + Cardinality(old)]
        /\ Report(f, [kind |-> "SCS", cookie |-> c, f |-> f])
    BY <1>4 DEF WSChooseShard
  <2>3. fromFes' \in [Fronts -> Seq(FromFes)]
    BY <2>1, <2>2, Reported, ReportTypes
  <2>4. /\ Cardinality(old) \in Nat /\ IsFiniteSet((pending[f] \ old) \cup {c})
    <3>1. IsFiniteSet(pending[f])
      BY DEF AllTypes, FesTypes
    <3>2. IsFiniteSet(old) /\ IsFiniteSet(pending[f] \ old)
      BY <3>1, FS_Subset
    <3> QED BY <3>2, FS_CardinalityType, FS_AddElement
  <2> HIDE DEF old, c
  <2>5. FesTypes'
    <3>1. replaced' \in [Fronts -> Nat]
      BY <2>2, <2>4 DEF AllTypes, FesTypes
    <3>2. \A g \in Fronts : IsFiniteSet(pending'[g])
      BY <2>2, <2>4 DEF AllTypes, FesTypes, LetInInv, Types
    <3> QED BY <1>1, <2>3, <3>1, <3>2 DEF AllTypes, FesTypes
  <2> QED BY <1>1, <2>5, SameTypes DEF AllTypes
<1>5. CASE m.kind = "DC" /\ WSDisconnectClient(f, m.user)
  <2> UNCHANGED fesRest
    BY <1>1, <1>5 DEF WSDisconnectClient, fesRest
  <2> QED BY <1>1, SameTypes DEF AllTypes
<1> QED BY <1>3, <1>4, <1>5

LEMMA RefreshTypes ==
    ASSUME LetInInv, AllTypes, NEW f \in Fronts, RefreshPendingList(f)
    PROVE  AllTypes'
<1>1. /\ UNCHANGED lsRest /\ UNCHANGED wsRest /\ UNCHANGED <<life, replaced, faults, entered>>
  BY DEF RefreshPendingList, lsVars, wsVars, histVars, lsRest, wsRest
<1>2. PICK c \in pending[f] : /\ pending' = [pending EXCEPT ![f] = @ \ {c}]
                              /\ Report(f, [kind |-> "RPC", cookie |-> c])
  BY DEF RefreshPendingList
<1>3. c \in Cookies
  BY <1>2 DEF LetInInv, Types
<1>4. fromFes' \in [Fronts -> Seq(FromFes)]
  BY <1>2, <1>3, Reported, ReportTypes
<1>5. \A g \in Fronts : IsFiniteSet(pending'[g])
  BY <1>2, FS_RemoveElement DEF AllTypes, FesTypes, LetInInv, Types
<1>6. FesTypes'
  BY <1>1, <1>4, <1>5 DEF AllTypes, FesTypes
<1> QED BY <1>1, <1>6, SameTypes DEF AllTypes

LEMMA ClientsTypes ==
    ASSUME LetInInv, AllTypes, NEW x \in Socks,
           \/ \E f \in Fronts, c \in Cookies : ConnectToShard(x, c, f)
           \/ ClientLeaves(x) \/ ShardValidation(x) \/ ClientDisconnected(x)
    PROVE  AllTypes'
<1>1. /\ UNCHANGED lsRest /\ UNCHANGED wsRest /\ UNCHANGED <<life, replaced, faults>>
  BY DEF ConnectToShard, ClientLeaves, ShardValidation, ClientDisconnected, lsVars, wsVars,
         fesVars, netVars, histVars, lsRest, wsRest
<1>2. FesTypes'
  <2>1. CASE \/ \E f \in Fronts, c \in Cookies : ConnectToShard(x, c, f)
             \/ ClientLeaves(x)
    <3> UNCHANGED fesRest
      BY <2>1 DEF ConnectToShard, ClientLeaves, lsVars, wsVars, fesVars, netVars, histVars, fesRest
    <3> QED BY SameTypes DEF AllTypes
  <2> DEFINE f == sock[x].f
             c == sock[x].cookie
             u == c.user
  <2>2. CASE ShardValidation(x)
    <3>1. /\ f \in Fronts /\ c \in Cookies /\ u \in Users
      BY <2>2, SockFacts DEF LetInInv, Unused, ShardValidation
    <3>2. CASE UNCHANGED <<pending, fromFes, entered>>
      <4> UNCHANGED fesRest
        BY <1>1, <3>2 DEF fesRest
      <4> QED BY SameTypes DEF AllTypes
    <3>3. CASE /\ pending' = [pending EXCEPT ![f] = @ \ {c}]
               /\ Report(f, Connected(u, TRUE)) /\ entered' = entered \cup {x}
      <4> HIDE DEF f, c, u
      <4>1. fromFes' \in [Fronts -> Seq(FromFes)]
        BY <3>1, <3>3, Reported, ReportTypes
      <4>2. \A g \in Fronts : IsFiniteSet(pending'[g])
        BY <3>1, <3>3, FS_RemoveElement DEF AllTypes, FesTypes, LetInInv, Types
      <4>3. IsFiniteSet(entered')
        BY <3>3, FS_AddElement DEF AllTypes, FesTypes
      <4> QED BY <1>1, <4>1, <4>2, <4>3 DEF AllTypes, FesTypes
    <3> QED BY <2>2, <3>2, <3>3 DEF ShardValidation
  <2>3. CASE ClientDisconnected(x)
    <3>1. /\ f \in Fronts /\ c \in Cookies /\ u \in Users
      BY <2>3, SockFacts DEF LetInInv, Unused, ClientDisconnected
    <3>2. UNCHANGED <<pending, entered>>
      BY <2>3 DEF ClientDisconnected, histVars
    <3>3. CASE UNCHANGED fromFes
      <4> UNCHANGED fesRest
        BY <1>1, <3>2, <3>3 DEF fesRest
      <4> QED BY SameTypes DEF AllTypes
    <3>4. CASE Report(f, Connected(u, FALSE))
      <4> HIDE DEF f, c, u
      <4>1. fromFes' \in [Fronts -> Seq(FromFes)]
        BY <3>1, <3>4, Reported, ReportTypes
      <4> QED BY <1>1, <3>2, <4>1 DEF AllTypes, FesTypes
    <3> QED BY <2>3, <3>3, <3>4 DEF ClientDisconnected
  <2> QED BY <2>1, <2>2, <2>3
<1> QED BY <1>1, <1>2, SameTypes DEF AllTypes

LEMMA FrontDiesTypes ==
    ASSUME LetInInv, AllTypes, NEW f \in Fronts, FrontDies(f)
    PROVE  AllTypes'
<1>1. /\ UNCHANGED lsRest /\ UNCHANGED wsRest /\ UNCHANGED <<fromFes, replaced, entered>>
      /\ life' = [life EXCEPT ![f] = "dead"] /\ pending' = [pending EXCEPT ![f] = {}]
      /\ faults < MaxFaults /\ faults' = faults + 1
  BY DEF FrontDies, Fault, lsVars, wsVars, lsRest, wsRest
<1>2. \A g \in Fronts : IsFiniteSet(pending'[g])
  BY <1>1, FS_EmptySet DEF AllTypes, FesTypes, LetInInv, Types
<1>3. FesTypes'
  BY <1>1, <1>2, ConstantsAssumption DEF AllTypes, FesTypes
<1> QED BY <1>1, <1>3, SameTypes DEF AllTypes

LEMMA TypesNext == LetInInv /\ AllTypes /\ [Next]_vars => AllTypes'
<1> SUFFICES ASSUME LetInInv, AllTypes, [Next]_vars PROVE AllTypes'
  OBVIOUS
<1>1. CASE WsServes
  BY <1>1, WsReadsLsTypes, WsReadsFesTypes, FrontDownTypes DEF WsServes
<1>2. ASSUME NEW f \in Fronts, FesServes(f)
      PROVE  AllTypes'
  BY <1>2, FesReadsTypes, ClientsTypes DEF FesServes
<1>3. CASE UNCHANGED vars
  <2> UNCHANGED lsRest /\ UNCHANGED wsRest /\ UNCHANGED fesRest
    BY <1>3 DEF vars, lsVars, wsVars, fesVars, netVars, histVars, lsRest, wsRest, fesRest
  <2> QED BY SameTypes DEF AllTypes
<1> QED BY <1>1, <1>2, <1>3, AsksTypes, LsReadsTypes, LinkTypes, FrontUpTypes, RefreshTypes,
           FrontDiesTypes, ClientsTypes DEF Next

----------------------------------------------------------------------------
(* The inductive invariant of the numbers of users *)

InOf(f) == {x \in Socks : sock[x].state = "in" /\ sock[x].f = f}

(* the list has a front end once, from its start to the report of its end *)
Listed ==
    /\ \A i, j \in 1 .. Len(fesList) : fesList[i].f = fesList[j].f => i = j
    /\ \A i \in 1 .. Len(fesList) : life[fesList[i].f] # "off"

(* who is in was let in *)
InsEntered == \A x \in Socks : sock[x].state = "in" => x \in entered

(* a front end that has ended, or is not there yet, has nothing *)
Ended ==
    \A f \in Fronts : life[f] # "up" =>
       /\ toFes[f] = <<>> /\ pending[f] = {}
       /\ \A x \in Socks : sock[x].state \in {"connected", "in", "refused"} => sock[x].f # f

Fresh == \A f \in Fronts : life[f] = "off" => fromFes[f] = <<>> /\ replaced[f] = 0

Lives == Listed /\ InsEntered /\ Ended /\ Fresh

BalanceOf(e, f) ==
    Balance(e, fromFes[f], toFes[f], Cardinality(pending[f]) + replaced[f],
            Cardinality(InOf(f)))

Balanced ==
    \A i \in 1 .. Len(fesList) :
       life[fesList[i].f] = "up" => BalanceOf(fesList[i], fesList[i].f)

CountInv == Lives /\ Balanced

numberVars == <<fesList, life, fromFes, toFes, pending, replaced, sock, entered>>

LEMMA NumbersUntouched ==
    ASSUME CountInv, UNCHANGED numberVars
    PROVE  CountInv'
<1>1. /\ fesList' = fesList /\ life' = life /\ fromFes' = fromFes /\ toFes' = toFes
      /\ pending' = pending /\ replaced' = replaced /\ sock' = sock /\ entered' = entered
  BY DEF numberVars
<1>2. Lives'
  BY <1>1 DEF CountInv, Lives, Listed, InsEntered, Ended, Fresh
<1>3. \A f : InOf(f)' = InOf(f)
  BY <1>1 DEF InOf
<1>4. \A e, f : BalanceOf(e, f) => BalanceOf(e, f)'
  BY <1>1, <1>3 DEF BalanceOf
<1> QED BY <1>1, <1>2, <1>4 DEF CountInv, Balanced

(* what the numbers are compared with *)
LEMMA Amounts ==
    ASSUME LetInInv, AllTypes, CountInv, NEW f \in Fronts
    PROVE  /\ fromFes[f] \in Seq(FromFes) /\ toFes[f] \in Seq(ToWs)
           /\ IsFiniteSet(pending[f]) /\ Cardinality(pending[f]) \in Nat
           /\ replaced[f] \in Nat
           /\ IsFiniteSet(InOf(f)) /\ Cardinality(InOf(f)) \in Nat
<1>1. InOf(f) \in SUBSET entered /\ IsFiniteSet(entered)
  BY DEF InOf, CountInv, Lives, InsEntered, AllTypes, FesTypes
<1>2. IsFiniteSet(InOf(f))
  BY <1>1, FS_Subset
<1> QED BY <1>2, FS_CardinalityType DEF AllTypes, FesTypes, LetInInv, Types

LEMMA InList ==
    ASSUME AllTypes
    PROVE  /\ Len(fesList) \in Nat
           /\ \A i \in 1 .. Len(fesList) : fesList[i] \in FES /\ fesList[i].f \in Fronts
<1>1. Len(fesList) \in Nat /\ \A i \in 1 .. Len(fesList) : fesList[i] \in FES
  BY LenProperties DEF AllTypes, WsTypes
<1> QED BY <1>1 DEF FES

(* a step of one front end, which the list does not know *)
LEMMA OneFront ==
    ASSUME AllTypes, CountInv, Lives', NEW f \in Fronts, UNCHANGED <<fesList, life>>,
           \A g \in Fronts : g # f =>
              /\ fromFes'[g] = fromFes[g] /\ toFes'[g] = toFes[g] /\ pending'[g] = pending[g]
              /\ replaced'[g] = replaced[g] /\ InOf(g)' = InOf(g),
           \A e \in FES : BalanceOf(e, f) => BalanceOf(e, f)'
    PROVE  CountInv'
<1>1. \A g \in Fronts : \A e \in FES : BalanceOf(e, g) => BalanceOf(e, g)'
  <2> SUFFICES ASSUME NEW g \in Fronts, NEW e \in FES, BalanceOf(e, g), g # f
               PROVE  BalanceOf(e, g)'
    OBVIOUS
  <2> QED BY DEF BalanceOf
<1>2. Balanced'
  <2> SUFFICES ASSUME NEW i \in 1 .. Len(fesList), life[fesList[i].f] = "up"
               PROVE  BalanceOf(fesList[i], fesList[i].f)'
    BY DEF Balanced
  <2>1. BalanceOf(fesList[i], fesList[i].f) /\ fesList[i] \in FES /\ fesList[i].f \in Fronts
    BY InList DEF CountInv, Balanced
  <2> DEFINE e == fesList[i]
             g == fesList[i].f
  <2>2. fesList'[i] = e /\ fesList'[i].f = g
    OBVIOUS
  <2> QED BY <1>1, <2>1, <2>2
<1> QED BY <1>2 DEF CountInv

----------------------------------------------------------------------------
(* The steps of the front ends and of the clients *)

LEMMA ReportedKinds ==
    /\ \A u \in Users : Connected(u, TRUE) \in Ins /\ Connected(u, FALSE) \in Outs
    /\ \A c \in Cookies : [kind |-> "RPC", cookie |-> c] \in Removals
BY Reported DEF Ins, Outs, Removals, Connected

(* a step that reports nothing and lets nobody in or go *)
LEMMA SocksStep ==
    ASSUME LetInInv, AllTypes, CountInv, LetInInv',
           UNCHANGED <<fesList, life, fromFes, toFes, pending, replaced, entered>>,
           \A x \in Socks :
              \/ sock'[x].state = sock[x].state /\ sock'[x].f = sock[x].f
              \/ /\ sock[x].state # "in" /\ sock'[x].state # "in"
                 /\ \/ sock'[x].state \notin {"connected", "refused"}
                    \/ life[sock'[x].f] = "up"
    PROVE  CountInv'
<1>1. \A f : InOf(f)' = InOf(f)
  BY DEF InOf
<1>2. Lives'
  BY DEF CountInv, Lives, Listed, InsEntered, Ended, Fresh
<1>3. \A e, f : BalanceOf(e, f) => BalanceOf(e, f)'
  BY <1>1 DEF BalanceOf
<1> QED BY <1>2, <1>3 DEF CountInv, Balanced

LEMMA FesReadsCounts ==
    ASSUME LetInInv, AllTypes, CountInv, LetInInv', NEW f \in Fronts, FesReads(f)
    PROVE  CountInv'
<1> DEFINE m == Head(toFes[f])
<1>1. /\ UNCHANGED <<fesList, life, entered>> /\ toFes[f] # <<>>
      /\ toFes' = [toFes EXCEPT ![f] = Tail(@)]
  BY DEF FesReads, wsVars
<1>2. /\ m \in ToWs /\ EachOnce(toFes[f])
      /\ m.kind = "CS" => m.cookie \in Carried(toFes[f])
  BY <1>1, HeadTaken DEF LetInInv, Types, InOnePlace, Singly
<1>3. /\ toFes'[f] = Tail(toFes[f])
      /\ \A g \in Fronts : g # f => toFes'[g] = toFes[g]
  BY <1>1 DEF LetInInv, Types
<1>4. life[f] = "up"
  BY <1>1 DEF CountInv, Lives, Ended
<1>5. \/ m.kind = "CS" /\ WSChooseShard(f, m.cookie)
      \/ m.kind = "DC" /\ WSDisconnectClient(f, m.user)
  BY DEF FesReads
<1> HIDE DEF m
<1>6. CASE m.kind = "CS" /\ WSChooseShard(f, m.cookie)
  <2> DEFINE c == m.cookie
             old == {d \in pending[f] : d.user = c.user}
             rest == pending[f] \ old
             r == [kind |-> "SCS", cookie |-> c, f |-> f]
             p == Cardinality(pending[f]) + replaced[f]
  <2>1. c \in Cookies /\ c \notin pending[f]
    BY <1>2, <1>6 DEF ToWs, LetInInv, InOnePlace, FesApart
  <2>2. /\ pending' = [pending EXCEPT ![f] = rest \cup {c}]
        /\ replaced' = [replaced EXCEPT ![f] = @ + Cardinality(old)]
        /\ Report(f, r) /\ sock' = sock
    BY <1>6 DEF WSChooseShard
  <2>3. /\ pending'[f] = rest \cup {c} /\ replaced'[f] = replaced[f] + Cardinality(old)
        /\ \A g \in Fronts : g # f => pending'[g] = pending[g] /\ replaced'[g] = replaced[g]
    BY <2>2 DEF LetInInv, Types, AllTypes, FesTypes
  <2>4. r \in FromFes /\ r.kind = "SCS"
    BY <2>1, Reported
  <2>5. /\ fromFes'[f] = Append(fromFes[f], r)
        /\ \A g \in Fronts : g # f => fromFes'[g] = fromFes[g]
    BY <2>2, <2>4, ReportTypes
  <2> HIDE DEF r
  <2>6. Cardinality(pending'[f]) + replaced'[f] = p + 1 /\ p \in Nat
    <3>1. /\ IsFiniteSet(pending[f]) /\ Cardinality(pending[f]) \in Nat /\ replaced[f] \in Nat
      BY Amounts
    <3>2. IsFiniteSet(old) /\ IsFiniteSet(rest)
      BY <3>1, FS_Subset
    <3>3. Cardinality(old) \in Nat /\ Cardinality(rest) \in Nat
      BY <3>2, FS_CardinalityType
    <3>4. Cardinality(pending[f]) = Cardinality(old) + Cardinality(rest)
      <4>1. old \cup rest = pending[f] /\ old \cap rest = {}
        OBVIOUS
      <4>2. Cardinality(old \cup rest) = Cardinality(old) + Cardinality(rest) - Cardinality(old \cap rest)
        BY <3>2, FS_Union
      <4>3. Cardinality(old \cap rest) = 0
        BY <4>1, FS_EmptySet
      <4>4. Cardinality(pending[f]) = Cardinality(old \cup rest)
        BY <4>1
      <4> DEFINE a == Cardinality(old)
                 b == Cardinality(rest)
                 u == Cardinality(old \cup rest)
                 z == Cardinality(old \cap rest)
      <4>5. a \in Nat /\ b \in Nat /\ u = a + b - z /\ z = 0 /\ Cardinality(pending[f]) = u
        BY <3>3, <4>2, <4>3, <4>4
      <4> HIDE DEF a, b, u, z
      <4>6. Cardinality(pending[f]) = a + b
        BY <4>5
      <4> QED BY <4>6 DEF a, b
    <3>5. c \notin rest
      BY <2>1
    <3> HIDE DEF old, rest, c
    <3>6. Cardinality(pending'[f]) = Cardinality(rest) + 1
      BY <2>3, <3>2, <3>5, FS_AddElement
    <3> DEFINE a == Cardinality(old)
               b == Cardinality(rest)
               q == replaced[f]
    <3>7. a \in Nat /\ b \in Nat /\ q \in Nat
      BY <3>1, <3>3
    <3>8. Cardinality(pending'[f]) = b + 1 /\ replaced'[f] = q + a /\ p = (a + b) + q
      BY <2>3, <3>4, <3>6
    <3> HIDE DEF a, b, q, p
    <3> QED BY <3>7, <3>8
  <2> HIDE DEF c, old, rest, p
  <2>7. \A g \in Fronts : InOf(g)' = InOf(g)
    BY <2>2 DEF InOf
  <2>8. Lives'
    <3>1. Listed' /\ InsEntered' /\ Fresh'
      BY <1>1, <1>4, <2>2, <2>3, <2>5 DEF CountInv, Lives, Listed, InsEntered, Fresh
    <3>2. Ended'
      BY <1>1, <1>3, <1>4, <2>2, <2>3 DEF CountInv, Lives, Ended
    <3> QED BY <3>1, <3>2 DEF Lives
  <2>9. ASSUME NEW e \in FES, BalanceOf(e, f)
        PROVE  BalanceOf(e, f)'
    <3> DEFINE n == Cardinality(InOf(f))
               q == fromFes[f]
               t == toFes[f]
    <3>1. n \in Nat /\ q \in Seq(FromFes) /\ t \in Seq(ToWs) /\ t # <<>> /\ p \in Nat
      BY <1>1, <2>6, Amounts
    <3>2. Balance(e, q, t, p, n)
      BY <2>9 DEF BalanceOf, p
    <3>3. n' = n /\ Cardinality(pending'[f]) + replaced'[f] = p + 1
      BY <2>6, <2>7
    <3>4. Head(t).kind = "CS"
      BY <1>6 DEF m
    <3>5. Tail(t) \in Seq(ToWs) /\ p + 1 \in Nat
      BY <3>1, HeadTailProperties
    <3> HIDE DEF n, q, t
    <3>6. Balance(e, q, Tail(t), p + 1, n)
      BY <3>1, <3>2, <3>4, BalanceTold
    <3>7. Balance(e, Append(q, r), Tail(t), p + 1, n)
      BY <2>4, <3>1, <3>5, <3>6, BalanceAppend
    <3> QED BY <1>3, <2>5, <3>3, <3>7 DEF BalanceOf, n, q, t
  <2> QED BY <1>1, <1>3, <2>3, <2>5, <2>7, <2>8, <2>9, OneFront
<1>7. CASE m.kind = "DC" /\ WSDisconnectClient(f, m.user)
  <2>1. UNCHANGED <<pending, replaced, fromFes>>
    BY <1>7 DEF WSDisconnectClient
  <2>2. \A x \in Socks : sock'[x].state = sock[x].state /\ sock'[x].f = sock[x].f
    <3> DEFINE y == sockOf[f][m.user]
    <3>1. m.user \in Users
      BY <1>2, <1>7 DEF ToWs
    <3>2. y # None => y \in Socks /\ sock[y].state = "in"
      BY <3>1 DEF LetInInv, Types, His
    <3>3. sock' = sock \/ (y # None /\ sock' = [sock EXCEPT ![y].closed = TRUE])
      BY <1>7 DEF WSDisconnectClient
    <3> HIDE DEF y
    <3>4. y # None => sock[y] \in Connections
      BY <3>2, SockFacts DEF LetInInv, Unused
    <3> QED BY <3>2, <3>3, <3>4, ClosedFacts DEF LetInInv
  <2>3. \A g \in Fronts : InOf(g)' = InOf(g)
    BY <2>2 DEF InOf
  <2>4. Lives'
    <3>1. Listed' /\ InsEntered' /\ Fresh'
      BY <1>1, <2>1, <2>2 DEF CountInv, Lives, Listed, InsEntered, Fresh
    <3>2. Ended'
      BY <1>1, <1>3, <1>4, <2>1, <2>2 DEF CountInv, Lives, Ended
    <3> QED BY <3>1, <3>2 DEF Lives
  <2>5. ASSUME NEW e \in FES, BalanceOf(e, f)
        PROVE  BalanceOf(e, f)'
    <3> DEFINE n == Cardinality(InOf(f))
               q == fromFes[f]
               t == toFes[f]
               p == Cardinality(pending[f]) + replaced[f]
    <3>1. n \in Nat /\ q \in Seq(FromFes) /\ t \in Seq(ToWs) /\ t # <<>> /\ p \in Nat
      BY <1>1, Amounts
    <3>2. Balance(e, q, t, p, n)
      BY <2>5 DEF BalanceOf
    <3>3. n' = n /\ p' = p /\ q' = q /\ t' = Tail(t)
      BY <1>3, <2>1, <2>3
    <3>4. Head(t).kind = "DC"
      BY <1>7 DEF m
    <3> HIDE DEF n, q, t, p
    <3>6. Balance(e, q, Tail(t), p, n)
      BY <3>1, <3>2, <3>4, BalanceTold
    <3> QED BY <3>3, <3>6 DEF BalanceOf, n, q, t, p
  <2> QED BY <1>1, <1>3, <2>1, <2>3, <2>4, <2>5, OneFront
<1> QED BY <1>5, <1>6, <1>7

LEMMA RefreshCounts ==
    ASSUME LetInInv, AllTypes, CountInv, NEW f \in Fronts, RefreshPendingList(f)
    PROVE  CountInv'
<1>1. UNCHANGED <<fesList, life, toFes, replaced, sock, entered>>
  BY DEF RefreshPendingList, wsVars, histVars
<1>2. PICK c \in pending[f] : /\ pending' = [pending EXCEPT ![f] = @ \ {c}]
                              /\ Report(f, [kind |-> "RPC", cookie |-> c])
  BY DEF RefreshPendingList
<1> DEFINE r == [kind |-> "RPC", cookie |-> c]
<1>3. c \in Cookies
  BY <1>2 DEF LetInInv, Types
<1>4. r \in FromFes /\ r \in Removals
  BY <1>3, Reported, ReportedKinds
<1>5. /\ fromFes'[f] = Append(fromFes[f], r)
      /\ \A g \in Fronts : g # f => fromFes'[g] = fromFes[g]
  BY <1>2, <1>4, ReportTypes
<1> HIDE DEF r
<1>6. /\ pending'[f] = pending[f] \ {c}
      /\ \A g \in Fronts : g # f => pending'[g] = pending[g]
  BY <1>2 DEF LetInInv, Types
<1>7. life[f] = "up"
  BY <1>2 DEF CountInv, Lives, Ended
<1>8. \A g \in Fronts : InOf(g)' = InOf(g)
  BY <1>1 DEF InOf
<1>9. Lives'
  <2>1. Listed' /\ InsEntered' /\ Fresh'
    BY <1>1, <1>5, <1>7 DEF CountInv, Lives, Listed, InsEntered, Fresh
  <2>2. Ended'
    BY <1>1, <1>6, <1>7 DEF CountInv, Lives, Ended
  <2> QED BY <2>1, <2>2 DEF Lives
<1>10. ASSUME NEW e \in FES, BalanceOf(e, f)
       PROVE  BalanceOf(e, f)'
  <2> DEFINE n == Cardinality(InOf(f))
             q == fromFes[f]
             t == toFes[f]
             a == Cardinality(pending[f])
             p == a + replaced[f]
  <2>1. /\ n \in Nat /\ q \in Seq(FromFes) /\ t \in Seq(ToWs) /\ a \in Nat
        /\ replaced[f] \in Nat /\ IsFiniteSet(pending[f])
    BY Amounts
  <2>2. Balance(e, q, t, p, n)
    BY <1>10 DEF BalanceOf
  <2>3. a' = a - 1 /\ a > 0
    <3>1. a' = a - 1
      BY <1>2, <1>6, <2>1, FS_RemoveElement
    <3>2. a # 0
      BY <1>2, <2>1, FS_EmptySet
    <3> QED BY <2>1, <3>1, <3>2
  <2>4. n' = n /\ t' = t /\ replaced'[f] = replaced[f] /\ q' = Append(q, r)
    BY <1>1, <1>5, <1>8
  <2> HIDE DEF n, q, t, a
  <2>5. p' = p - 1 /\ p > 0 /\ p \in Nat
    BY <2>1, <2>3, <2>4
  <2> HIDE DEF p
  <2>6. Balance(e, Append(q, r), t, p - 1, n)
    BY <1>4, <2>1, <2>2, <2>5, BalanceAppend
  <2> QED BY <2>4, <2>5, <2>6 DEF BalanceOf, n, q, t, a, p
<1> QED BY <1>1, <1>5, <1>6, <1>8, <1>9, <1>10, OneFront

LEMMA ConnectCounts ==
    ASSUME LetInInv, AllTypes, CountInv, LetInInv', NEW x \in Socks, NEW c \in Cookies,
           NEW f \in Fronts, ConnectToShard(x, c, f)
    PROVE  CountInv'
<1>1. /\ UNCHANGED <<fesList, life, fromFes, toFes, pending, replaced, entered>>
      /\ sock[x] = Unused /\ life[f] = "up"
      /\ sock' = [sock EXCEPT ![x] = [state |-> "connected", closed |-> FALSE,
                                      f |-> f, cookie |-> c]]
  BY DEF ConnectToShard, wsVars, fesVars, netVars, histVars
<1>2. /\ sock'[x].state = "connected" /\ sock'[x].f = f /\ sock[x].state = "unused"
      /\ \A y \in Socks : y # x => sock'[y] = sock[y]
  BY <1>1 DEF LetInInv, Types, Unused
<1> QED BY <1>1, <1>2, SocksStep

LEMMA ClientLeavesCounts ==
    ASSUME LetInInv, AllTypes, CountInv, LetInInv', NEW x \in Socks, ClientLeaves(x)
    PROVE  CountInv'
<1>1. /\ UNCHANGED <<fesList, life, fromFes, toFes, pending, replaced, entered>>
      /\ sock[x].state \in {"connected", "in"}
      /\ sock' = [sock EXCEPT ![x].closed = TRUE]
  BY DEF ClientLeaves, wsVars, fesVars, netVars, histVars
<1>2. sock[x] \in Connections
  BY <1>1, SockFacts DEF LetInInv, Unused
<1>3. \A y \in Socks : sock'[y].state = sock[y].state /\ sock'[y].f = sock[y].f
  BY <1>1, <1>2, ClosedFacts DEF LetInInv
<1> QED BY <1>1, <1>3, SocksStep

LEMMA ShardValidationCounts ==
    ASSUME LetInInv, AllTypes, CountInv, LetInInv', NEW x \in Socks, ShardValidation(x)
    PROVE  CountInv'
<1>1. UNCHANGED <<fesList, life, toFes, replaced>> /\ sock[x].state = "connected"
  BY DEF ShardValidation, wsVars
<1>0. /\ sock[x] \in Connections /\ sock[x].f \in Fronts
      /\ sock[x].cookie \in Cookies /\ sock[x].cookie.user \in Users
  BY <1>1, SockFacts DEF LetInInv, Unused
<1> PICK f \in Fronts, c \in Cookies, u \in Users :
       f = sock[x].f /\ c = sock[x].cookie /\ u = c.user
  BY <1>0
<1>2. sock[x] \in Connections /\ f \in Fronts /\ c \in Cookies /\ u \in Users
  BY <1>0
<1>3. life[f] = "up"
  BY <1>1, <1>2 DEF CountInv, Lives, Ended
<1>4. CASE c \in pending[f]
  <2> DEFINE r == Connected(u, TRUE)
             s == [sock[x] EXCEPT !.state = "in"]
  <2>1. /\ pending' = [pending EXCEPT ![f] = @ \ {c}] /\ Report(f, r)
        /\ sock' = [sock EXCEPT ![x] = s] /\ entered' = entered \cup {x}
    BY <1>4 DEF ShardValidation
  <2>2. s.state = "in" /\ s.f = f
    BY <1>2 DEF Connections
  <2> HIDE DEF s
  <2>3. sock'[x] = s /\ \A y \in Socks : y # x => sock'[y] = sock[y]
    BY <2>1 DEF LetInInv, Types
  <2>4. r \in FromFes /\ r \in Ins
    BY <1>2, Reported, ReportedKinds
  <2>5. /\ fromFes'[f] = Append(fromFes[f], r)
        /\ \A g \in Fronts : g # f => fromFes'[g] = fromFes[g]
    BY <1>2, <2>1, <2>4, ReportTypes
  <2> HIDE DEF r
  <2>6. /\ pending'[f] = pending[f] \ {c}
        /\ \A g \in Fronts : g # f => pending'[g] = pending[g]
    BY <1>2, <2>1 DEF LetInInv, Types
  <2>7. /\ InOf(f)' = InOf(f) \cup {x} /\ x \notin InOf(f)
        /\ \A g \in Fronts : g # f => InOf(g)' = InOf(g)
    BY <1>1, <2>2, <2>3 DEF InOf
  <2>8. Lives'
    <3>1. Listed' /\ InsEntered' /\ Fresh'
      BY <1>1, <1>3, <2>1, <2>3, <2>5 DEF CountInv, Lives, Listed, InsEntered, Fresh
    <3>2. Ended'
      BY <1>1, <1>3, <2>2, <2>3, <2>6 DEF CountInv, Lives, Ended
    <3> QED BY <3>1, <3>2 DEF Lives
  <2>9. ASSUME NEW e \in FES, BalanceOf(e, f)
        PROVE  BalanceOf(e, f)'
    <3> DEFINE n == Cardinality(InOf(f))
               q == fromFes[f]
               t == toFes[f]
               a == Cardinality(pending[f])
               p == a + replaced[f]
    <3>1. /\ n \in Nat /\ q \in Seq(FromFes) /\ t \in Seq(ToWs) /\ a \in Nat
          /\ replaced[f] \in Nat /\ IsFiniteSet(pending[f]) /\ IsFiniteSet(InOf(f))
      BY <1>2, Amounts
    <3>2. Balance(e, q, t, p, n)
      BY <2>9 DEF BalanceOf
    <3>3. a' = a - 1 /\ a > 0
      <4>1. a' = a - 1
        <5>1. Cardinality(pending[f] \ {c}) = Cardinality(pending[f]) - 1
          BY <1>4, <3>1, FS_RemoveElement
        <5> QED BY <2>6, <5>1
      <4>2. a # 0
        BY <1>4, <3>1, FS_EmptySet
      <4> QED BY <3>1, <4>1, <4>2
    <3>4. t' = t /\ replaced'[f] = replaced[f] /\ q' = Append(q, r)
      BY <1>1, <2>5
    <3>5. n' = n + 1
      BY <2>7, <3>1, FS_AddElement
    <3> HIDE DEF n, q, t, a
    <3>6. p' = p - 1 /\ p > 0 /\ p \in Nat
      BY <3>1, <3>3, <3>4
    <3> HIDE DEF p
    <3>7. Balance(e, Append(q, r), t, p - 1, n + 1)
      BY <2>4, <3>1, <3>2, <3>6, BalanceAppend
    <3> QED BY <3>4, <3>5, <3>6, <3>7 DEF BalanceOf, n, q, t, a, p
  <2> QED BY <1>1, <1>2, <2>5, <2>6, <2>7, <2>8, <2>9, OneFront
<1>5. CASE c \notin pending[f]
  <2> DEFINE s == [sock[x] EXCEPT !.state = "refused", !.closed = TRUE]
  <2>1. UNCHANGED <<pending, fromFes, entered>> /\ sock' = [sock EXCEPT ![x] = s]
    BY <1>5 DEF ShardValidation
  <2>2. s.state = "refused" /\ s.f = f
    BY <1>2 DEF Connections
  <2> HIDE DEF s
  <2>3. sock'[x] = s /\ \A y \in Socks : y # x => sock'[y] = sock[y]
    BY <2>1 DEF LetInInv, Types
  <2> QED BY <1>1, <1>3, <2>1, <2>2, <2>3, SocksStep
<1> QED BY <1>4, <1>5

LEMMA ClientDisconnectedCounts ==
    ASSUME LetInInv, AllTypes, CountInv, LetInInv', NEW x \in Socks, ClientDisconnected(x)
    PROVE  CountInv'
<1> DEFINE s == [sock[x] EXCEPT !.state = "gone"]
<1>1. /\ UNCHANGED <<fesList, life, toFes, pending, replaced, entered>>
      /\ sock[x].state \in {"in", "refused"} /\ sock' = [sock EXCEPT ![x] = s]
  BY DEF ClientDisconnected, wsVars, histVars
<1>0. /\ sock[x] \in Connections /\ sock[x].f \in Fronts
      /\ sock[x].cookie.user \in Users
  BY <1>1, SockFacts DEF LetInInv, Unused
<1> PICK f \in Fronts, u \in Users : f = sock[x].f /\ u = sock[x].cookie.user
  BY <1>0
<1>2. sock[x] \in Connections /\ f \in Fronts /\ u \in Users
  BY <1>0
<1>3. life[f] = "up"
  BY <1>1, <1>2 DEF CountInv, Lives, Ended
<1>4. s.state = "gone" /\ s.f = f
  BY <1>2 DEF Connections
<1> HIDE DEF s
<1>5. sock'[x] = s /\ \A y \in Socks : y # x => sock'[y] = sock[y]
  BY <1>1 DEF LetInInv, Types
<1>6. CASE sock[x].state = "refused"
  <2>1. fromFes' = fromFes
    BY <1>6 DEF ClientDisconnected
  <2> QED BY <1>1, <1>4, <1>5, <1>6, <2>1, SocksStep
<1>7. CASE sock[x].state = "in"
  <2> DEFINE r == Connected(u, FALSE)
  <2>1. Report(f, r)
    BY <1>7 DEF ClientDisconnected
  <2>2. r \in FromFes /\ r \in Outs
    BY <1>2, Reported, ReportedKinds
  <2>3. /\ fromFes'[f] = Append(fromFes[f], r)
        /\ \A g \in Fronts : g # f => fromFes'[g] = fromFes[g]
    BY <1>2, <2>1, <2>2, ReportTypes
  <2> HIDE DEF r
  <2>4. /\ InOf(f)' = InOf(f) \ {x} /\ x \in InOf(f)
        /\ \A g \in Fronts : g # f => InOf(g)' = InOf(g)
    BY <1>4, <1>5, <1>7 DEF InOf
  <2>5. Lives'
    <3>1. Listed' /\ InsEntered' /\ Fresh'
      BY <1>1, <1>3, <1>4, <1>5, <2>3 DEF CountInv, Lives, Listed, InsEntered, Fresh
    <3>2. Ended'
      BY <1>1, <1>3, <1>4, <1>5 DEF CountInv, Lives, Ended
    <3> QED BY <3>1, <3>2 DEF Lives
  <2>6. ASSUME NEW e \in FES, BalanceOf(e, f)
        PROVE  BalanceOf(e, f)'
    <3> DEFINE n == Cardinality(InOf(f))
               q == fromFes[f]
               t == toFes[f]
               p == Cardinality(pending[f]) + replaced[f]
    <3>1. /\ n \in Nat /\ q \in Seq(FromFes) /\ t \in Seq(ToWs) /\ p \in Nat
          /\ IsFiniteSet(InOf(f))
      BY <1>2, Amounts
    <3>2. Balance(e, q, t, p, n)
      BY <2>6 DEF BalanceOf
    <3>3. t' = t /\ p' = p /\ q' = Append(q, r)
      BY <1>1, <2>3
    <3>4. n' = n - 1 /\ n > 0
      <4>1. n' = n - 1
        <5>1. Cardinality(InOf(f) \ {x}) =
                 IF x \in InOf(f) THEN Cardinality(InOf(f)) - 1 ELSE Cardinality(InOf(f))
          BY <3>1, FS_RemoveElement
        <5> QED BY <5>1, <2>4
      <4>2. n # 0
        BY <2>4, <3>1, FS_EmptySet
      <4> QED BY <3>1, <4>1, <4>2
    <3> HIDE DEF n, q, t, p
    <3>5. Balance(e, Append(q, r), t, p, n - 1)
      BY <2>2, <3>1, <3>2, <3>4, BalanceAppend
    <3> QED BY <3>3, <3>4, <3>5 DEF BalanceOf, n, q, t, p
  <2> QED BY <1>1, <1>2, <2>3, <2>4, <2>5, <2>6, OneFront
<1> QED BY <1>1, <1>6, <1>7

LEMMA FrontDiesCounts ==
    ASSUME LetInInv, AllTypes, CountInv, NEW f \in Fronts, FrontDies(f)
    PROVE  CountInv'
<1>1. /\ UNCHANGED <<fesList, fromFes, entered, replaced>>
      /\ life' = [life EXCEPT ![f] = "dead"]
      /\ pending' = [pending EXCEPT ![f] = {}] /\ toFes' = [toFes EXCEPT ![f] = <<>>]
      /\ sock' = [x \in Socks |-> IF sock[x] # Unused /\ sock[x].f = f
                                  THEN [sock[x] EXCEPT !.state = "gone"] ELSE sock[x]]
  BY DEF FrontDies, wsVars
<1>2. \A x \in Socks :
         \/ sock[x] # Unused /\ sock[x].f # f /\ sock'[x] = sock[x]
         \/ sock[x] = Unused /\ sock'[x] = Unused
         \/ sock[x] # Unused /\ sock[x].f = f /\ sock'[x].state = "gone"
  <2> SUFFICES ASSUME NEW x \in Socks
               PROVE  \/ sock[x] # Unused /\ sock[x].f # f /\ sock'[x] = sock[x]
                      \/ sock[x] = Unused /\ sock'[x] = Unused
                      \/ sock[x] # Unused /\ sock[x].f = f /\ sock'[x].state = "gone"
    OBVIOUS
  <2>1. sock[x] # Unused => sock[x] \in Connections
    BY SockFacts DEF LetInInv
  <2>2. sock[x] # Unused => [sock[x] EXCEPT !.state = "gone"].state = "gone"
    BY <2>1 DEF Connections
  <2> QED BY <1>1, <2>2
<1>3. Unused.state = "unused"
  BY DEF Unused
<1>4. /\ life'[f] = "dead" /\ pending'[f] = {} /\ toFes'[f] = <<>>
      /\ \A g \in Fronts : g # f => /\ life'[g] = life[g] /\ pending'[g] = pending[g]
                                    /\ toFes'[g] = toFes[g] /\ InOf(g)' = InOf(g)
  <2>1. \A g \in Fronts : g # f => InOf(g)' = InOf(g)
    BY <1>2, <1>3 DEF InOf
  <2> QED BY <1>1, <2>1 DEF LetInInv, Types, AllTypes, FesTypes
<1>5. Lives'
  <2>1. Listed'
    BY <1>1, <1>4, InList DEF CountInv, Lives, Listed
  <2>2. InsEntered' /\ Fresh'
    BY <1>1, <1>2, <1>3, <1>4 DEF CountInv, Lives, InsEntered, Fresh
  <2>3. Ended'
    BY <1>2, <1>3, <1>4 DEF CountInv, Lives, Ended
  <2> QED BY <2>1, <2>2, <2>3 DEF Lives
<1>6. Balanced'
  <2> SUFFICES ASSUME NEW i \in 1 .. Len(fesList), life'[fesList[i].f] = "up"
               PROVE  BalanceOf(fesList[i], fesList[i].f)'
    BY <1>1 DEF Balanced
  <2>1. fesList[i].f \in Fronts /\ fesList[i].f # f /\ life[fesList[i].f] = "up"
    BY <1>4, InList
  <2>2. PICK e, g : e = fesList[i] /\ g = fesList[i].f
    OBVIOUS
  <2>3. BalanceOf(e, g)
    BY <2>1, <2>2 DEF CountInv, Balanced
  <2>4. BalanceOf(e, g)'
    BY <1>1, <1>4, <2>1, <2>2, <2>3 DEF BalanceOf
  <2>5. fesList'[i] = e /\ fesList'[i].f = g
    BY <1>1, <2>2
  <2> QED BY <2>4, <2>5
<1> QED BY <1>5, <1>6 DEF CountInv

----------------------------------------------------------------------------
(* The steps of WS *)

LEMMA BalancedNext ==
    ASSUME Lives',
           \A i \in 1 .. Len(fesList') :
              life'[fesList'[i].f] = "up" =>
                 \E e, g : e = fesList'[i] /\ g = fesList'[i].f /\ BalanceOf(e, g)'
    PROVE  CountInv'
BY DEF CountInv, Balanced

LEMMA WsReadsFesCounts ==
    ASSUME LetInInv, AllTypes, CountInv, NEW f \in Fronts, WsReadsFes(f)
    PROVE  CountInv'
<1>1. UNCHANGED <<life, toFes, pending, replaced, sock, entered>>
  BY DEF WsReadsFes, fesVars
<1> PICK m : m = Head(fromFes[f])
  OBVIOUS
<1>2. /\ m \in FromFes /\ fromFes[f] \in Seq(FromFes) /\ fromFes[f] # <<>>
      /\ fromFes' = [fromFes EXCEPT ![f] = Tail(@)]
      /\ fesList' \in Seq(FES) /\ Len(fesList') = Len(fesList)
      /\ \A i \in 1 .. Len(fesList) :
            fesList'[i] = IF fesList[i].f = f THEN FesOf(fesList[i], m) ELSE fesList[i]
  BY WsReadsFesDoes
<1>3. /\ fromFes'[f] = Tail(fromFes[f])
      /\ \A g \in Fronts : g # f => fromFes'[g] = fromFes[g]
  BY <1>2 DEF AllTypes, FesTypes
<1>4. \A e \in FES : FesOf(e, m) \in FES /\ FesOf(e, m).f = e.f
  <2> SUFFICES ASSUME NEW e \in FES PROVE FesOf(e, m) \in FES /\ FesOf(e, m).f = e.f
    OBVIOUS
  <2>1. e.nbUser \in Nat /\ e.nbPending \in Nat
    BY DEF FES
  <2>2. Less(e.nbUser) \in Nat /\ Less(e.nbPending) \in Nat /\ e.nbUser + 1 \in Nat
    BY <2>1 DEF Less
  <2> QED BY <2>2 DEF FesOf, FES
<1>5. \A i \in 1 .. Len(fesList) : fesList'[i].f = fesList[i].f
  BY <1>2, <1>4, InList
<1>6. life[f] # "off"
  BY <1>2 DEF CountInv, Lives, Fresh
<1>7. \A g : InOf(g)' = InOf(g)
  BY <1>1 DEF InOf
<1>8. Lives'
  <2>1. Listed'
    BY <1>1, <1>2, <1>5 DEF CountInv, Lives, Listed
  <2>2. Fresh' /\ InsEntered' /\ Ended'
    BY <1>1, <1>3, <1>6 DEF CountInv, Lives, Fresh, InsEntered, Ended
  <2> QED BY <2>1, <2>2 DEF Lives
<1>9. ASSUME NEW i \in 1 .. Len(fesList'), life'[fesList'[i].f] = "up"
      PROVE  \E e, g : e = fesList'[i] /\ g = fesList'[i].f /\ BalanceOf(e, g)'
  <2>1. i \in 1 .. Len(fesList) /\ fesList[i] \in FES /\ fesList[i].f \in Fronts
    BY <1>2, InList
  <2> PICK e, g : e = fesList[i] /\ g = fesList[i].f
    OBVIOUS
  <2>2. e \in FES /\ g \in Fronts /\ BalanceOf(e, g)
    BY <1>1, <1>5, <1>9, <2>1 DEF CountInv, Balanced
  <2>3. CASE g # f
    <3>1. fesList'[i] = e /\ fesList'[i].f = g
      BY <1>2, <2>1, <2>3
    <3>2. BalanceOf(e, g)'
      BY <1>1, <1>3, <1>7, <2>2, <2>3 DEF BalanceOf
    <3> QED BY <3>1, <3>2
  <2>4. CASE g = f
    <3> PICK d : d = FesOf(e, m)
      OBVIOUS
    <3>1. fesList'[i] = d /\ fesList'[i].f = f
      BY <1>2, <1>5, <2>1, <2>4
    <3> DEFINE n == Cardinality(InOf(f))
               q == fromFes[f]
               t == toFes[f]
               p == Cardinality(pending[f]) + replaced[f]
    <3>2. n \in Nat /\ q \in Seq(FromFes) /\ t \in Seq(ToWs) /\ p \in Nat /\ q # <<>>
      BY <1>2, Amounts
    <3>3. Balance(e, q, t, p, n)
      BY <2>2, <2>4 DEF BalanceOf
    <3>4. n' = n /\ t' = t /\ p' = p /\ q' = Tail(q) /\ m = Head(q)
      BY <1>1, <1>3, <1>7
    <3>5. d \in FES
      BY <1>4, <2>2
    <3>6. \/ m \in Ins /\ d.nbUser = e.nbUser + 1 /\ d.nbPending = Less(e.nbPending)
          \/ m \in Outs /\ d.nbUser = Less(e.nbUser) /\ d.nbPending = e.nbPending
          \/ m \in Removals /\ d.nbUser = e.nbUser /\ d.nbPending = Less(e.nbPending)
          \/ m.kind = "SCS" /\ d.nbUser = e.nbUser /\ d.nbPending = e.nbPending
      <4>1. CASE m.kind = "RPC"
        <5>1. d = [e EXCEPT !.nbPending = Less(@)]
          BY <4>1 DEF FesOf
        <5>2. d.nbUser = e.nbUser /\ d.nbPending = Less(e.nbPending)
          BY <2>2, <5>1 DEF FES
        <5> QED BY <1>2, <4>1, <5>2, KindsDiffer
      <4>2. CASE m.kind = "SCS"
        BY <4>2 DEF FesOf
      <4>3. CASE m.kind = "CC" /\ m.con
        <5>1. d = [e EXCEPT !.nbUser = @ + 1, !.nbPending = Less(@)]
          BY <4>3 DEF FesOf
        <5>2. d.nbUser = e.nbUser + 1 /\ d.nbPending = Less(e.nbPending)
          BY <2>2, <5>1 DEF FES
        <5> QED BY <1>2, <4>3, <5>2, KindsDiffer
      <4>4. CASE m.kind = "CC" /\ ~m.con
        <5>1. d = [e EXCEPT !.nbUser = Less(@)]
          BY <4>4 DEF FesOf
        <5>2. d.nbUser = Less(e.nbUser) /\ d.nbPending = e.nbPending
          BY <2>2, <5>1 DEF FES
        <5> QED BY <1>2, <4>4, <5>2, KindsDiffer
      <4> QED BY <1>2, <4>1, <4>2, <4>3, <4>4, KindsDiffer
    <3> HIDE DEF n, q, t, p
    <3>7. Balance(d, Tail(q), t, p, n)
      BY <2>2, <3>2, <3>3, <3>4, <3>5, <3>6, BalanceTail
    <3>8. BalanceOf(d, f)'
      BY <3>4, <3>7 DEF BalanceOf, n, q, t, p
    <3> QED BY <3>1, <3>8
  <2> QED BY <2>3, <2>4
<1> QED BY <1>8, <1>9, BalancedNext

LEMMA FrontUpCounts ==
    ASSUME LetInInv, AllTypes, CountInv, NEW f \in Fronts, FrontUp(f)
    PROVE  CountInv'
<1> DEFINE e == [f |-> f, open |-> FALSE, nbUser |-> 0, nbPending |-> 0]
<1>1. /\ UNCHANGED <<fromFes, toFes, pending, replaced, sock, entered>>
      /\ life[f] = "off" /\ life' = [life EXCEPT ![f] = "up"]
      /\ fesList' = Append(fesList, e)
  BY DEF FrontUp, netVars, histVars
<1>2. e \in FES /\ e.f = f /\ e.nbUser = 0 /\ e.nbPending = 0
  BY DEF FES
<1> HIDE DEF e
<1>3. /\ Len(fesList') = Len(fesList) + 1 /\ Len(fesList) \in Nat
      /\ \A i \in 1 .. Len(fesList) : fesList'[i] = fesList[i]
      /\ fesList'[Len(fesList) + 1] = e
  BY <1>1, <1>2, AppendProperties DEF AllTypes, WsTypes
<1>4. life'[f] = "up" /\ \A g \in Fronts : g # f => life'[g] = life[g]
  BY <1>1 DEF AllTypes, FesTypes
<1>5. \A i \in 1 .. Len(fesList) : fesList[i].f # f /\ fesList[i].f \in Fronts
  BY <1>1, InList DEF CountInv, Lives, Listed
<1>6. \A i \in 1 .. Len(fesList') : i \in 1 .. Len(fesList) \/ i = Len(fesList) + 1
  BY <1>3
<1>7. \A g : InOf(g)' = InOf(g)
  BY <1>1 DEF InOf
<1>8. Lives'
  <2>1. \A i, j \in 1 .. Len(fesList') : fesList'[i].f = fesList'[j].f => i = j
    <3> SUFFICES ASSUME NEW i \in 1 .. Len(fesList'), NEW j \in 1 .. Len(fesList'),
                        fesList'[i].f = fesList'[j].f
                 PROVE  i = j
      OBVIOUS
    <3>1. CASE i \in 1 .. Len(fesList) /\ j \in 1 .. Len(fesList)
      BY <1>3, <3>1 DEF CountInv, Lives, Listed
    <3>2. CASE i = Len(fesList) + 1 /\ j \in 1 .. Len(fesList)
      BY <1>2, <1>3, <1>5, <3>2
    <3>3. CASE j = Len(fesList) + 1 /\ i \in 1 .. Len(fesList)
      BY <1>2, <1>3, <1>5, <3>3
    <3> QED BY <1>6, <3>1, <3>2, <3>3
  <2>2. \A i \in 1 .. Len(fesList') : life'[fesList'[i].f] # "off"
    <3> SUFFICES ASSUME NEW i \in 1 .. Len(fesList') PROVE life'[fesList'[i].f] # "off"
      OBVIOUS
    <3>1. CASE i \in 1 .. Len(fesList)
      BY <1>3, <1>4, <1>5, <3>1 DEF CountInv, Lives, Listed
    <3>2. CASE i = Len(fesList) + 1
      BY <1>2, <1>3, <1>4, <3>2
    <3> QED BY <1>6, <3>1, <3>2
  <2>3. Listed'
    BY <2>1, <2>2 DEF Listed
  <2>4. Fresh' /\ InsEntered' /\ Ended'
    BY <1>1, <1>4 DEF CountInv, Lives, Fresh, InsEntered, Ended
  <2> QED BY <2>3, <2>4 DEF Lives
<1>9. ASSUME NEW i \in 1 .. Len(fesList'), life'[fesList'[i].f] = "up"
      PROVE  \E d, g : d = fesList'[i] /\ g = fesList'[i].f /\ BalanceOf(d, g)'
  <2>1. CASE i \in 1 .. Len(fesList)
    <3> PICK d, g : d = fesList[i] /\ g = fesList[i].f
      OBVIOUS
    <3>1. fesList'[i] = d /\ fesList'[i].f = g /\ g # f /\ g \in Fronts /\ life[g] = "up"
      BY <1>3, <1>4, <1>5, <1>9, <2>1
    <3>2. BalanceOf(d, g)
      BY <2>1, <3>1 DEF CountInv, Balanced
    <3>3. BalanceOf(d, g)'
      BY <1>1, <1>7, <3>2 DEF BalanceOf
    <3> QED BY <3>1, <3>3
  <2>2. CASE i = Len(fesList) + 1
    <3>1. fesList'[i] = e /\ fesList'[i].f = f
      BY <1>2, <1>3, <2>2
    <3>2. /\ fromFes'[f] = <<>> /\ toFes'[f] = <<>> /\ pending'[f] = {} /\ replaced'[f] = 0
      BY <1>1 DEF CountInv, Lives, Fresh, Ended
    <3>3. InOf(f)' = {}
      <4>1. InOf(f) = {}
        BY <1>1 DEF InOf, CountInv, Lives, Ended
      <4> QED BY <1>7, <4>1
    <3>4. Cardinality(pending'[f]) + replaced'[f] = 0 /\ Cardinality(InOf(f)') = 0
      BY <3>2, <3>3, FS_EmptySet
    <3>5. /\ Number(<<>>, Ins) = 0 /\ Number(<<>>, Outs) = 0 /\ Number(<<>>, Removals) = 0
          /\ Number(<<>>, Chosen) = 0 /\ Len(<<>>) = 0
          /\ NumberTo(<<>>, 0, Ins) = 0 /\ NumberTo(<<>>, 0, Outs) = 0
      <4>1. Len(<<>>) = 0
        OBVIOUS
      <4> QED BY <4>1, NumberFacts DEF Number
    <3>6. Guarded(<<>>, 0)
      <4> SUFFICES ASSUME NEW k \in 0 .. 0
                   PROVE  NumberTo(<<>>, k, Outs) <= 0 + NumberTo(<<>>, k, Ins)
        BY <3>5 DEF Guarded
      <4>1. k = 0
        OBVIOUS
      <4> QED BY <3>5, <4>1
    <3>7. Balance(e, <<>>, <<>>, 0, 0)
      BY <1>2, <3>5, <3>6 DEF Balance
    <3> PICK d : d = e
      OBVIOUS
    <3>8. BalanceOf(d, f)'
      BY <3>2, <3>4, <3>7 DEF BalanceOf
    <3> QED BY <3>1, <3>8
  <2> QED BY <1>6, <2>1, <2>2
<1> QED BY <1>8, <1>9, BalancedNext

LEMMA FrontDownCounts ==
    ASSUME LetInInv, AllTypes, CountInv, NEW f \in Fronts, FrontDown(f)
    PROVE  CountInv'
<1>1. /\ UNCHANGED <<life, toFes, pending, replaced, sock, entered>>
      /\ life[f] = "dead" /\ fromFes' = [fromFes EXCEPT ![f] = <<>>]
  BY DEF FrontDown, fesVars
<1>2. PICK k \in 1 .. Len(fesList) : fesList[k].f = f /\ fesList' = RemoveAt(fesList, k)
  BY FrontDownDoes
<1> DEFINE at(i) == IF i < k THEN i ELSE i + 1
<1>3. /\ Len(fesList') = Len(fesList) - 1 /\ Len(fesList) \in Nat
      /\ \A i \in 1 .. Len(fesList') : /\ at(i) \in 1 .. Len(fesList) /\ at(i) # k
                                       /\ fesList'[i] = fesList[at(i)]
      /\ \A i, j \in 1 .. Len(fesList') : at(i) = at(j) => i = j
  <2>1. /\ Len(fesList') = Len(fesList) - 1 /\ Len(fesList) \in Nat
        /\ \A i \in 1 .. Len(fesList) - 1 :
              fesList'[i] = IF i < k THEN fesList[i] ELSE fesList[i + 1]
    BY <1>2, Removed, InList DEF AllTypes, WsTypes
  <2>2. ASSUME NEW i \in 1 .. Len(fesList')
        PROVE  /\ at(i) \in 1 .. Len(fesList) /\ at(i) # k
               /\ fesList'[i] = fesList[at(i)]
    <3>1. CASE i < k
      BY <3>1, <1>2, <2>1
    <3>2. CASE ~(i < k)
      BY <3>2, <1>2, <2>1
    <3> QED BY <3>1, <3>2
  <2>3. ASSUME NEW i \in 1 .. Len(fesList'), NEW j \in 1 .. Len(fesList'), at(i) = at(j)
        PROVE  i = j
    BY <2>1, <2>3, <1>2
  <2> QED BY <2>1, <2>2, <2>3
<1> HIDE DEF at
<1>4. \A i \in 1 .. Len(fesList') : fesList'[i].f # f /\ fesList'[i].f \in Fronts
  <2>1. \A i, j \in 1 .. Len(fesList) : fesList[i].f = fesList[j].f => i = j
    BY DEF CountInv, Lives, Listed
  <2>2. \A i \in 1 .. Len(fesList) : fesList[i].f \in Fronts
    BY InList
  <2> QED BY <2>1, <2>2, <1>2, <1>3
<1>5. \A g \in Fronts : g # f => fromFes'[g] = fromFes[g]
  BY <1>1 DEF AllTypes, FesTypes
<1>6. Lives'
  <2>1. Listed'
    <3>1. /\ \A i, j \in 1 .. Len(fesList) : fesList[i].f = fesList[j].f => i = j
          /\ \A i \in 1 .. Len(fesList) : life[fesList[i].f] # "off"
      BY DEF CountInv, Lives, Listed
    <3>2. ASSUME NEW i \in 1 .. Len(fesList'), NEW j \in 1 .. Len(fesList'),
                 fesList'[i].f = fesList'[j].f
          PROVE  i = j
      <4>1. at(i) = at(j)
        BY <3>1, <3>2, <1>3
      <4> QED BY <4>1, <1>3
    <3>3. ASSUME NEW i \in 1 .. Len(fesList')
          PROVE  life'[fesList'[i].f] # "off"
      <4>1. life[fesList[at(i)].f] # "off" /\ fesList'[i] = fesList[at(i)]
        BY <3>1, <1>3
      <4>2. fesList'[i].f \in Fronts /\ fesList'[i].f # f
        BY <1>4
      <4> QED BY <4>1, <4>2, <1>1
    <3> QED BY <3>2, <3>3 DEF Listed
  <2>2. Fresh' /\ InsEntered' /\ Ended'
    BY <1>1, <1>5 DEF CountInv, Lives, Fresh, InsEntered, Ended
  <2> QED BY <2>1, <2>2 DEF Lives
<1>7. \A g : InOf(g)' = InOf(g)
  BY <1>1 DEF InOf
<1>8. ASSUME NEW i \in 1 .. Len(fesList'), life'[fesList'[i].f] = "up"
      PROVE  \E e, g : e = fesList'[i] /\ g = fesList'[i].f /\ BalanceOf(e, g)'
  <2> PICK e, g : e = fesList'[i] /\ g = fesList'[i].f
    OBVIOUS
  <2>1. BalanceOf(e, g) /\ g \in Fronts /\ g # f
    BY <1>1, <1>3, <1>4, <1>8 DEF CountInv, Balanced
  <2>2. BalanceOf(e, g)'
    BY <1>1, <1>5, <1>7, <2>1 DEF BalanceOf
  <2> QED BY <2>2
<1> QED BY <1>6, <1>8, BalancedNext

LEMMA WsReadsLsCounts ==
    ASSUME LetInInv, AllTypes, CountInv, WsReadsLs
    PROVE  CountInv'
<1>1. UNCHANGED <<life, fromFes, pending, replaced, sock, entered>> /\ toWs # <<>>
  BY DEF WsReadsLs, fesVars, histVars
<1> PICK m : m = Head(toWs)
  OBVIOUS
<1>2. m \in ToWs
  BY <1>1, HeadTailProperties DEF LetInInv, Types
<1>3. \/ m.kind = "CS" /\ ChooseShard(m)
      \/ m.kind = "DC" /\ DisconnectClient(m)
  BY DEF WsReadsLs
<1>4. \A g : InOf(g)' = InOf(g)
  BY <1>1 DEF InOf
<1>5. CASE m.kind = "CS" /\ ChooseShard(m)
  <2>1. PICK fs \in Seq(FES) :
              /\ Alike(fs, fesList)
              /\ \/ fesList' = fs /\ UNCHANGED toFes
                 \/ \E b \in 1 .. Len(fs) :
                       /\ fesList' = [fs EXCEPT ![b].nbPending = @ + 1]
                       /\ toFes' = IF life[fs[b].f] = "up"
                                   THEN [toFes EXCEPT ![fs[b].f] = Append(@, m)] ELSE toFes
    BY <1>2, <1>5, ChooseShardDoes DEF AllTypes, WsTypes
  <2>2. /\ Len(fs) = Len(fesList) /\ Len(fs) \in Nat
        /\ \A i \in 1 .. Len(fesList) :
              /\ fs[i] \in FES /\ fs[i].f = fesList[i].f /\ fs[i].f \in Fronts
              /\ fs[i].nbUser = fesList[i].nbUser /\ fs[i].nbPending = fesList[i].nbPending
    BY <2>1, InList, LenProperties DEF Alike
  <2>3. ASSUME NEW i \in 1 .. Len(fesList), NEW e, NEW g,
               e = fs[i], g = fs[i].f, life[g] = "up"
        PROVE  BalanceOf(e, g)
    <3> PICK d : d = fesList[i]
      OBVIOUS
    <3>1. BalanceOf(d, g) /\ e.nbUser = d.nbUser /\ e.nbPending = d.nbPending
      BY <2>2, <2>3 DEF CountInv, Balanced
    <3> QED BY <3>1 DEF BalanceOf, Balance
  <2>4. CASE fesList' = fs /\ UNCHANGED toFes
    <3>1. Lives'
      BY <1>1, <2>2, <2>4 DEF CountInv, Lives, Listed, Fresh, InsEntered, Ended
    <3>2. ASSUME NEW i \in 1 .. Len(fesList'), life'[fesList'[i].f] = "up"
          PROVE  \E e, g : e = fesList'[i] /\ g = fesList'[i].f /\ BalanceOf(e, g)'
      <4> PICK e, g : e = fs[i] /\ g = fs[i].f
        OBVIOUS
      <4>1. BalanceOf(e, g)
        BY <1>1, <2>2, <2>3, <2>4, <3>2
      <4>2. BalanceOf(e, g)'
        BY <1>1, <1>4, <2>4, <4>1 DEF BalanceOf
      <4> QED BY <2>4, <4>2
    <3> QED BY <3>1, <3>2, BalancedNext
  <2>5. ASSUME NEW b \in 1 .. Len(fs),
               fesList' = [fs EXCEPT ![b].nbPending = @ + 1],
               toFes' = IF life[fs[b].f] = "up"
                        THEN [toFes EXCEPT ![fs[b].f] = Append(@, m)] ELSE toFes
        PROVE  CountInv'
    <3> DEFINE d == [fs[b] EXCEPT !.nbPending = @ + 1]
    <3> PICK h : h = fs[b].f
      OBVIOUS
    <3>1. /\ fs[b] \in FES /\ h \in Fronts
      BY <2>2
    <3>2. /\ d \in FES /\ d.f = h /\ d.nbUser = fs[b].nbUser
          /\ d.nbPending = fs[b].nbPending + 1
      BY <3>1 DEF FES
    <3>3. fesList' = [fs EXCEPT ![b] = d]
      BY <2>5
    <3> HIDE DEF d
    <3>4. /\ Len(fesList') = Len(fesList) /\ fesList'[b] = d
          /\ \A i \in 1 .. Len(fesList) : i # b => fesList'[i] = fs[i]
      BY <2>1, <2>2, <3>2, <3>3, ExceptSeq
    <3>5. /\ \A g \in Fronts : g # h => toFes'[g] = toFes[g]
          /\ life[h] # "up" => toFes' = toFes
          /\ life[h] = "up" => toFes'[h] = Append(toFes[h], m)
      BY <2>5, <3>1 DEF LetInInv, Types
    <3>6. \A i \in 1 .. Len(fesList) : fesList'[i].f = fesList[i].f
      BY <2>2, <3>2, <3>4
    <3>7. Lives'
      <4>1. Listed'
        BY <1>1, <3>4, <3>6 DEF CountInv, Lives, Listed
      <4>2. Ended'
        BY <1>1, <3>5 DEF CountInv, Lives, Ended
      <4>3. Fresh' /\ InsEntered'
        BY <1>1 DEF CountInv, Lives, Fresh, InsEntered
      <4> QED BY <4>1, <4>2, <4>3 DEF Lives
    <3>8. ASSUME NEW i \in 1 .. Len(fesList'), life'[fesList'[i].f] = "up"
          PROVE  \E e, g : e = fesList'[i] /\ g = fesList'[i].f /\ BalanceOf(e, g)'
      <4> PICK e, g : e = fs[i] /\ g = fs[i].f
        OBVIOUS
      <4>1. /\ i \in 1 .. Len(fesList) /\ e \in FES /\ g \in Fronts
            /\ life[g] = "up" /\ fesList'[i].f = g
        BY <1>1, <2>2, <3>4, <3>6, <3>8
      <4>2. BalanceOf(e, g)
        BY <2>3, <4>1
      <4>3. CASE i # b
        <5>1. g # h
          BY <2>2, <4>1, <4>3 DEF CountInv, Lives, Listed
        <5>2. BalanceOf(e, g)'
          BY <1>1, <1>4, <3>5, <4>1, <4>2, <5>1 DEF BalanceOf
        <5> QED BY <3>4, <4>1, <4>3, <5>2
      <4>4. CASE i = b
        <5> PICK x : x = d
          OBVIOUS
        <5>1. x \in FES /\ x.nbUser = e.nbUser /\ x.nbPending = e.nbPending + 1 /\ g = h
          BY <3>2, <4>4
        <5> DEFINE n == Cardinality(InOf(g))
                   q == fromFes[g]
                   t == toFes[g]
                   p == Cardinality(pending[g]) + replaced[g]
        <5>2. n \in Nat /\ q \in Seq(FromFes) /\ t \in Seq(ToWs) /\ p \in Nat
          <6>1. /\ fromFes[g] \in Seq(FromFes) /\ toFes[g] \in Seq(ToWs)
                /\ Cardinality(pending[g]) \in Nat /\ replaced[g] \in Nat
                /\ Cardinality(InOf(g)) \in Nat
            BY <4>1, Amounts
          <6> QED BY <6>1
        <5>3. Balance(e, q, t, p, n)
          BY <4>2 DEF BalanceOf
        <5>4. n' = n /\ q' = q /\ p' = p /\ t' = Append(t, m)
          BY <1>1, <1>4, <3>5, <4>1, <5>1
        <5> HIDE DEF n, q, t, p
        <5>5. Balance(x, q, Append(t, m), p, n)
          BY <1>2, <1>5, <4>1, <5>1, <5>2, <5>3, BalanceTold
        <5>6. BalanceOf(x, g)'
          BY <5>4, <5>5 DEF BalanceOf, n, q, t, p
        <5> QED BY <3>4, <4>1, <4>4, <5>6
      <4> QED BY <4>3, <4>4
    <3> QED BY <3>7, <3>8, BalancedNext
  <2> QED BY <2>1, <2>4, <2>5
<1>6. CASE m.kind = "DC" /\ DisconnectClient(m)
  <2>1. m.user \in Users /\ where[m.user] \in Fronts \cup {None}
    BY <1>2, <1>6 DEF ToWs, AllTypes, WsTypes
  <2> PICK g : g = where[m.user]
    OBVIOUS
  <2>2. fesList' = fesList
    BY <1>6 DEF DisconnectClient
  <2>3. CASE toFes' = toFes
    <3> UNCHANGED numberVars
      BY <1>1, <2>2, <2>3 DEF numberVars
    <3> QED BY NumbersUntouched
  <2>4. CASE g \in Fronts /\ life[g] = "up" /\ toFes' = [toFes EXCEPT ![g] = Append(@, m)]
    <3>1. /\ toFes'[g] = Append(toFes[g], m)
          /\ \A h \in Fronts : h # g => toFes'[h] = toFes[h]
      BY <2>4 DEF LetInInv, Types
    <3>2. Lives'
      <4>1. Ended'
        BY <1>1, <2>4, <3>1 DEF CountInv, Lives, Ended
      <4>2. Fresh' /\ InsEntered' /\ Listed'
        BY <1>1, <2>2 DEF CountInv, Lives, Fresh, InsEntered, Listed
      <4> QED BY <4>1, <4>2 DEF Lives
    <3>3. ASSUME NEW e \in FES, BalanceOf(e, g)
          PROVE  BalanceOf(e, g)'
      <4> DEFINE n == Cardinality(InOf(g))
                 q == fromFes[g]
                 t == toFes[g]
                 p == Cardinality(pending[g]) + replaced[g]
      <4>1. n \in Nat /\ q \in Seq(FromFes) /\ t \in Seq(ToWs) /\ p \in Nat
        BY <2>4, Amounts
      <4>2. Balance(e, q, t, p, n)
        BY <3>3 DEF BalanceOf
      <4>3. n' = n /\ q' = q /\ p' = p /\ t' = Append(t, m)
        BY <1>1, <1>4, <3>1
      <4> HIDE DEF n, q, t, p
      <4>4. Balance(e, q, Append(t, m), p, n)
        BY <1>2, <1>6, <4>1, <4>2, BalanceTold
      <4> QED BY <4>3, <4>4 DEF BalanceOf, n, q, t, p
    <3> QED BY <1>1, <1>4, <2>2, <2>4, <3>1, <3>2, <3>3, OneFront
  <2> QED BY <1>6, <2>1, <2>3, <2>4 DEF DisconnectClient
<1> QED BY <1>3, <1>5, <1>6

----------------------------------------------------------------------------
(* Theorems on the numbers *)

LEMMA CountsInit == Init => CountInv
<1> SUFFICES ASSUME Init PROVE CountInv
  OBVIOUS
<1>1. Len(fesList) = 0 /\ \A x \in Socks : sock[x] = Unused
  BY DEF Init
<1>2. Lives
  BY <1>1 DEF Init, Lives, Listed, InsEntered, Ended, Fresh, Unused
<1>3. Balanced
  BY <1>1 DEF Balanced
<1> QED BY <1>2, <1>3 DEF CountInv

LEMMA CountsNext ==
    LetInInv /\ AllTypes /\ CountInv /\ LetInInv' /\ [Next]_vars => CountInv'
<1> SUFFICES ASSUME LetInInv, AllTypes, CountInv, LetInInv', [Next]_vars PROVE CountInv'
  OBVIOUS
<1>1. ASSUME NEW u \in Users, Asks(u)
      PROVE  CountInv'
  <2> UNCHANGED numberVars
    BY <1>1 DEF Asks, WebCheck, LsAsk, LsKick, WebKicked, wsVars, fesVars, netVars, histVars,
                numberVars
  <2> QED BY NumbersUntouched
<1>2. CASE LsReads \/ LinkLost \/ LinkBack
  <2> UNCHANGED numberVars
    BY <1>2 DEF LsReads, LinkLost, LinkBack, wsVars, fesVars, netVars, histVars, numberVars
  <2> QED BY NumbersUntouched
<1>3. CASE WsServes
  BY <1>3, WsReadsLsCounts, WsReadsFesCounts, FrontDownCounts DEF WsServes
<1>4. ASSUME NEW f \in Fronts, FesServes(f)
      PROVE  CountInv'
  BY <1>4, FesReadsCounts, ShardValidationCounts, ClientDisconnectedCounts DEF FesServes
<1>5. CASE UNCHANGED vars
  <2> UNCHANGED numberVars
    BY <1>5 DEF vars, wsVars, fesVars, netVars, histVars, numberVars
  <2> QED BY NumbersUntouched
<1> QED BY <1>1, <1>2, <1>3, <1>4, <1>5, FrontUpCounts, RefreshCounts, FrontDiesCounts,
           ConnectCounts, ClientLeavesCounts DEF Next

(* The messages among those of a sequence are counted alike *)
LEMMA CountedAlike ==
    ASSUME LetInInv, AllTypes, NEW f \in Fronts
    PROVE  /\ OnTheWay(f, TRUE) = Number(fromFes[f], Ins)
           /\ OnTheWay(f, FALSE) = Number(fromFes[f], Outs)
           /\ Among(fromFes[f], LAMBDA m : m.kind = "RPC") = Number(fromFes[f], Removals)
           /\ Among(toFes[f], LAMBDA m : m.kind = "CS") = Number(toFes[f], Chosen)
<1>1. fromFes[f] \in Seq(FromFes) /\ toFes[f] \in Seq(ToWs)
  BY DEF AllTypes, FesTypes, LetInInv, Types
<1>2. /\ DOMAIN fromFes[f] = 1 .. Len(fromFes[f]) /\ DOMAIN toFes[f] = 1 .. Len(toFes[f])
      /\ \A i \in 1 .. Len(fromFes[f]) : fromFes[f][i] \in FromFes
      /\ \A i \in 1 .. Len(toFes[f]) : toFes[f][i] \in ToWs
  BY <1>1, LenProperties
<1>3. \A con \in BOOLEAN :
         {i \in DOMAIN fromFes[f] : fromFes[f][i].kind = "CC" /\ fromFes[f][i].con = con}
            = Of(fromFes[f], Len(fromFes[f]), IF con THEN Ins ELSE Outs)
  BY <1>2 DEF Of, Ins, Outs
<1>4. {i \in DOMAIN fromFes[f] : fromFes[f][i].kind = "RPC"}
         = Of(fromFes[f], Len(fromFes[f]), Removals)
  BY <1>2 DEF Of, Removals
<1>5. {i \in DOMAIN toFes[f] : toFes[f][i].kind = "CS"} = Of(toFes[f], Len(toFes[f]), Chosen)
  BY <1>2 DEF Of, Chosen
<1> QED BY <1>3, <1>4, <1>5 DEF OnTheWay, Among, Number, NumberTo

(* For every number of users, front ends, connections and cookies: nobody  *)
(* is reported to go who was not reported to come, and what WS counts of a *)
(* front end is what the front end has, but for the messages on their way. *)
THEOREM NumbersAgree == Spec => [](AllTypes /\ CountInv)
<1>1. Init => AllTypes /\ CountInv
  BY TypesInit, CountsInit
<1>2. LetInInv /\ LetInInv' /\ AllTypes /\ CountInv /\ [Next]_vars => (AllTypes /\ CountInv)'
  BY TypesNext, CountsNext
<1> QED BY <1>1, <1>2, CookiesAreInOnePlace, PTL DEF Spec

(* NbUser of a front end (cbFESClientConnected of the welcome service) is  *)
(* the number of the clients it has let in, the messages on their way      *)
(* counted: the guard against 0 never hides a difference.                  *)
THEOREM UsersAreCounted == Spec => []UsersCounted
<1>1. LetInInv /\ AllTypes /\ CountInv => UsersCounted
  <2> SUFFICES ASSUME LetInInv, AllTypes, CountInv, NEW i \in Served
               PROVE  LET f == fesList[i].f
                      IN fesList[i].nbUser + OnTheWay(f, TRUE)
                            = OnTheWay(f, FALSE)
                              + Cardinality({x \in Socks : sock[x].state = "in" /\ sock[x].f = f})
    BY DEF UsersCounted
  <2>1. i \in 1 .. Len(fesList) /\ life[fesList[i].f] = "up"
    BY LenProperties DEF Served, AllTypes, WsTypes
  <2>2. fesList[i].f \in Fronts /\ BalanceOf(fesList[i], fesList[i].f)
    BY <2>1, InList DEF CountInv, Balanced
  <2> QED BY <2>2, CountedAlike DEF BalanceOf, Balance, InOf
<1> QED BY <1>1, NumbersAgree, CookiesAreInOnePlace, PTL

(* NbPendingUsers of a front end (lsChooseShard) is the number of the      *)
(* cookies it has, or has replaced without telling, the messages on their  *)
(* way counted.                                                            *)
THEOREM PendingAreCounted == Spec => []PendingCounted
<1>1. LetInInv /\ AllTypes /\ CountInv => PendingCounted
  <2> SUFFICES ASSUME LetInInv, AllTypes, CountInv, NEW i \in Served
               PROVE  LET f == fesList[i].f
                      IN fesList[i].nbPending
                            = Cardinality(pending[f]) + replaced[f] + OnTheWay(f, TRUE)
                              + Among(toFes[f], LAMBDA m : m.kind = "CS")
                              + Among(fromFes[f], LAMBDA m : m.kind = "RPC")
    BY DEF PendingCounted
  <2>1. i \in 1 .. Len(fesList) /\ life[fesList[i].f] = "up"
    BY LenProperties DEF Served, AllTypes, WsTypes
  <2>2. fesList[i].f \in Fronts /\ BalanceOf(fesList[i], fesList[i].f)
    BY <2>1, InList DEF CountInv, Balanced
  <2> QED BY <2>2, CountedAlike DEF BalanceOf, Balance
<1> QED BY <1>1, NumbersAgree, CookiesAreInOnePlace, PTL

----------------------------------------------------------------------------
(* LS and WS agree on who is there *)

About(ms, u) == {i \in 1 .. Len(ms) : ms[i].kind = "CC" /\ ms[i].user = u}

Agree(u) ==
    /\ About(toLs, u) = {} => (u \in online <=> where[u] # None)
    /\ \A k \in About(toLs, u) :
          (\A i \in About(toLs, u) : i <= k) => (toLs[k].con <=> where[u] # None)

AgreeInv == ~lost => \A u \in Users \ kicked : Agree(u)

LEMMA AgreeSame ==
    ASSUME NEW u, Agree(u), UNCHANGED <<toLs, where>>, u \in online' <=> u \in online
    PROVE  Agree(u)'
BY DEF Agree, About

(* what WS sends to LS is about the user, or is not *)
LEMMA SentAbout ==
    ASSUME AllTypes, ~lost, NEW ms \in Seq(ToLs), SendLs(ms), online' = online, NEW u,
           \/ Agree(u) /\ About(ms, u) = {} /\ where'[u] = where[u]
           \/ About(ms, u) # {} /\ \A i \in About(ms, u) : (ms[i].con <=> where'[u] # None)
    PROVE  Agree(u)'
<1>1. toLs' = toLs \o ms /\ toLs \in Seq(ToLs)
  BY DEF SendLs, AllTypes, LsTypes, WsTypes
<1>2. /\ Len(toLs') = Len(toLs) + Len(ms) /\ Len(toLs) \in Nat /\ Len(ms) \in Nat
      /\ \A i \in 1 .. Len(toLs) + Len(ms) :
            toLs'[i] = IF i <= Len(toLs) THEN toLs[i] ELSE ms[i - Len(toLs)]
  BY <1>1, ConcatProperties, LenProperties
<1>3. \A i \in 1 .. Len(toLs) : i \in About(toLs, u) <=> i \in About(toLs', u)
  BY <1>2 DEF About
<1>4. \A i \in 1 .. Len(ms) : i \in About(ms, u) <=> Len(toLs) + i \in About(toLs', u)
  <2> SUFFICES ASSUME NEW i \in 1 .. Len(ms)
               PROVE  i \in About(ms, u) <=> Len(toLs) + i \in About(toLs', u)
    OBVIOUS
  <2>1. Len(toLs) + i \in 1 .. Len(toLs') /\ ~(Len(toLs) + i <= Len(toLs))
        /\ (Len(toLs) + i) - Len(toLs) = i
    BY <1>2
  <2>2. toLs'[Len(toLs) + i] = ms[i]
    BY <1>2, <2>1
  <2> QED BY <2>1, <2>2 DEF About
<1>5. \A i \in 1 .. Len(toLs') :
         i \in 1 .. Len(toLs) \/ (\E j \in 1 .. Len(ms) : i = Len(toLs) + j)
  <2> SUFFICES ASSUME NEW i \in 1 .. Len(toLs'), i \notin 1 .. Len(toLs)
               PROVE  \E j \in 1 .. Len(ms) : i = Len(toLs) + j
    OBVIOUS
  <2>1. i - Len(toLs) \in 1 .. Len(ms) /\ i = Len(toLs) + (i - Len(toLs))
    BY <1>2
  <2> QED BY <2>1
<1>6. About(toLs', u) \subseteq 1 .. Len(toLs') /\ About(toLs, u) \subseteq 1 .. Len(toLs)
      /\ About(ms, u) \subseteq 1 .. Len(ms)
  BY DEF About
<1>7. CASE Agree(u) /\ About(ms, u) = {} /\ where'[u] = where[u]
  <2>1. About(toLs', u) = About(toLs, u)
    BY <1>3, <1>4, <1>5, <1>6, <1>7
  <2>2. \A k \in About(toLs, u) : toLs'[k] = toLs[k]
    BY <1>2, <1>6
  <2> QED BY <1>7, <2>1, <2>2 DEF Agree
<1>8. CASE About(ms, u) # {} /\ \A i \in About(ms, u) : (ms[i].con <=> where'[u] # None)
  <2>1. PICK j \in About(ms, u) : TRUE
    BY <1>8
  <2>2. j \in 1 .. Len(ms) /\ Len(toLs) + j \in About(toLs', u)
    BY <1>4, <1>6
  <2>3. ASSUME NEW k \in About(toLs', u), \A i \in About(toLs', u) : i <= k
        PROVE  toLs'[k].con <=> where'[u] # None
    <3>1. Len(toLs) + j <= k
      BY <2>2, <2>3
    <3>2. k \in 1 .. Len(toLs') /\ k \notin 1 .. Len(toLs)
      BY <1>2, <1>6, <2>2, <3>1
    <3>3. PICK i \in 1 .. Len(ms) : k = Len(toLs) + i
      BY <1>5, <3>2
    <3>4. i \in About(ms, u)
      BY <1>4, <2>3, <3>3
    <3>5. toLs'[k] = ms[i]
      <4>1. ~(k <= Len(toLs)) /\ k - Len(toLs) = i /\ k \in 1 .. Len(toLs) + Len(ms)
        BY <1>2, <3>2, <3>3
      <4> QED BY <1>2, <4>1
    <3> QED BY <1>8, <3>4, <3>5
  <2> QED BY <2>2, <2>3 DEF Agree
<1> QED BY <1>7, <1>8

LEMMA OneAbout ==
    ASSUME NEW m \in ToLs, NEW u
    PROVE  /\ <<m>> \in Seq(ToLs)
           /\ m.kind # "CC" \/ m.user # u => About(<<m>>, u) = {}
           /\ m.kind = "CC" /\ m.user = u => About(<<m>>, u) = {1} /\ <<m>>[1] = m
<1>1. <<m>> \in Seq(ToLs) /\ Len(<<m>>) = 1 /\ <<m>>[1] = m
  OBVIOUS
<1> QED BY <1>1 DEF About

LEMMA LsReadsAgree ==
    ASSUME AllTypes, LsReads, NEW u \in Users, Agree(u)
    PROVE  Agree(u)'
<1>1. /\ toLs \in Seq(ToLs) /\ toLs # <<>> /\ toLs' = Tail(toLs) /\ where' = where
  BY DEF LsReads, wsVars, AllTypes, WsTypes
<1> PICK m : m = Head(toLs)
  OBVIOUS
<1>2. /\ m \in ToLs /\ m = toLs[1] /\ Len(toLs) \in Nat \ {0} /\ Len(toLs') = Len(toLs) - 1
      /\ \A i \in 1 .. Len(toLs') : toLs'[i] = toLs[i + 1]
  BY <1>1, HeadTailProperties, EmptySeq, LenProperties
<1>3. \A i \in 1 .. Len(toLs') : i \in About(toLs', u) <=> i + 1 \in About(toLs, u)
  BY <1>2 DEF About
<1>4. 1 \in About(toLs, u) <=> m.kind = "CC" /\ m.user = u
  BY <1>2 DEF About
<1>5. \A k \in About(toLs, u) : k = 1 \/ (\E i \in About(toLs', u) : k = i + 1)
  <2> SUFFICES ASSUME NEW k \in About(toLs, u), k # 1
               PROVE  \E i \in About(toLs', u) : k = i + 1
    OBVIOUS
  <2>1. k - 1 \in 1 .. Len(toLs') /\ k = (k - 1) + 1
    BY <1>2 DEF About
  <2>2. k - 1 \in About(toLs', u)
    BY <1>3, <2>1
  <2> QED BY <2>1, <2>2
<1>6. m.kind = "CC" /\ m.user = u => (u \in online' <=> m.con)
  <2> SUFFICES ASSUME m.kind = "CC", m.user = u PROVE u \in online' <=> m.con
    OBVIOUS
  <2>1. ClientConnected(m) /\ m.con \in BOOLEAN
    BY <1>2 DEF LsReads, ToLs
  <2> DEFINE there == u \in online
  <2>2. CASE m.con = (u \in online)
    <3>1. online' = online
      BY <2>1, <2>2, Zenon DEF ClientConnected
    <3> QED BY <2>2, <3>1, Zenon
  <2>3. CASE m.con # (u \in online)
    <3>1. IF m.con THEN online' = online \cup {u} ELSE online' = online \ {u}
      BY <2>1, <2>3, Zenon DEF ClientConnected
    <3> QED BY <3>1
  <2> QED BY <2>2, <2>3
<1>7. ~(m.kind = "CC" /\ m.user = u) => (u \in online' <=> u \in online)
  <2>1. CASE m.kind = "CC" /\ m.user # u
    <3>1. ClientConnected(m)
      BY <2>1 DEF LsReads
    <3>2. \/ online' = online \/ online' = online \cup {m.user} \/ online' = online \ {m.user}
      BY <3>1, Zenon DEF ClientConnected
    <3> QED BY <2>1, <3>2
  <2>2. CASE m.kind # "CC"
    <3>1. ShardChosen(m)
      BY <2>2 DEF LsReads
    <3> QED BY <3>1 DEF ShardChosen
  <2> QED BY <2>1, <2>2
<1>8. About(toLs, u) \subseteq 1 .. Len(toLs) /\ About(toLs', u) \subseteq 1 .. Len(toLs')
  BY DEF About
<1>9. ASSUME About(toLs', u) = {}
      PROVE  u \in online' <=> where[u] # None
  <2>1. CASE m.kind = "CC" /\ m.user = u
    <3>1. 1 \in About(toLs, u) /\ \A i \in About(toLs, u) : i <= 1
      BY <1>4, <1>5, <1>9, <2>1
    <3> QED BY <1>2, <1>6, <2>1, <3>1 DEF Agree
  <2>2. CASE ~(m.kind = "CC" /\ m.user = u)
    <3>1. About(toLs, u) = {}
      BY <1>4, <1>5, <1>9, <2>2
    <3> QED BY <1>7, <2>2, <3>1 DEF Agree
  <2> QED BY <2>1, <2>2
<1>10. ASSUME NEW k \in About(toLs', u), \A i \in About(toLs', u) : i <= k
       PROVE  toLs'[k].con <=> where[u] # None
  <2>1. k \in 1 .. Len(toLs') /\ k + 1 \in About(toLs, u)
    BY <1>3, <1>8
  <2>2. ASSUME NEW i \in About(toLs, u)
        PROVE  i <= k + 1
    <3>1. CASE i = 1
      BY <1>2, <2>1, <3>1
    <3>2. CASE \E j \in About(toLs', u) : i = j + 1
      BY <1>2, <1>8, <1>10, <2>1, <3>2
    <3> QED BY <1>5, <3>1, <3>2
  <2>3. toLs[k + 1].con <=> where[u] # None
    BY <2>1, <2>2 DEF Agree
  <2> QED BY <1>2, <2>1, <2>3
<1> QED BY <1>1, <1>9, <1>10 DEF Agree

LEMMA WsReadsFesAgree ==
    ASSUME AllTypes, ~lost, NEW f \in Fronts, WsReadsFes(f), NEW u \in Users,
           u \in kicked \/ Agree(u), u \notin kicked'
    PROVE  Agree(u)'
<1> PICK m : m = Head(fromFes[f])
  OBVIOUS
<1>1. m \in FromFes /\ online' = online
  BY WsReadsFesDoes DEF WsReadsFes, lsVars
<1>2. \/ m.kind = "SCS" /\ FESShardChooseShard(m)
      \/ m.kind = "CC" /\ FESClientConnected(f, m)
      \/ m.kind = "RPC" /\ FESRemovedPendingCookie(f)
  BY DEF WsReadsFes
<1>3. CASE m.kind = "SCS" /\ FESShardChooseShard(m)
  <2>1. m \in ToLs
    BY <1>1, <1>3 DEF FromFes
  <2>2. SendLs(<<m>>) /\ where' = where /\ kicked' = kicked
    BY <1>3 DEF FESShardChooseShard
  <2>3. <<m>> \in Seq(ToLs) /\ About(<<m>>, u) = {}
    BY <1>3, <2>1, OneAbout
  <2> QED BY <1>1, <2>2, <2>3, SentAbout
<1>4. CASE m.kind = "RPC" /\ FESRemovedPendingCookie(f)
  <2>1. UNCHANGED <<toLs, where, kicked>>
    BY <1>4 DEF FESRemovedPendingCookie
  <2> QED BY <1>1, <2>1, AgreeSame
<1>5. CASE m.kind = "CC" /\ FESClientConnected(f, m)
  <2>1. m \in ToLs /\ m.user \in Users /\ m.con \in BOOLEAN
    BY <1>1, <1>5 DEF FromFes, ToLs
  <2>2. /\ SendLs(<<m>>)
        /\ where' = [where EXCEPT ![m.user] = IF ~m.con THEN None
                                              ELSE IF @ = None THEN f ELSE @]
        /\ kicked' = IF m.con THEN kicked ELSE kicked \ {m.user}
    BY <1>5 DEF FESClientConnected
  <2>3. CASE m.user # u
    <3>1. where'[u] = where[u] /\ u \notin kicked
      BY <2>1, <2>2, <2>3 DEF AllTypes, WsTypes
    <3>2. <<m>> \in Seq(ToLs) /\ About(<<m>>, u) = {}
      BY <2>1, <2>3, OneAbout
    <3> QED BY <1>1, <2>2, <3>1, <3>2, SentAbout
  <2>4. CASE m.user = u
    <3>1. f # None
      BY ConstantsAssumption
    <3>2. m.con <=> where'[u] # None
      BY <2>1, <2>2, <2>4, <3>1 DEF AllTypes, WsTypes
    <3>3. <<m>> \in Seq(ToLs) /\ About(<<m>>, u) = {1} /\ <<m>>[1] = m
      BY <1>5, <2>1, <2>4, OneAbout
    <3>4. About(<<m>>, u) # {}
      BY <3>3
    <3>5. \A i \in About(<<m>>, u) : (<<m>>[i].con <=> where'[u] # None)
      <4> SUFFICES ASSUME NEW i \in About(<<m>>, u)
                   PROVE  <<m>>[i].con <=> where'[u] # None
        OBVIOUS
      <4>1. <<m>>[i] = m
        BY <3>3
      <4> QED BY <3>2, <4>1
    <3> QED BY <1>1, <2>2, <3>3, <3>4, <3>5, SentAbout
  <2> QED BY <2>3, <2>4
<1> QED BY <1>2, <1>3, <1>4, <1>5

LEMMA GoodbyesAbout ==
    ASSUME NEW gone, NEW ms, NEW u,
           \A i \in 1 .. Len(ms) : \E v \in gone : ms[i] = Connected(v, FALSE),
           \A v \in gone : \E i \in 1 .. Len(ms) : ms[i] = Connected(v, FALSE)
    PROVE  /\ u \notin gone => About(ms, u) = {}
           /\ u \in gone => About(ms, u) # {} /\ \A i \in About(ms, u) : ~ms[i].con
<1>0. \A v : /\ Connected(v, FALSE).kind = "CC" /\ Connected(v, FALSE).user = v
             /\ ~Connected(v, FALSE).con
  BY DEF Connected
<1>1. \A i \in 1 .. Len(ms) : ms[i].kind = "CC" /\ ms[i].user \in gone /\ ~ms[i].con
  <2> SUFFICES ASSUME NEW i \in 1 .. Len(ms)
               PROVE  ms[i].kind = "CC" /\ ms[i].user \in gone /\ ~ms[i].con
    OBVIOUS
  <2> PICK v \in gone : ms[i] = Connected(v, FALSE)
    OBVIOUS
  <2> QED BY <1>0
<1>2. \A v \in gone : \E i \in 1 .. Len(ms) : ms[i].kind = "CC" /\ ms[i].user = v
  <2> SUFFICES ASSUME NEW v \in gone
               PROVE  \E i \in 1 .. Len(ms) : ms[i].kind = "CC" /\ ms[i].user = v
    OBVIOUS
  <2> PICK i \in 1 .. Len(ms) : ms[i] = Connected(v, FALSE)
    OBVIOUS
  <2>1. ms[i].kind = "CC" /\ ms[i].user = v
    BY <1>0
  <2> QED BY <2>1
<1> QED BY <1>1, <1>2 DEF About

LEMMA FrontDownAgree ==
    ASSUME AllTypes, ~lost, NEW f \in Fronts, FrontDown(f), NEW u \in Users,
           u \in kicked \/ Agree(u), u \notin kicked'
    PROVE  Agree(u)'
<1> DEFINE gone == {v \in Users : where[v] = f}
           ms == SetToSeq({Connected(v, FALSE) : v \in gone})
<1>1. /\ online' = online /\ SendLs(ms)
      /\ where' = [v \in Users |-> IF v \in gone THEN None ELSE where[v]]
      /\ kicked' = kicked \ gone
  BY DEF FrontDown, lsVars
<1>2. /\ ms \in Seq(ToLs)
      /\ \A i \in 1 .. Len(ms) : \E v \in gone : ms[i] = Connected(v, FALSE)
      /\ \A v \in gone : \E i \in 1 .. Len(ms) : ms[i] = Connected(v, FALSE)
  <2>1. gone \in SUBSET Users
    OBVIOUS
  <2> HIDE DEF gone
  <2> QED BY <2>1, Goodbyes, Zenon
<1> HIDE DEF gone, ms
<1>3. /\ u \notin gone => About(ms, u) = {}
      /\ u \in gone => About(ms, u) # {} /\ \A i \in About(ms, u) : ~ms[i].con
  BY <1>2, GoodbyesAbout, Zenon
<1>4. CASE u \in gone
  <2>1. where'[u] = None
    BY <1>1, <1>4
  <2> QED BY <1>1, <1>2, <1>3, <1>4, <2>1, SentAbout
<1>5. CASE u \notin gone
  <2>1. where'[u] = where[u] /\ Agree(u)
    BY <1>1, <1>5
  <2> QED BY <1>1, <1>2, <1>3, <1>5, <2>1, SentAbout
<1> QED BY <1>4, <1>5

LEMMA WsReadsLsAgree ==
    ASSUME LetInInv, AllTypes, ~lost, WsReadsLs, NEW u \in Users, Agree(u)
    PROVE  Agree(u)'
<1> PICK m : m = Head(toWs)
  OBVIOUS
<1>1. online' = online /\ where' = where /\ toWs # <<>>
  BY DEF WsReadsLs, lsVars
<1>2. m \in ToWs
  BY <1>1, HeadTailProperties DEF LetInInv, Types
<1>3. \/ m.kind = "CS" /\ ChooseShard(m)
      \/ m.kind = "DC" /\ DisconnectClient(m)
  BY DEF WsReadsLs
<1>4. CASE m.kind = "CS" /\ ChooseShard(m)
  <2> PICK r : r = Refusal(m.cookie)
    OBVIOUS
  <2>1. toLs' = toLs \/ SendLs(<<r>>)
    BY <1>2, <1>4, ChooseShardDoes DEF AllTypes, WsTypes
  <2>2. r \in ToLs /\ r.kind = "SCS"
    <3>1. m.cookie \in Cookies
      BY <1>2, <1>4 DEF ToWs
    <3> QED BY <3>1 DEF Refusal, ToLs
  <2>3. CASE toLs' = toLs
    BY <1>1, <2>3, AgreeSame
  <2>4. CASE SendLs(<<r>>)
    <3>1. <<r>> \in Seq(ToLs) /\ About(<<r>>, u) = {}
      BY <2>2, OneAbout
    <3> QED BY <1>1, <2>4, <3>1, SentAbout
  <2> QED BY <2>1, <2>3, <2>4
<1>5. CASE m.kind = "DC" /\ DisconnectClient(m)
  <2> toLs' = toLs
    BY <1>5 DEF DisconnectClient
  <2> QED BY <1>1, AgreeSame
<1> QED BY <1>3, <1>4, <1>5

LEMMA WebKickedAgree ==
    ASSUME AllTypes, NEW v \in Users, WebKicked(v), NEW u \in Users, Agree(u), u \notin kicked'
    PROVE  Agree(u)'
<1>1. /\ UNCHANGED <<toLs, where>> /\ online' = online \ {v}
      /\ kicked' = IF where[v] = None THEN kicked ELSE kicked \cup {v}
  BY DEF WebKicked, wsVars, netVars
<1>2. CASE u # v
  BY <1>1, <1>2, AgreeSame
<1>3. CASE u = v
  <2>1. where[u] = None /\ u \notin online'
    BY <1>1, <1>3
  <2> QED BY <1>1, <2>1 DEF Agree, About
<1> QED BY <1>2, <1>3

LEMMA AgreeInit == Init => AgreeInv
<1> SUFFICES ASSUME Init, NEW u \in Users PROVE Agree(u)
  BY DEF AgreeInv
<1>1. About(toLs, u) = {}
  BY DEF Init, About
<1>2. u \notin online /\ where[u] = None
  BY DEF Init
<1> QED BY <1>1, <1>2 DEF Agree

LEMMA AgreeNext == LetInInv /\ AllTypes /\ AgreeInv /\ [Next]_vars => AgreeInv'
<1> SUFFICES ASSUME LetInInv, AllTypes, AgreeInv, [Next]_vars, ~lost', NEW u \in Users,
                    u \notin kicked'
             PROVE  Agree(u)'
  BY DEF AgreeInv
<1>1. lost' = lost \/ LinkLost
  BY DEF Next, Asks, WebCheck, LsAsk, LsKick, WebKicked, LsReads, LinkBack, WsServes, WsReadsLs,
         WsReadsFes, FrontDown, FrontUp, FesServes, FesReads, ShardValidation,
         ClientDisconnected, RefreshPendingList, FrontDies, ConnectToShard, ClientLeaves,
         histVars, vars
<1>2. ~lost /\ (u \in kicked \/ Agree(u))
  BY <1>1 DEF LinkLost, AgreeInv
<1>3. CASE UNCHANGED <<toLs, where, online, kicked>>
  BY <1>2, <1>3, AgreeSame
<1>4. ASSUME NEW v \in Users, Asks(v)
      PROVE  Agree(u)'
  <2>1. CASE WebKicked(v)
    <3>1. u \notin kicked
      BY <2>1 DEF WebKicked
    <3> QED BY <1>2, <2>1, <3>1, WebKickedAgree
  <2>2. CASE WebCheck(v) \/ LsAsk(v) \/ LsKick(v)
    BY <1>3, <2>2 DEF WebCheck, LsAsk, LsKick, wsVars, netVars, histVars
  <2> QED BY <1>4, <2>1, <2>2 DEF Asks
<1>5. CASE LsReads
  <2> u \notin kicked
    BY <1>5 DEF LsReads, histVars
  <2> QED BY <1>2, <1>5, LsReadsAgree
<1>6. CASE LinkLost
  BY <1>6 DEF LinkLost
<1>7. CASE LinkBack
  BY <1>2, <1>7 DEF LinkBack, AllTypes, LsTypes
<1>8. CASE WsServes
  <2>1. CASE WsReadsLs
    <3> u \notin kicked
      BY <2>1 DEF WsReadsLs, histVars
    <3> QED BY <1>2, <2>1, WsReadsLsAgree
  <2> QED BY <1>2, <1>8, <2>1, WsReadsFesAgree, FrontDownAgree DEF WsServes
<1>9. ASSUME NEW f \in Fronts,
             \/ FrontUp(f) \/ FesServes(f) \/ RefreshPendingList(f) \/ FrontDies(f)
             \/ \E x \in Socks, c \in Cookies : ConnectToShard(x, c, f)
      PROVE  Agree(u)'
  <2> UNCHANGED <<toLs, where, online, kicked>>
    BY <1>9 DEF FrontUp, FesServes, FesReads, ShardValidation, ClientDisconnected,
                RefreshPendingList, FrontDies, ConnectToShard, lsVars, wsVars, netVars, histVars
  <2> QED BY <1>3
<1>10. ASSUME NEW x \in Socks, ClientLeaves(x)
       PROVE  Agree(u)'
  <2> UNCHANGED <<toLs, where, online, kicked>>
    BY <1>10 DEF ClientLeaves, lsVars, wsVars, netVars, histVars
  <2> QED BY <1>3
<1>11. CASE UNCHANGED vars
  BY <1>3, <1>11 DEF vars, lsVars, wsVars, netVars, histVars
<1> QED BY <1>4, <1>5, <1>6, <1>7, <1>8, <1>9, <1>10, <1>11 DEF Next

LEMMA TypeCorrect == LetInInv /\ AllTypes => TypeOK
<1> SUFFICES ASSUME LetInInv, AllTypes PROVE TypeOK
  OBVIOUS
<1>1. nbPlayers \in Nat
  <2>1. IsFiniteSet(online)
    BY ConstantsAssumption, FS_Subset DEF AllTypes, LsTypes
  <2>2. Cardinality(online) \in Nat
    BY <2>1, FS_CardinalityType
  <2> QED BY <2>2 DEF AllTypes, LsTypes
<1> QED BY <1>1 DEF LetInInv, Types, AllTypes, LsTypes, WsTypes, FesTypes, TypeOK

(* The inductive invariant of who is Online: unless the connection with LS *)
(* has been lost, the last CC on its way to LS about a user, or LS when    *)
(* there is none, says of him what WS has in UserIdSockAssociations.       *)
THEOREM LsAndWsAgree == Spec => []AgreeInv
<1>1. LetInInv /\ AllTypes /\ CountInv /\ AgreeInv /\ [Next]_vars => AgreeInv'
  BY AgreeNext
<1> QED BY <1>1, AgreeInit, NumbersAgree, CookiesAreInOnePlace, PTL DEF Spec

(* For every number of users and front ends: the variables have their      *)
(* types, NbPlayers of LS is the number of users Online and of those the   *)
(* web has set Offline (cbWSClientConnected), and LS and WS agree on who   *)
(* is there, also when front ends end with users in them.                  *)
THEOREM OnlineTracked == Spec => []OnlineIsTracked
<1>1. LetInInv /\ AllTypes /\ AgreeInv => OnlineIsTracked
  <2> SUFFICES ASSUME LetInInv, AllTypes, AgreeInv PROVE OnlineIsTracked
    OBVIOUS
  <2>1. TypeOK
    BY TypeCorrect
  <2>2. nbPlayers = Cardinality(online) + forgotten
    BY DEF AllTypes, LsTypes
  <2>3. ASSUME ~lost, NEW u \in Users \ kicked
        PROVE  u \in OnlineAfter <=> where[u] # None
    <3> DEFINE about == {i \in DOMAIN toLs : toLs[i].kind = "CC" /\ toLs[i].user = u}
    <3>1. DOMAIN toLs = 1 .. Len(toLs) /\ Len(toLs) \in Nat
      BY LenProperties DEF AllTypes, WsTypes
    <3>2. about = About(toLs, u)
      BY <3>1 DEF About
    <3>3. u \in OnlineAfter <=> IF about = {} THEN u \in online ELSE toLs[Max(about)].con
      BY DEF OnlineAfter
    <3>4. Agree(u)
      BY <2>3 DEF AgreeInv
    <3>5. CASE about = {}
      BY <3>2, <3>3, <3>4, <3>5 DEF Agree
    <3>6. CASE about # {}
      <4>1. about \in SUBSET Nat /\ \A i \in about : i <= Len(toLs)
        BY <3>1
      <4> HIDE DEF about
      <4>2. Max(about) \in about /\ \A i \in about : i <= Max(about)
        BY <3>1, <3>6, <4>1, MaxIn
      <4>3. toLs[Max(about)].con <=> where[u] # None
        BY <3>2, <3>4, <4>2 DEF Agree
      <4> QED BY <3>3, <3>6, <4>3
    <3> QED BY <3>5, <3>6
  <2> QED BY <2>1, <2>2, <2>3 DEF OnlineIsTracked
<1> QED BY <1>1, LsAndWsAgree, NumbersAgree, CookiesAreInOnePlace, PTL
=============================================================================
