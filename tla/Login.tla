------------------------------- MODULE Login -------------------------------
(***************************************************************************)
(* The login system of one shard: the web pages, the login service (LS)    *)
(* with its data base, the welcome service (WS) and its front ends (FES).  *)
(* A user asks the web for a cookie; LS and WS pass it to the front end    *)
(* with the least users; the user's client connects there and shows it     *)
(* (SV).  Front ends report who comes and goes (CC) through WS to LS.      *)
(*                                                                         *)
(* Messages between two services come in order; a front end that ends is   *)
(* reported by the naming service, in any order with what it has sent.     *)
(* Front ends are on TCP; their application is the one of snowballs        *)
(* (clientDisconnected is called for the clients that were let in).        *)
(***************************************************************************)
EXTENDS Naturals, Sequences, FiniteSetsExt, SequencesExt

CONSTANTS Users,
          Fronts,      \* runs of front ends
          Socks,       \* connections that clients make, each once
          None,        \* no front end, no connection
          Threshold,   \* OpenFrontEndThreshold
          PlayerLimit, \* PlayerLimit
          MaxCookies,  \* bound: cookies generated
          MaxFaults    \* bound: ends of front ends, losses of the LS connection

ASSUME ConstantsAssumption ==
    /\ IsFiniteSet(Users) /\ None \notin Fronts \cup Socks
    /\ Threshold \in Nat /\ PlayerLimit \in Nat
    /\ MaxCookies \in Nat /\ MaxFaults \in Nat

VARIABLES web,         \* where the request of each user to the web is
          online,      \* the users whose State in the data base is Online
          shard,       \* Shards has the shard; its WS is connected
          nbPlayers,   \* its NbPlayers
          cookies,     \* cookies generated
          granted,     \* <<cookie, f>>: cookies clients have, to be used at f
          fesList,     \* FESList of the welcome service
          where,       \* its UserIdSockAssociations
          life,        \* of each front end
          pending,     \* its PendingUsers
          sockOf,      \* its UserIdSockAssociations
          sock,        \* the connections of clients
          toWs, toLs,  \* messages between LS and WS
          toFes, fromFes \* and between WS and each front end

VARIABLES entered,     \* history: connections that were let in
          replaced,    \* history: cookies replaced by another, of each front end
          forgotten,   \* history: users the web has set Offline and LS counts
          kicked,      \* history: the same ones, until WS knows
          disturbed,   \* history: users kicked, or reported in twice in a row
          lost,        \* history: the connection with LS has been lost
          faults

lsVars == <<web, online, shard, nbPlayers, cookies, granted>>
wsVars == <<fesList, where>>
fesVars == <<life, pending, sockOf>>
netVars == <<toWs, toLs, toFes, fromFes>>
histVars == <<entered, replaced, forgotten, kicked, disturbed, lost, faults>>
vars == <<lsVars, wsVars, fesVars, sock, netVars, histVars>>

(* CLoginCookie: the key tells all cookies apart *)
Cookies == [user : Users, key : 1 .. MaxCookies]

(* CFES *)
FES == [f : Fronts, open : BOOLEAN, nbUser : Nat, nbPending : Nat]

ToLs == [kind : {"CC"}, user : Users, con : BOOLEAN]
        \cup [kind : {"SCS"}, cookie : Cookies, f : Fronts \cup {None}]
ToWs == [kind : {"CS"}, cookie : Cookies] \cup [kind : {"DC"}, user : Users]
FromFes == ToLs \cup [kind : {"RPC"}, cookie : Cookies]

(* a connection that is closed still has an event for the front end *)
Unused == [state |-> "unused"]
Connections == [state : {"connected", "in", "refused", "gone"}, closed : BOOLEAN,
                f : Fronts, cookie : Cookies]

TypeOK ==
    /\ web \in [Users -> {"idle", "checked", "kicking", "kicked"}]
    /\ online \subseteq Users
    /\ shard \in BOOLEAN
    /\ nbPlayers \in Nat
    /\ cookies \in 0 .. MaxCookies
    /\ granted \subseteq Cookies \X Fronts
    /\ fesList \in Seq(FES)
    /\ where \in [Users -> Fronts \cup {None}]
    /\ life \in [Fronts -> {"off", "up", "dead"}]
    /\ pending \in [Fronts -> SUBSET Cookies]
    /\ sockOf \in [Fronts -> [Users -> Socks \cup {None}]]
    /\ sock \in [Socks -> Connections \cup {Unused}]
    /\ toWs \in Seq(ToWs) /\ toLs \in Seq(ToLs)
    /\ toFes \in [Fronts -> Seq(ToWs)]
    /\ fromFes \in [Fronts -> Seq(FromFes)]
    /\ entered \subseteq Socks
    /\ replaced \in [Fronts -> Nat]
    /\ forgotten \in Nat
    /\ kicked \subseteq Users /\ disturbed \subseteq Users
    /\ lost \in BOOLEAN
    /\ faults \in 0 .. MaxFaults

Init ==
    /\ web = [u \in Users |-> "idle"]
    /\ online = {} /\ shard = TRUE /\ nbPlayers = 0
    /\ cookies = 0 /\ granted = {}
    /\ fesList = <<>>
    /\ where = [u \in Users |-> None]
    /\ life = [f \in Fronts |-> "off"]
    /\ pending = [f \in Fronts |-> {}]
    /\ sockOf = [f \in Fronts |-> [u \in Users |-> None]]
    /\ sock = [x \in Socks |-> Unused]
    /\ toWs = <<>> /\ toLs = <<>>
    /\ toFes = [f \in Fronts |-> <<>>]
    /\ fromFes = [f \in Fronts |-> <<>>]
    /\ entered = {} /\ replaced = [f \in Fronts |-> 0]
    /\ forgotten = 0 /\ kicked = {} /\ disturbed = {} /\ lost = FALSE
    /\ faults = 0

----------------------------------------------------------------------------
(* Definitions named Slip_... are variants of the definition that follows  *)
(* them, with a mistake a change of the code could make.  No action uses   *)
(* them: they show that the properties would notice.                       *)

(* Messages: those for a service that is not connected are dropped *)

SendWs(m) == toWs' = Append(toWs, m)
SendLs(ms) == toLs' = IF shard THEN toLs \o ms ELSE toLs

Connected(user, con) == [kind |-> "CC", user |-> user, con |-> con]

----------------------------------------------------------------------------
(* The web pages and the login service *)

(* checkUserValidity *)
WebCheck(u) ==
    /\ web[u] = "idle"
    /\ cookies < MaxCookies
    /\ web' = [web EXCEPT ![u] = IF u \in online THEN "kicking" ELSE "checked"]
    /\ UNCHANGED <<online, shard, nbPlayers, cookies, granted, wsVars, fesVars, sock,
                   netVars, histVars>>

(* cbAskClientConnection *)
LsAsk(u) ==
    /\ web[u] = "checked"
    /\ web' = [web EXCEPT ![u] = "idle"]
    /\ IF shard /\ cookies < MaxCookies
       THEN /\ cookies' = cookies + 1
            /\ SendWs([kind |-> "CS", cookie |-> [user |-> u, key |-> cookies + 1]])
       ELSE UNCHANGED <<cookies, toWs>>
    /\ UNCHANGED <<online, shard, nbPlayers, granted, wsVars, fesVars, sock, toLs,
                   toFes, fromFes, histVars>>

(* cbDisconnectClient of the login service *)
LsKick(u) ==
    /\ web[u] = "kicking"
    /\ web' = [web EXCEPT ![u] = IF shard THEN "kicked" ELSE "idle"]
    /\ IF shard THEN SendWs([kind |-> "DC", user |-> u]) ELSE UNCHANGED toWs
    /\ UNCHANGED <<online, shard, nbPlayers, cookies, granted, wsVars, fesVars, sock,
                   toLs, toFes, fromFes, histVars>>

(* the rest of checkUserValidity: the page sets the user Offline, and the  *)
(* login service does not know                                             *)
WebKicked(u) ==
    /\ web[u] = "kicked"
    /\ web' = [web EXCEPT ![u] = "idle"]
    /\ online' = online \ {u}
    /\ forgotten' = forgotten + IF u \in online THEN 1 ELSE 0
    /\ kicked' = IF where[u] = None THEN kicked ELSE kicked \cup {u}
    /\ disturbed' = disturbed \cup {u}
    /\ UNCHANGED <<shard, nbPlayers, cookies, granted, wsVars, fesVars, sock, netVars,
                   entered, replaced, lost, faults>>

(* slip: the state of the user is not looked at *)
Slip_ClientConnected(m) ==
    /\ online' = IF m.con THEN online \cup {m.user} ELSE online \ {m.user}
    /\ nbPlayers' = IF m.con THEN nbPlayers + 1 ELSE nbPlayers - 1
    /\ UNCHANGED granted

(* cbWSClientConnected *)
ClientConnected(m) ==
    /\ IF m.con = (m.user \in online) THEN UNCHANGED <<online, nbPlayers>>
       ELSE IF m.con
       THEN online' = online \cup {m.user} /\ nbPlayers' = nbPlayers + 1
       ELSE online' = online \ {m.user} /\ nbPlayers' = nbPlayers - 1
    /\ UNCHANGED granted

(* cbWSShardChooseShard: the web gives the cookie and the address *)
ShardChosen(m) ==
    /\ granted' = IF m.f = None THEN granted ELSE granted \cup {<<m.cookie, m.f>>}
    /\ UNCHANGED <<online, nbPlayers>>

LsReads ==
    /\ toLs # <<>>
    /\ \/ Head(toLs).kind = "CC" /\ ClientConnected(Head(toLs))
       \/ Head(toLs).kind = "SCS" /\ ShardChosen(Head(toLs))
    /\ toLs' = Tail(toLs)
    /\ UNCHANGED <<web, shard, cookies, wsVars, fesVars, sock, toWs, toFes, fromFes,
                   histVars>>

Fault == faults < MaxFaults /\ faults' = faults + 1

(* cbWSDisconnection: what was on the way is lost *)
LinkLost ==
    /\ shard /\ Fault
    /\ shard' = FALSE
    /\ online' = {} /\ nbPlayers' = 0
    /\ forgotten' = 0 /\ lost' = TRUE
    /\ toWs' = <<>> /\ toLs' = <<>>
    /\ UNCHANGED <<web, cookies, granted, wsVars, fesVars, sock, toFes, fromFes, entered,
                   replaced, kicked, disturbed>>

(* cbWSIdentification *)
LinkBack ==
    /\ ~shard /\ shard' = TRUE
    /\ UNCHANGED <<web, online, nbPlayers, cookies, granted, wsVars, fesVars, sock, netVars,
                   histVars>>

----------------------------------------------------------------------------
(* The welcome service *)

(* getUsersCountHeuristic *)
Load(e) == e.nbUser + e.nbPending

(* findBestFES: the first of the least loaded, of those that accept, or 0 *)
BestFES(fs) ==
    LET open == {i \in DOMAIN fs : fs[i].open}
        best == {i \in open : \A j \in open : Load(fs[i]) <= Load(fs[j])}
    IN IF open = {} THEN 0 ELSE Min(best)

(* openNewFES *)
OpenNewFES(fs) ==
    LET closed == {i \in DOMAIN fs : ~fs[i].open}
    IN IF closed = {} THEN fs ELSE [fs EXCEPT ![Min(closed)].open = TRUE]

TotalNbUsers(fs) ==
    FoldLeft(LAMBDA n, e : IF e.open THEN n + e.nbUser ELSE n, 0, fs)

Refusal(cookie) == [kind |-> "SCS", cookie |-> cookie, f |-> None]

(* lsChooseShard, for a user without privilege in a shard open for all *)
ChooseShard(m) ==
    LET first == BestFES(fesList)
        fs == IF first = 0 \/ Load(fesList[first]) >= Threshold
              THEN OpenNewFES(fesList) ELSE fesList
        best == BestFES(fs)
    IN IF best = 0 \/ TotalNbUsers(fs) >= PlayerLimit
       THEN /\ fesList' = fs
            /\ SendLs(<<Refusal(m.cookie)>>)
            /\ UNCHANGED toFes
       ELSE /\ fesList' = [fs EXCEPT ![best].nbPending = @ + 1]
            /\ toFes' = IF life[fs[best].f] = "up"
                        THEN [toFes EXCEPT ![fs[best].f] = Append(@, m)] ELSE toFes
            /\ UNCHANGED toLs

(* disconnectClient *)
DisconnectClient(m) ==
    /\ toFes' = IF where[m.user] # None /\ life[where[m.user]] = "up"
                THEN [toFes EXCEPT ![where[m.user]] = Append(@, m)] ELSE toFes
    /\ UNCHANGED <<fesList, toLs>>

WsReadsLs ==
    /\ toWs # <<>>
    /\ \/ Head(toWs).kind = "CS" /\ ChooseShard(Head(toWs))
       \/ Head(toWs).kind = "DC" /\ DisconnectClient(Head(toWs))
    /\ toWs' = Tail(toWs)
    /\ UNCHANGED <<lsVars, where, fesVars, sock, fromFes, histVars>>

Less(n) == IF n = 0 THEN 0 ELSE n - 1

OfFront(f, Op(_)) ==
    fesList' = [i \in DOMAIN fesList |-> IF fesList[i].f = f THEN Op(fesList[i])
                                         ELSE fesList[i]]

(* cbFESClientConnected.  insert() changes nothing for a user who is there *)
FESClientConnected(f, m) ==
    /\ SendLs(<<m>>)
    /\ OfFront(f, LAMBDA e : IF m.con
                             THEN [e EXCEPT !.nbUser = @ + 1, !.nbPending = Less(@)]
                             ELSE [e EXCEPT !.nbUser = Less(@)])
    /\ where' = [where EXCEPT ![m.user] = IF ~m.con THEN None
                                          ELSE IF @ = None THEN f ELSE @]
    /\ kicked' = IF m.con THEN kicked ELSE kicked \ {m.user}
    /\ disturbed' = IF m.con /\ where[m.user] # None THEN disturbed \cup {m.user}
                    ELSE disturbed

(* cbFESRemovedPendingCookie *)
FESRemovedPendingCookie(f) ==
    /\ OfFront(f, LAMBDA e : [e EXCEPT !.nbPending = Less(@)])
    /\ UNCHANGED <<where, toLs, kicked, disturbed>>

(* cbFESShardChooseShard *)
FESShardChooseShard(m) ==
    SendLs(<<m>>) /\ UNCHANGED <<fesList, where, kicked, disturbed>>

WsReadsFes(f) ==
    /\ fromFes[f] # <<>>
    /\ LET m == Head(fromFes[f])
       IN \/ m.kind = "SCS" /\ FESShardChooseShard(m)
          \/ m.kind = "CC" /\ FESClientConnected(f, m)
          \/ m.kind = "RPC" /\ FESRemovedPendingCookie(f)
    /\ fromFes' = [fromFes EXCEPT ![f] = Tail(@)]
    /\ UNCHANGED <<lsVars, fesVars, sock, toWs, toFes, entered, replaced, forgotten, lost,
                   faults>>

NextFront == CHOOSE f \in Fronts : life[f] = "off"

(* cbFESConnection; front ends differ in nothing and start in one order *)
FrontUp(f) ==
    /\ life[f] = "off" /\ f = NextFront
    /\ life' = [life EXCEPT ![f] = "up"]
    /\ fesList' = Append(fesList, [f |-> f, open |-> FALSE, nbUser |-> 0, nbPending |-> 0])
    /\ UNCHANGED <<lsVars, where, pending, sockOf, sock, netVars, histVars>>

(* slip: the users are removed, and LS is not told *)
Slip_FrontDown(f) ==
    /\ life[f] = "dead"
    /\ where' = [u \in Users |-> IF where[u] = f THEN None ELSE where[u]]
    /\ \E i \in DOMAIN fesList : fesList[i].f = f /\ fesList' = RemoveAt(fesList, i)
    /\ fromFes' = [fromFes EXCEPT ![f] = <<>>]
    /\ UNCHANGED <<lsVars, fesVars, sock, toLs, toWs, toFes, histVars>>

(* cbFESDisconnection; what the front end has sent and is not read is lost *)
FrontDown(f) ==
    /\ life[f] = "dead"
    /\ LET gone == {u \in Users : where[u] = f}
       IN /\ SendLs(SetToSeq({Connected(u, FALSE) : u \in gone}))
          /\ where' = [u \in Users |-> IF u \in gone THEN None ELSE where[u]]
          /\ kicked' = kicked \ gone
    /\ \E i \in DOMAIN fesList : fesList[i].f = f /\ fesList' = RemoveAt(fesList, i)
    /\ fromFes' = [fromFes EXCEPT ![f] = <<>>]
    /\ UNCHANGED <<lsVars, fesVars, sock, toWs, toFes, entered, replaced, forgotten,
                   disturbed, lost, faults>>

----------------------------------------------------------------------------
(* The front ends *)

Report(f, m) == fromFes' = [fromFes EXCEPT ![f] = Append(@, m)]

(* cbWSChooseShard: another cookie of the user is erased *)
WSChooseShard(f, cookie) ==
    LET old == {c \in pending[f] : c.user = cookie.user}
    IN /\ pending' = [pending EXCEPT ![f] = (@ \ old) \cup {cookie}]
       /\ replaced' = [replaced EXCEPT ![f] = @ + Cardinality(old)]
       /\ Report(f, [kind |-> "SCS", cookie |-> cookie, f |-> f])
       /\ UNCHANGED sock

(* cbWSDisconnectClient *)
WSDisconnectClient(f, u) ==
    /\ sock' = IF sockOf[f][u] = None THEN sock
               ELSE [sock EXCEPT ![sockOf[f][u]].closed = TRUE]
    /\ UNCHANGED <<pending, replaced, fromFes>>

FesReads(f) ==
    /\ toFes[f] # <<>>
    /\ LET m == Head(toFes[f])
       IN \/ m.kind = "CS" /\ WSChooseShard(f, m.cookie)
          \/ m.kind = "DC" /\ WSDisconnectClient(f, m.user)
    /\ toFes' = [toFes EXCEPT ![f] = Tail(@)]
    /\ UNCHANGED <<lsVars, wsVars, life, sockOf, toWs, toLs, entered, forgotten, kicked,
                   disturbed, lost, faults>>

(* slip: WS is not told *)
Slip_RefreshPendingList(f) ==
    /\ \E c \in pending[f] : pending' = [pending EXCEPT ![f] = @ \ {c}]
    /\ UNCHANGED <<lsVars, wsVars, life, sockOf, sock, netVars, histVars>>

(* refreshPendingList, when the time of a cookie is over *)
RefreshPendingList(f) ==
    /\ \E c \in pending[f] :
          /\ pending' = [pending EXCEPT ![f] = @ \ {c}]
          /\ Report(f, [kind |-> "RPC", cookie |-> c])
    /\ UNCHANGED <<lsVars, wsVars, life, sockOf, sock, toWs, toLs, toFes, histVars>>

NextSock == CHOOSE x \in Socks : sock[x] = Unused

(* connectToShard: a client connects and sends SV with its cookie *)
ConnectToShard(x, cookie, f) ==
    /\ sock[x] = Unused /\ x = NextSock
    /\ <<cookie, f>> \in granted /\ life[f] = "up"
    /\ sock' = [sock EXCEPT ![x] = [state |-> "connected", closed |-> FALSE,
                                    f |-> f, cookie |-> cookie]]
    /\ UNCHANGED <<lsVars, wsVars, fesVars, netVars, histVars>>

(* it leaves; the front end still reads what it has sent *)
ClientLeaves(x) ==
    /\ sock[x].state \in {"connected", "in"} /\ ~sock[x].closed
    /\ sock' = [sock EXCEPT ![x].closed = TRUE]
    /\ UNCHANGED <<lsVars, wsVars, fesVars, netVars, histVars>>

In(u) == {x \in Socks : sock[x].state = "in" /\ sock[x].cookie.user = u}

(* slip: the cookie stays *)
Slip_ShardValidation(x) ==
    /\ sock[x].state = "connected"
    /\ LET f == sock[x].f
           cookie == sock[x].cookie
           u == cookie.user
       IN IF cookie \in pending[f]
          THEN /\ sockOf' = [sockOf EXCEPT ![f][u] = IF @ = None THEN x ELSE @]
               /\ sock' = [sock EXCEPT ![x].state = "in"]
               /\ Report(f, Connected(u, TRUE))
               /\ entered' = entered \cup {x}
          ELSE /\ sock' = [sock EXCEPT ![x].state = "refused", ![x].closed = TRUE]
               /\ UNCHANGED <<sockOf, fromFes, entered>>
    /\ UNCHANGED <<lsVars, wsVars, life, pending, toWs, toLs, toFes, replaced, forgotten,
                   kicked, disturbed, lost, faults>>

(* cbShardValidation and isValidCookie *)
ShardValidation(x) ==
    /\ sock[x].state = "connected"
    /\ LET f == sock[x].f
           cookie == sock[x].cookie
           u == cookie.user
       IN IF cookie \in pending[f]
          THEN /\ pending' = [pending EXCEPT ![f] = @ \ {cookie}]
               /\ sockOf' = [sockOf EXCEPT ![f][u] = IF @ = None THEN x ELSE @]
               /\ sock' = [sock EXCEPT ![x].state = "in"]
               /\ Report(f, Connected(u, TRUE))
               /\ entered' = entered \cup {x}
          ELSE /\ sock' = [sock EXCEPT ![x].state = "refused", ![x].closed = TRUE]
               /\ UNCHANGED <<pending, sockOf, fromFes, entered>>
    /\ UNCHANGED <<lsVars, wsVars, life, toWs, toLs, toFes, replaced, forgotten, kicked,
                   disturbed, lost, faults>>

(* slip: clients that were refused are reported as well *)
Slip_ClientDisconnected(x) ==
    /\ sock[x].state \in {"in", "refused"} /\ sock[x].closed
    /\ sock' = [sock EXCEPT ![x].state = "gone"]
    /\ Report(sock[x].f, Connected(sock[x].cookie.user, FALSE))
    /\ sockOf' = [sockOf EXCEPT ![sock[x].f][sock[x].cookie.user] = None]
    /\ UNCHANGED <<lsVars, wsVars, life, pending, toWs, toLs, toFes, histVars>>

(* the disconnection callback of the application, and clientDisconnected *)
ClientDisconnected(x) ==
    /\ sock[x].state \in {"in", "refused"} /\ sock[x].closed
    /\ sock' = [sock EXCEPT ![x].state = "gone"]
    /\ IF sock[x].state = "in"
       THEN /\ Report(sock[x].f, Connected(sock[x].cookie.user, FALSE))
            /\ sockOf' = [sockOf EXCEPT ![sock[x].f][sock[x].cookie.user] = None]
       ELSE UNCHANGED <<fromFes, sockOf>>
    /\ UNCHANGED <<lsVars, wsVars, life, pending, toWs, toLs, toFes, histVars>>

(* a front end ends, with its connections *)
FrontDies(f) ==
    /\ life[f] = "up" /\ Fault
    /\ life' = [life EXCEPT ![f] = "dead"]
    /\ pending' = [pending EXCEPT ![f] = {}]
    /\ sockOf' = [sockOf EXCEPT ![f] = [u \in Users |-> None]]
    /\ sock' = [x \in Socks |-> IF sock[x] # Unused /\ sock[x].f = f
                                THEN [sock[x] EXCEPT !.state = "gone"] ELSE sock[x]]
    /\ toFes' = [toFes EXCEPT ![f] = <<>>]
    /\ UNCHANGED <<lsVars, wsVars, toWs, toLs, fromFes, entered, replaced, forgotten,
                   kicked, disturbed, lost>>

----------------------------------------------------------------------------
Asks(u) == WebCheck(u) \/ LsAsk(u) \/ LsKick(u) \/ WebKicked(u)

WsServes == WsReadsLs \/ \E f \in Fronts : WsReadsFes(f) \/ FrontDown(f)

FesServes(f) ==
    \/ FesReads(f)
    \/ \E x \in Socks : /\ sock[x] # Unused /\ sock[x].f = f
                        /\ ShardValidation(x) \/ ClientDisconnected(x)

Next ==
    \/ \E u \in Users : Asks(u)
    \/ LsReads \/ LinkLost \/ LinkBack
    \/ WsServes
    \/ \E f \in Fronts :
          \/ FrontUp(f) \/ FesServes(f) \/ RefreshPendingList(f) \/ FrontDies(f)
          \/ \E x \in Socks, c \in Cookies : ConnectToShard(x, c, f)
    \/ \E x \in Socks : ClientLeaves(x)

Spec == Init /\ [][Next]_vars

(* Services handle what they have received.  Nobody has to come or go. *)
FairSpec ==
    /\ Spec
    /\ WF_vars(LsReads) /\ WF_vars(WsServes)
    /\ \A f \in Fronts : WF_vars(FesServes(f))

----------------------------------------------------------------------------
(* Properties *)

(* "ok, it was validate, remove it" (login_server.cpp:451): a cookie lets  *)
(* in one connection, whatever connections are made with it.  And the      *)
(* connection that a front end has for a user, which it closes when it is  *)
(* told to (DC), still exists and is his, also when the user was let in    *)
(* several times.                                                          *)
LetIn ==
    /\ \A x, y \in entered : sock[x].cookie = sock[y].cookie => x = y
    /\ \A f \in Fronts : \A u \in Users :
          LET x == sockOf[f][u]
          IN x # None => x \in In(u) /\ sock[x].f = f

Among(ms, P(_)) == Cardinality({i \in DOMAIN ms : P(ms[i])})

OnTheWay(f, con) == Among(fromFes[f], LAMBDA m : m.kind = "CC" /\ m.con = con)

Served == {i \in DOMAIN fesList : life[fesList[i].f] = "up"}

(* "Number of user currently connected on this front end" (NbUser,         *)
(* welcome_service.cpp:292): it is, what is on the way counted, and the    *)
(* guards that keep it above 0 never hide a difference.                    *)
UsersCounted ==
    \A i \in Served :
       LET f == fesList[i].f
       IN fesList[i].nbUser + OnTheWay(f, TRUE)
             = OnTheWay(f, FALSE)
               + Cardinality({x \in Socks : sock[x].state = "in" /\ sock[x].f = f})

(* "Number of not yet connected users (but rooted to this frontend)"       *)
(* (NbPendingUsers, welcome_service.cpp:288): it is, what is on the way    *)
(* counted, but for the cookies that were replaced: they are counted for   *)
(* good, as nobody tells (login_server.cpp:143 is a comment).              *)
PendingCounted ==
    \A i \in Served :
       LET f == fesList[i].f
       IN fesList[i].nbPending
             = Cardinality(pending[f]) + replaced[f] + OnTheWay(f, TRUE)
               + Among(toFes[f], LAMBDA m : m.kind = "CS")
               + Among(fromFes[f], LAMBDA m : m.kind = "RPC")

(* the users Online when LS has read everything: the last CC decides *)
OnlineAfter ==
    {u \in Users :
       LET about == {i \in DOMAIN toLs : toLs[i].kind = "CC" /\ toLs[i].user = u}
       IN IF about = {} THEN u \in online ELSE toLs[Max(about)].con}

(* LS and WS agree on who is there, also when front ends end with users in *)
(* them, and the NbPlayers of LS is the number of those users; it is too   *)
(* large by the users that the web has set Offline, for which the CC is    *)
(* ignored ("Id %d wasn't connected on a shard", connection_ws.cpp:441).   *)
OnlineIsTracked ==
    /\ TypeOK
    /\ nbPlayers = Cardinality(online) + forgotten
    /\ ~lost => \A u \in Users \ kicked : u \in OnlineAfter <=> where[u] # None

(* Nobody stays Online who is not connected, whatever ends or is lost, and *)
(* a user who is connected is Online, unless he was kicked, or WS was told *)
(* of his coming before it was of his going, or the connection with LS was *)
(* lost.                                                                   *)
StatesSettle ==
    \A u \in Users :
       []<>(/\ u \in online => In(u) # {}
            /\ In(u) # {} /\ ~lost /\ u \notin disturbed => u \in online)
=============================================================================
