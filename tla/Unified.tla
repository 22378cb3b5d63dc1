------------------------------ MODULE Unified ------------------------------
(***************************************************************************)
(* Layer 5, CUnifiedNetwork, on top of the naming service: every service   *)
(* connects to those registered before it and is connected to by the later *)
(* ones.  The side that accepts a connection learns from UN_SIDENT whose   *)
(* it is, and of its end by a disconnection event.  They come in order,    *)
(* but in any order with the words of the naming service.  (The connection *)
(* event before, uncbConnection, sets the appId to the value it has here   *)
(* from the start.)                                                        *)
(*                                                                         *)
(* The callbacks of layer 5 run inside the steps of the naming client, so  *)
(* the actions here are those of Naming with what the callback does.  A    *)
(* service has one address, so that an entry has at most one connection.   *)
(* External services, that reconnect by themselves, are not modelled.      *)
(***************************************************************************)
EXTENDS Naming

VARIABLES entry,       \* _IdCnx of each service
          named,       \* _NamedCnx of each service
          before,      \* the ids of its list in front of its own
          open,        \* <<client, server>>: the connections there are
          events,      \* events[s][c]: what the server of s has received from c
          cnxId,       \* cnxId[s][c]: appId of that connection at s
          up,          \* history: who each service has been told is up, by id
          upTwice,     \* history: it was told so twice in a row
          late         \* history: a service was identified after UNB

cnxVars == <<entry, named, before, open, events, cnxId>>
upVars == <<up, upTwice, late>>
unifiedVars == <<cnxVars, upVars>>
vars == <<namingVars, unifiedVars>>

AppIdDeadConnection == NoSId

(* CUnifiedConnection: of = NoOne means NotUsed, else the service whose    *)
(* name it has; connections holds NoOne for a connection that is not valid *)
CnxEntries == [of : Services \cup {NoOne},
               connections : {<<>>} \cup {<<c>> : c \in Services \cup {NoOne}}]

NotUsed == [of |-> NoOne, connections |-> <<>>]
NoEntries == [i \in SIds |-> NotUsed]

Events == [kind : {"UN_SIDENT", "disconnection"}, sid : SIds \cup {NoSId}]

Names == {Name[s] : s \in Services}

TypeOK ==
    /\ NamingTypeOK
    /\ entry \in [Services -> [SIds -> CnxEntries]]
    /\ named \in [Services -> SUBSET (Names \X SIds)]
    /\ before \in [Services -> SUBSET SIds]
    /\ open \subseteq Services \X Services
    /\ events \in [Services -> [Services -> Seq(Events)]]
    /\ cnxId \in [Services -> [Services -> SIds \cup {AppIdDeadConnection}]]
    /\ up \in [Services -> [SIds -> Services \cup {NoOne}]]
    /\ upTwice \in BOOLEAN /\ late \in BOOLEAN

Quiet == [c \in Services |-> <<>>]
Unknown == [c \in Services |-> AppIdDeadConnection]

Init ==
    /\ NamingInit
    /\ entry = [s \in Services |-> NoEntries]
    /\ named = [s \in Services |-> {}]
    /\ before = [s \in Services |-> {}]
    /\ open = {}
    /\ events = [s \in Services |-> Quiet]
    /\ cnxId = [s \in Services |-> Unknown]
    /\ up = [s \in Services |-> Unlisted]
    /\ upTwice = FALSE
    /\ late = FALSE

----------------------------------------------------------------------------
(* addNamedCnx and callServiceUpCallback, for the services T[i], i in I *)
TellUp(s, I, T) ==
    /\ named' = [named EXCEPT ![s] = @ \cup {<<Name[T[i]], i>> : i \in I}]
    /\ up' = [up EXCEPT ![s] = [i \in SIds |-> IF i \in I THEN T[i] ELSE @[i]]]
    /\ upTwice' = (upTwice \/ \E i \in I : up[s][i] # NoOne)

Event(kind, sid) == [kind |-> kind, sid |-> sid]

(* the other side of a connection s closes, or leaves by its end, hears of *)
(* it; a client that hears of it does nothing but mark its socket          *)
Closing(C) ==
    [t \in Services |-> [c \in Services |->
        IF <<c, t>> \in C THEN Append(events[t][c], Event("disconnection", NoSId))
        ELSE events[t][c]]]

(* The answer of the naming service: uNetRegistrationBroadcast for every   *)
(* service in it but itself.                                               *)
Registered(s) ==
    /\ ReadAnswer(s)
    /\ LET m == Head(toSv[s])
           same(i) == {e \in m.services : e.sid = i}
       IN /\ entry' = [entry EXCEPT ![s] =
                [i \in SIds |-> IF same(i) # {} /\ i # m.sid
                                THEN [NotUsed EXCEPT !.of = First(same(i)).inst]
                                ELSE @[i]]]
          /\ before' = [before EXCEPT ![s] =
                IF m.ok
                THEN {e.sid : e \in {d \in m.services :
                                        d.rank < First(same(m.sid)).rank}}
                ELSE {}]
    /\ UNCHANGED <<named, open, events, cnxId, upVars>>

(* connect(): addService for the services in front of itself in the list.  *)
(* One that has ended refuses the connection and leaves an entry with a    *)
(* connection that is not valid.                                           *)
Connect(s) ==
    /\ EnterLoop(s)
    /\ LET there == {i \in before[s] : status[list[s][i]] \in Alive}
           servers == {list[s][i] : i \in there}
       IN /\ entry' = [entry EXCEPT ![s] =
                [i \in SIds |->
                   IF i \notin before[s] THEN @[i]
                   ELSE [@[i] EXCEPT !.connections =
                            IF i \in there THEN <<list[s][i]>> ELSE <<NoOne>>]]]
          /\ open' = open \cup ({s} \X servers)
          /\ events' = [t \in Services |->
                IF t \in servers
                THEN [events[t] EXCEPT ![s] = Append(@, Event("UN_SIDENT", mySid[s]))]
                ELSE events[t]]
          /\ TellUp(s, there, list[s])
    /\ before' = [before EXCEPT ![s] = {}]
    /\ UNCHANGED <<cnxId, late>>

(* uNetRegistrationBroadcast, called for an id that is new in the list *)
Announced(s) ==
    /\ ReadRegistration(s)
    /\ LET m == Head(toSv[s])
       IN IF /\ list[s][m.sid] = NoOne
             /\ m.sid # mySid[s]
             /\ entry[s][m.sid] = NotUsed
          THEN entry' = [entry EXCEPT ![s][m.sid].of = m.inst]
          ELSE UNCHANGED entry
    /\ UNCHANGED <<named, before, open, events, cnxId, upVars>>

(* uc->reset(): the connection is closed; its appId is dead already *)
ResetEntry(s, i) ==
    LET peers == {c \in Services : entry[s][i].connections = <<c>>}
    IN /\ entry' = [entry EXCEPT ![s][i] = NotUsed]
       /\ open' = open \ (({s} \X peers) \cup (peers \X {s}))
       /\ events' = Closing(open \cap ({s} \X peers))
       /\ cnxId' = [cnxId EXCEPT ![s] =
                      [c \in Services |-> IF c \in peers THEN AppIdDeadConnection ELSE @[c]]]

(* slip: the name is only removed when the connection still is there *)
Slip_Unannounced(s) ==
    /\ ReadUnregistration(s)
    /\ LET i == Head(toSv[s]).sid
           e == entry[s][i]
       IN IF i = mySid[s] \/ e = NotUsed
          THEN UNCHANGED <<named, open, events, cnxId, entry, up>>
          ELSE /\ ResetEntry(s, i)
               /\ up' = [up EXCEPT ![s][i] = NoOne]
               /\ named' = IF e.connections \in {<<>>, <<NoOne>>} THEN named
                           ELSE [named EXCEPT ![s] = @ \ {<<Name[e.of], i>>}]
    /\ UNCHANGED <<before, upTwice, late>>

(* uNetUnregistrationBroadcast; a service that reads its own id leaves *)
(* before.  The down callback is called whether it was up or not.      *)
Unannounced(s) ==
    /\ ReadUnregistration(s)
    /\ LET i == Head(toSv[s]).sid
           e == entry[s][i]
       IN IF i = mySid[s] \/ e = NotUsed
          THEN UNCHANGED <<named, open, events, cnxId, entry, up>>
          ELSE /\ ResetEntry(s, i)
               /\ up' = [up EXCEPT ![s][i] = NoOne]
               /\ named' = IF e.connections = <<>> THEN named
                           ELSE [named EXCEPT ![s] = @ \ {<<Name[e.of], i>>}]
    /\ UNCHANGED <<before, upTwice, late>>

----------------------------------------------------------------------------
(* The events of the connections s has accepted, in its main loop *)

EventIs(s, c, kind) ==
    /\ status[s] = "running"
    /\ events[s][c] # <<>> /\ Head(events[s][c]).kind = kind

Handled(s, c) == events' = [events EXCEPT ![s][c] = Tail(@)]

(* it is not in the list, and will not be *)
Unregistered(s, c, i) ==
    /\ list[s][i] # c
    /\ \A k \in 1 .. Len(toSv[s]) :
          toSv[s][k].kind = "RGB" => toSv[s][k].inst # c

(* uncbServiceIdentification: the entry is made here if the naming service *)
(* has not announced the service yet                                       *)
Identified(s, c) ==
    /\ EventIs(s, c, "UN_SIDENT")
    /\ LET i == Head(events[s][c]).sid
           e == entry[s][i]
       IN /\ entry' = [entry EXCEPT ![s][i] =
                [of |-> IF e = NotUsed THEN c ELSE e.of, connections |-> <<c>>]]
          /\ cnxId' = [cnxId EXCEPT ![s][c] = i]
          /\ TellUp(s, IF e.connections = <<>> THEN {i} ELSE {}, [j \in {i} |-> c])
          /\ late' = (late \/ Unregistered(s, c, i))
    /\ Handled(s, c)
    /\ UNCHANGED <<namingVars, before, open>>

(* uncbDisconnection: no callback, the naming service will tell *)
Disconnected(s, c) ==
    /\ EventIs(s, c, "disconnection")
    /\ LET i == cnxId[s][c]
       IN IF i # AppIdDeadConnection /\ entry[s][i].connections = <<c>>
          THEN entry' = [entry EXCEPT ![s][i].connections = <<NoOne>>]
          ELSE UNCHANGED entry
    /\ cnxId' = [cnxId EXCEPT ![s][c] = AppIdDeadConnection]
    /\ Handled(s, c)
    /\ UNCHANGED <<namingVars, named, before, open, upVars>>

(* the end of a process closes its connections *)
Ended(s) ==
    /\ Die(s) \/ Leave(s)
    /\ entry' = [entry EXCEPT ![s] = NoEntries]
    /\ named' = [named EXCEPT ![s] = {}]
    /\ before' = [before EXCEPT ![s] = {}]
    /\ open' = {l \in open : s \notin {l[1], l[2]}}
    /\ events' = [Closing({l \in open : l[1] = s}) EXCEPT ![s] = Quiet]
    /\ cnxId' = [cnxId EXCEPT ![s] = Unknown]
    /\ up' = [up EXCEPT ![s] = Unlisted]
    /\ UNCHANGED <<upTwice, late>>

----------------------------------------------------------------------------
Handle(s) == \E c \in Services : Identified(s, c) \/ Disconnected(s, c)

Next ==
    \/ NsStep /\ UNCHANGED unifiedVars
    \/ \E s \in Services :
          \/ (Start(s) \/ Reconnect(s)) /\ UNCHANGED unifiedVars
          \/ Registered(s) \/ Connect(s) \/ Announced(s) \/ Unannounced(s)
          \/ Handle(s) \/ Ended(s)

Spec == Init /\ [][Next]_vars

(* The naming service handles what it has received and checks its list, a  *)
(* service handles what it has received, ends its initialization, leaves   *)
(* when it is told to and tries to reach the naming service again.  Nobody *)
(* has to start or to die, and no timeout is relied on.                    *)
NsServes ==
    /\ \/ NsCheck
       \/ \E s \in Services : NsRegister(s) \/ NsDisconnect(s) \/ NsAck(s)
    /\ UNCHANGED unifiedVars

Serves(s) ==
    \/ Registered(s) \/ Connect(s) \/ Announced(s) \/ Unannounced(s) \/ Handle(s)
    \/ status[s] = "leaving" /\ Ended(s)
    \/ Reconnect(s) /\ UNCHANGED unifiedVars

Fairness == WF_vars(NsServes) /\ \A s \in Services : WF_vars(Serves(s))

FairSpec == Spec /\ Fairness

----------------------------------------------------------------------------
(* Properties *)

Orderly == ~doubtful /\ ~late

(* Refinement: an id is the naming service's until every registered        *)
(* service has forgotten its old owner, and lists name the true owners.    *)
(* A service that is not registered (any more) is not informed.            *)
Owner == [i \in SIds |-> LET E == {e \in table : e.sid = i}
                         IN IF E = {} THEN NoOne ELSE First(E).inst]
Left == {e.sid : e \in {d \in table : d.waiting}}
View == [s \in Services |-> IF RegisteredNow(s) THEN list[s] ELSE Unlisted]

Dir == INSTANCE Directory WITH owner <- Owner, left <- Left, view <- View,
                               hurried <- doubtful

DirectorySpec == Dir!Spec

(* A message is handed to the application with the name of the entry whose *)
(* index is the appId of the connection it came from                       *)
(* (uncbMsgProcessing): that is the name of the service that has sent it,  *)
(* on the connections accepted and on those made, although ids are given   *)
(* again.                                                                  *)
Attribution ==
    Orderly =>
       \A s \in Services : status[s] = "running" =>
          \A i \in SIds :
             /\ \A c \in Services :
                   /\ entry[s][i].connections = <<c>> => entry[s][i].of = c
                   /\ <<c, s>> \in open /\ cnxId[s][c] = i
                         => entry[s][i] = [of |-> c, connections |-> <<c>>]
             /\ up[s][i] # NoOne => up[s][i] = entry[s][i].of

(* The up callback is not called a second time for an id before the down   *)
(* callback, and the table by name, used to send, has the services that    *)
(* are up.                                                                 *)
UpAndDown ==
    /\ TypeOK
    /\ Orderly =>
       /\ ~upTwice
       /\ \A s \in Services :
             named[s] = {<<Name[up[s][i]], i>> : i \in {j \in SIds : up[s][j] # NoOne}}

Running == {s \in Services : status[s] = "running"}

(* "On a server, the callback is called each time a client is              *)
(* disconnected" (setServiceDownCallback, unified_network.h:352): when a   *)
(* service that was told to be up has ended, the callback has been called  *)
(* or there is still somebody who will cause it.                           *)
DownIsCalled ==
    ~hurried =>
       \A s \in Running : \A i \in SIds :
          up[s][i] # NoOne /\ status[up[s][i]] = "dead" =>
             \/ \E k \in 1 .. Len(toSv[s]) : toSv[s][k].kind = "UNB" /\ toSv[s][k].sid = i
             \/ \E e \in table : e.inst = up[s][i] /\ ~e.waiting

Settled ==
    /\ \A s \in Services : status[s] \in {"off", "running", "dead"}
    /\ \A e \in table : ~e.waiting /\ e.inst \in Running
    /\ \A s \in Running :
          {<<mySid[t], t>> : t \in Running \ {s}}
             = {<<i, up[s][i]>> : i \in {j \in SIds : up[s][j] # NoOne}}

(* Every service is told in the end of exactly the other ones that run,    *)
(* whoever dies or is killed on the way, and the naming service gets all   *)
(* acknowledgements without its timeout.                                   *)
EverybodyIsTold == []<>(Orderly => Settled)
=============================================================================
