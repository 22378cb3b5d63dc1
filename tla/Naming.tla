------------------------------- MODULE Naming -------------------------------
(***************************************************************************)
(* The naming service and its clients.  A service that starts registers;   *)
(* the naming service gives it an id, tells the others (RGB) and gives it  *)
(* the list of the services there are (RG).  When the connection of a      *)
(* service is lost its entry is not removed at once: the others are told   *)
(* (UNB), and the id can only be given again when all of them have         *)
(* acknowledged (ACK_UNI), or after UnregisterTimeout.                     *)
(*                                                                         *)
(* A member of Services is one run of a process: a service that starts     *)
(* again is another member of the same name, and stands for the addresses  *)
(* too.  The connection of a service with the naming service is two        *)
(* queues; an event (disconnection) comes in order with the messages of    *)
(* its connection (BufServer), and in any order with those of others.      *)
(*                                                                         *)
(* Messages are in the text format (StringMsgFormat = 1, service.cpp:979), *)
(* in which a number has no width.  In the binary format the two sides of  *)
(* RG and RGB do not agree on that of the count: the naming service writes *)
(* a byte (naming_service.cpp:583, 626), the client reads two              *)
(* (naming_client.cpp:121).                                                *)
(***************************************************************************)
EXTENDS Naturals, Sequences, FiniteSetsExt

CONSTANTS Services,    \* runs of service processes
          NoOne,       \* no service
          Name,        \* Name[s]: its short name
          Net,         \* Net[s]: its sub net
          Given,       \* Given[s]: the id of its configuration, or NoSId
          Unique,      \* names in UniqueOnShardServices
          BaseSId,     \* the first id to allocate (128)
          MaxSId,      \* the last one (65535)
          MaxFaults,   \* bound: deaths, kills, timeouts, naming service restarts
          MaxKills     \* bound: no kill after this many of them

NoSId == 0
SIds == (BaseSId .. MaxSId) \cup ({Given[s] : s \in Services} \ {NoSId})

ASSUME ConstantsAssumption ==
    /\ IsFiniteSet(Services) /\ NoOne \notin Services
    /\ BaseSId \in Nat \ {NoSId} /\ MaxSId \in Nat
    /\ Given \in [Services -> Nat]
    /\ MaxFaults \in Nat /\ MaxKills \in 0 .. MaxFaults

VARIABLES table,       \* RegisteredServices of the naming service
          appId,       \* appId of the connection with each service
          toNs, toSv,  \* messages from and to each service
          link,        \* its connection: up, or lost and not yet noticed
          status,      \* where each service is in its life
          mySid,       \* CNamingClient::_MySId and CUnifiedNetwork::_SId
          list,        \* CNamingClient::RegisteredServices, by id
          hurried,     \* history: an id was dropped early or given although used
          doubtful,    \* history: or has been released before all knew of it
          faults       \* faults so far

nsVars == <<table, appId>>
clientVars == <<status, mySid, list>>
histVars == <<hurried, doubtful, faults>>
namingVars == <<nsVars, toNs, toSv, link, clientVars, histVars>>

Entries == [rank : Nat \ {0},       \* the place in the list
            sid : SIds,
            inst : Services,        \* stands for SockId, Addr and Name
            waiting : BOOLEAN,      \* WaitingUnregistration
            acks : [SIds -> Nat]]   \* WaitingUnregistrationServices, counted

NoAcks == [i \in SIds |-> 0]

ToNs == [kind : {"RG", "RRG", "ACK_UNI", "disconnection"}, sid : SIds \cup {NoSId}]
Listed == [rank : Nat \ {0}, sid : SIds, inst : Services]
ToSv == [kind : {"RG"}, ok : BOOLEAN, sid : SIds \cup {NoSId}, services : {L \in SUBSET Listed : IsFiniteSet(L)}]
        \cup [kind : {"RGB"}, sid : SIds, inst : Services]
        \cup [kind : {"UNB"}, sid : SIds, name : {Name[s] : s \in Services}]

(* asking: in registerService; ready: between init() and connect();        *)
(* leaving: exit() has been called                                         *)
Alive == {"asking", "ready", "running", "leaving"}

NamingTypeOK ==
    /\ table \subseteq Entries
    /\ \A d, e \in table : d.rank = e.rank => d = e
    /\ appId \in [Services -> SIds \cup {NoSId}]
    /\ toNs \in [Services -> Seq(ToNs)]
    /\ toSv \in [Services -> Seq(ToSv)]
    /\ link \in [Services -> {"none", "up", "lost"}]
    /\ status \in [Services -> Alive \cup {"off", "dead"}]
    /\ mySid \in [Services -> SIds \cup {NoSId}]
    /\ list \in [Services -> [SIds -> Services \cup {NoOne}]]
    /\ hurried \in BOOLEAN /\ doubtful \in BOOLEAN /\ (hurried => doubtful)
    /\ faults \in 0 .. MaxFaults

Unlisted == [i \in SIds |-> NoOne]

NamingInit ==
    /\ table = {}
    /\ appId = [s \in Services |-> NoSId]
    /\ toNs = [s \in Services |-> <<>>]
    /\ toSv = [s \in Services |-> <<>>]
    /\ link = [s \in Services |-> "none"]
    /\ status = [s \in Services |-> "off"]
    /\ mySid = [s \in Services |-> NoSId]
    /\ list = [s \in Services |-> Unlisted]
    /\ hurried = FALSE /\ doubtful = FALSE
    /\ faults = 0

----------------------------------------------------------------------------
(* Definitions named Slip_... are variants of the definition that follows  *)
(* them, with a mistake a change of the code could make.  No action uses   *)
(* them: they show that the properties would notice.                       *)

(* Messages: what is sent on a connection that is lost vanishes *)

Ask(s, kind, sid) ==
    toNs' = IF link[s] = "up"
            THEN [toNs EXCEPT ![s] = Append(@, [kind |-> kind, sid |-> sid])]
            ELSE toNs

Told(s, m) == IF link[s] = "up" THEN Append(toSv[s], m) ELSE toSv[s]

Tell(S, m) == toSv' = [s \in Services |-> IF s \in S THEN Told(s, m) ELSE toSv[s]]

Taken(s) == toNs' = [toNs EXCEPT ![s] = Tail(@)]

Fault(max) == faults < max /\ faults' = faults + 1

----------------------------------------------------------------------------
(* The naming service: its list *)

(* the first entry, in the order of the list, of a set of entries *)
First(E) == CHOOSE e \in E : \A d \in E : e.rank <= d.rank

Used == {e.sid : e \in table}

(* canAccess; an entry on its way out is not accessible *)
CanAccess(s, e) == ~e.waiting /\ Net[e.inst] = Net[s]

Accessible(s, E) == {e.inst : e \in {d \in E : CanAccess(s, d)}}

RegisteredNow(s) == \E e \in table : e.inst = s /\ ~e.waiting

(* slip: entries on their way out are told of as well *)
Slip_RepliedWaiting(s, E) ==
    {[rank |-> e.rank, sid |-> e.sid, inst |-> e.inst] :
         e \in {d \in E : Net[d.inst] = Net[s]}}

(* the services in the answer to s: those it can access, itself too *)
Replied(s, E) ==
    {[rank |-> e.rank, sid |-> e.sid, inst |-> e.inst] :
         e \in {d \in E : CanAccess(s, d)}}

(* slip: an id is free when no service has it that still runs *)
Slip_WantedOfWaiting(sid) ==
    LET free == (BaseSId .. MaxSId) \ {e.sid : e \in {d \in table : ~d.waiting}}
    IN IF sid # NoSId THEN sid ELSE IF free = {} THEN NoSId ELSE Min(free)

(* the id a service gets: the one it brings, or the smallest free one, or  *)
(* none ("Service identifier allocation overflow")                         *)
Wanted(sid) ==
    LET free == (BaseSId .. MaxSId) \ Used
    IN IF sid # NoSId THEN sid ELSE IF free = {} THEN NoSId ELSE Min(free)

(* queryStartService.  _OnlineServices, from which nothing is removed,     *)
(* holds all ids of the list; ids that are not in the list have no name.   *)
Denied(s) ==
    /\ Name[s] \in Unique
    /\ \E i \in Used : Name[First({e \in table : e.sid = i}).inst] = Name[s]

NextRank == 1 + Max({0} \cup {e.rank : e \in table})

Answer(ok, sid, services) ==
    [kind |-> "RG", ok |-> ok, sid |-> sid, services |-> services]

(* doRegister, accepted: a service that registers again (RRG) is not       *)
(* announced and gets no answer                                            *)
Register(s, sid, again) ==
    LET entry == [rank |-> NextRank, sid |-> sid, inst |-> s, waiting |-> FALSE,
                  acks |-> NoAcks]
        after == table \cup {entry}
        others == Accessible(s, {e \in after : e.sid # sid})
    IN /\ table' = after
       /\ appId' = [appId EXCEPT ![s] = sid]
       /\ toSv' = [t \in Services |->
                     IF again THEN toSv[t]
                     ELSE IF t = s THEN Told(s, Answer(TRUE, sid, Replied(s, after)))
                     ELSE IF t \in others
                          THEN Told(t, [kind |-> "RGB", sid |-> sid, inst |-> s])
                     ELSE toSv[t]]

(* cbRegister, cbResendRegisteration.  An id that a service brings is      *)
(* accepted although it is used ("Sid %d already used by another service"  *)
(* is only a warning: ok is set to true again).                            *)
NsRegister(s) ==
    /\ toNs[s] # <<>> /\ Head(toNs[s]).kind \in {"RG", "RRG"}
    /\ LET m == Head(toNs[s])
           again == m.kind = "RRG"
           sid == Wanted(m.sid)
       IN /\ IF sid # NoSId /\ ~Denied(s)
             THEN Register(s, sid, again)
             ELSE /\ Tell(IF again THEN {} ELSE {s}, Answer(FALSE, NoSId, {}))
                  /\ UNCHANGED nsVars
          /\ hurried' = (hurried \/ m.sid \in Used)
          /\ doubtful' = (doubtful \/ m.sid \in Used)
    /\ Taken(s)
    /\ UNCHANGED <<link, clientVars, faults>>

(* checkWaitingUnregistrationServices, without the timeout *)
Acknowledged(E) == {e \in E : e.waiting /\ e.acks = NoAcks}

(* slip: the acknowledgements of a service that is down are waited for *)
Slip_DoRemove(e) ==
    LET others == table \ {e}
        awaited == [i \in SIds |-> e.acks[i]
                       + Cardinality({d \in others : ~d.waiting /\ d.sid = i})]
        marked == [e EXCEPT !.waiting = TRUE, !.acks = awaited]
    IN table' = IF awaited = NoAcks THEN others ELSE others \cup {marked}

(* slip: nobody is waited for *)
Slip_DoRemoveAtOnce(e) ==
    table' = {[d EXCEPT !.acks[e.sid] = 0] : d \in table \ {e}}

(* doRemove: the entry is marked, its id leaves all lists of awaited       *)
(* acknowledgements, and those of all other services are awaited           *)
DoRemove(e) ==
    LET others == {[d EXCEPT !.acks[e.sid] = 0] : d \in table \ {e}}
        awaited == [i \in SIds |-> (IF i = e.sid THEN 0 ELSE e.acks[i])
                       + Cardinality({d \in others : ~d.waiting /\ d.sid = i})]
        marked == [e EXCEPT !.waiting = TRUE, !.acks = awaited]
    IN table' = IF awaited = NoAcks THEN others ELSE others \cup {marked}

Unregistration(e) == [kind |-> "UNB", sid |-> e.sid, name |-> Name[e.inst]]

(* cbDisconnect.  A service has one entry on a connection at most. *)
NsDisconnect(s) ==
    /\ toNs[s] # <<>> /\ Head(toNs[s]).kind = "disconnection"
    /\ LET mine == {e \in table : e.inst = s /\ ~e.waiting}
       IN IF mine = {} THEN UNCHANGED <<table, toSv>>
          ELSE /\ DoRemove(First(mine))
               /\ Tell(Accessible(s, table), Unregistration(First(mine)))
    /\ Taken(s)
    /\ UNCHANGED <<appId, link, clientVars, histVars>>

(* the command kill; also what UNI would do, which no service sends *)
Kill(sid) ==
    /\ sid \in Used
    /\ LET e == First({d \in table : d.sid = sid})
       IN DoRemove(e) /\ Tell(Accessible(e.inst, table), Unregistration(e))
    /\ Fault(MaxKills)
    /\ UNCHANGED <<appId, toNs, link, clientVars, hurried, doubtful>>

(* slip: whoever acknowledges, all have *)
Slip_NsAck(s) ==
    /\ toNs[s] # <<>> /\ Head(toNs[s]).kind = "ACK_UNI"
    /\ table' = {e \in table : ~(e.waiting /\ e.sid = Head(toNs[s]).sid)}
    /\ Taken(s)
    /\ UNCHANGED <<appId, toSv, link, clientVars, histVars>>

(* cbACKUnregistration: the sender is known by the appId of its connection. *)
(* A service that was killed has a connection until it leaves, and its id   *)
(* may be that of another service by then, whose acknowledgement it is      *)
(* taken for.                                                               *)
NsAck(s) ==
    /\ toNs[s] # <<>> /\ Head(toNs[s]).kind = "ACK_UNI"
    /\ LET waiting == {e \in table : /\ e.sid = Head(toNs[s]).sid /\ e.waiting
                                     /\ appId[s] # NoSId /\ e.acks[appId[s]] > 0}
           e == First(waiting)
           acked == (table \ {e}) \cup {[e EXCEPT !.acks[appId[s]] = @ - 1]}
       IN /\ table' = IF waiting = {} THEN table ELSE acked \ Acknowledged(acked)
          /\ doubtful' = (doubtful \/ (waiting # {} /\ ~RegisteredNow(s)))
    /\ Taken(s)
    /\ UNCHANGED <<appId, toSv, link, clientVars, hurried, faults>>

(* checkWaitingUnregistrationServices in update() *)
NsCheck ==
    /\ Acknowledged(table) # {}
    /\ table' = table \ Acknowledged(table)
    /\ UNCHANGED <<appId, toNs, toSv, link, clientVars, histVars>>

(* the same, when UnregisterTimeout is over for an entry *)
NsTimeout ==
    /\ \E e \in table : /\ e.waiting /\ e.acks # NoAcks
                        /\ table' = table \ ({e} \cup Acknowledged(table))
    /\ hurried' = TRUE /\ doubtful' = TRUE
    /\ Fault(MaxFaults)
    /\ UNCHANGED <<appId, toNs, toSv, link, clientVars>>

(* The naming service ends and starts again: its list and all connections  *)
(* are lost; what it has sent may still be read.                           *)
NsRestart ==
    /\ \E s \in Services : link[s] = "up"
    /\ table' = {}
    /\ appId' = [s \in Services |-> NoSId]
    /\ toNs' = [s \in Services |-> <<>>]
    /\ link' = [s \in Services |-> IF link[s] = "up" THEN "lost" ELSE link[s]]
    /\ hurried' = TRUE /\ doubtful' = TRUE
    /\ Fault(MaxFaults)
    /\ UNCHANGED <<toSv, clientVars>>

----------------------------------------------------------------------------
(* The clients *)

(* processes that differ in nothing start in one order *)
Alike(s, t) == Name[s] = Name[t] /\ Net[s] = Net[t] /\ Given[s] = Given[t]
NextOf(s) == CHOOSE t \in Services : status[t] = "off" /\ Alike(s, t)

(* connect() and the first half of registerService *)
Start(s) ==
    /\ status[s] = "off" /\ s = NextOf(s)
    /\ status' = [status EXCEPT ![s] = "asking"]
    /\ link' = [link EXCEPT ![s] = "up"]
    /\ toNs' = [toNs EXCEPT ![s] = <<[kind |-> "RG", sid |-> Given[s]]>>]
    /\ UNCHANGED <<nsVars, toSv, mySid, list, histVars>>

MessageIs(s, kind) == toSv[s] # <<>> /\ Head(toSv[s]).kind = kind

ReadBy(s) == toSv' = [toSv EXCEPT ![s] = Tail(@)]

(* the list after an answer: of two entries with one id the last counts *)
ListOf(services) ==
    [i \in SIds |-> LET same == {e \in services : e.sid = i}
                    IN IF same = {} THEN NoOne
                       ELSE (CHOOSE e \in same : \A d \in same : d.rank <= e.rank).inst]

(* cbRegister of the client and the second half of registerService; a      *)
(* service that is refused ends (service.cpp:1074)                         *)
ReadAnswer(s) ==
    /\ status[s] = "asking" /\ MessageIs(s, "RG")
    /\ LET m == Head(toSv[s])
       IN IF m.ok
          THEN /\ status' = [status EXCEPT ![s] = "ready"]
               /\ mySid' = [mySid EXCEPT ![s] = m.sid]
               /\ list' = [list EXCEPT ![s] = ListOf(m.services)]
          ELSE /\ status' = [status EXCEPT ![s] = "leaving"]
               /\ UNCHANGED <<mySid, list>>
    /\ ReadBy(s)
    /\ UNCHANGED <<nsVars, toNs, link, histVars>>

(* the service has connected to the others and enters its main loop *)
EnterLoop(s) ==
    /\ status[s] = "ready"
    /\ status' = [status EXCEPT ![s] = "running"]
    /\ UNCHANGED <<nsVars, toNs, toSv, link, mySid, list, histVars>>

(* cbRegisterBroadcast: an entry with this id is changed, in silence *)
ReadRegistration(s) ==
    /\ status[s] = "running" /\ MessageIs(s, "RGB")
    /\ LET m == Head(toSv[s]) IN list' = [list EXCEPT ![s][m.sid] = m.inst]
    /\ ReadBy(s)
    /\ UNCHANGED <<nsVars, toNs, link, status, mySid, histVars>>

(* cbUnregisterBroadcast: a service that reads its own id leaves *)
ReadUnregistration(s) ==
    /\ status[s] = "running" /\ MessageIs(s, "UNB")
    /\ LET m == Head(toSv[s])
       IN /\ list' = [list EXCEPT ![s][m.sid] = NoOne]
          /\ Ask(s, "ACK_UNI", m.sid)
          /\ status' = [status EXCEPT ![s] = IF mySid[s] = m.sid THEN "leaving" ELSE @]
    /\ ReadBy(s)
    /\ UNCHANGED <<nsVars, link, mySid, histVars>>

(* CUnifiedNetwork::update, every 5 seconds: resendRegisteration *)
Reconnect(s) ==
    /\ status[s] = "running" /\ link[s] = "lost" /\ toSv[s] = <<>>
    /\ link' = [link EXCEPT ![s] = "up"]
    /\ toNs' = [toNs EXCEPT ![s] = <<[kind |-> "RRG", sid |-> mySid[s]]>>]
    /\ UNCHANGED <<nsVars, toSv, clientVars, histVars>>

(* the process ends and its connection with it *)
Gone(s) ==
    /\ status' = [status EXCEPT ![s] = "dead"]
    /\ Ask(s, "disconnection", NoSId)
    /\ toSv' = [toSv EXCEPT ![s] = <<>>]
    /\ link' = [link EXCEPT ![s] = "none"]
    /\ mySid' = [mySid EXCEPT ![s] = NoSId]
    /\ list' = [list EXCEPT ![s] = Unlisted]
    /\ UNCHANGED <<nsVars, hurried, doubtful>>

Die(s) == status[s] \in Alive \ {"leaving"} /\ Gone(s) /\ Fault(MaxFaults)

Leave(s) == status[s] = "leaving" /\ Gone(s) /\ UNCHANGED faults

----------------------------------------------------------------------------
NsStep ==
    \/ \E s \in Services : NsRegister(s) \/ NsDisconnect(s) \/ NsAck(s)
    \/ \E i \in SIds : Kill(i)
    \/ NsCheck \/ NsTimeout \/ NsRestart

ClientStep(s) ==
    \/ Start(s) \/ ReadAnswer(s) \/ EnterLoop(s)
    \/ ReadRegistration(s) \/ ReadUnregistration(s)
    \/ Reconnect(s) \/ Die(s) \/ Leave(s)

NamingNext == NsStep \/ \E s \in Services : ClientStep(s)

NamingSpec == NamingInit /\ [][NamingNext]_namingVars

----------------------------------------------------------------------------
(* Properties *)

(* Two entries of the naming service never share an id, also not while one *)
(* of them waits for acknowledgements ("We have to check that the user     *)
(* provided sid is available", naming_service.cpp:553), unless the naming  *)
(* service was in a hurry: it has lost its list, has dropped an entry      *)
(* after the timeout, or has accepted an id that was used.                 *)
IdsAreUnique == ~hurried => \A d, e \in table : d.sid = e.sid => d = e

(* Nobody is waited for that cannot answer: the acknowledgements awaited   *)
(* are those of registered services, whatever happens.                     *)
AwaitedAreThere ==
    \A e \in table : \A i \in SIds :
        e.acks[i] > 0 => e.waiting /\ \E d \in table : ~d.waiting /\ d.sid = i
=============================================================================
