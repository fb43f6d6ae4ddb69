---------------------------- MODULE LabMembership -----------------------------
(***************************************************************************)
(* The membership of a Laboratory: a host accepts connections of named     *)
(* clients, registers them, routes requests to them, reaps those whose     *)
(* heartbeats stop and fails what waits on a client that has gone; a       *)
(* client that loses its connection connects again under the same name.    *)
(*                                                                         *)
(* A client uses one connection at a time but an old one may outlive it at *)
(* the host, so each name has a few connection slots, reused when both     *)
(* ends have forgotten the connection.  The network may cut a connection   *)
(* without either end noticing.  Between the name check of a handshake and *)
(* the registration there is one await, the sending of the welcome frame   *)
(* on a fresh connection, which suspends in neither transport; a handshake *)
(* is one step.                                                            *)
(***************************************************************************)
EXTENDS Naturals, FiniteSets

CONSTANTS Nodes,    \* client names
          Slots,    \* connections of one name that may coexist
          Requests, \* requests the host may have in flight
          MaxFaults \* bound: connections cut, heartbeats late and read loops crashed

NoSlot == 0

ASSUME LabAssumption == Slots \subseteq Nat \ {NoSlot} /\ MaxFaults \in Nat

VARIABLES
  life,    \* of the host: up, stopping, stopped
  client,  \* the connector of each name
  joined,  \* names whose connector has had its first handshake
  link,    \* the slot of the connector's connection
  near,    \* near[n][k]: what the client's end of the connection sees
  far,     \* far[n][k]: what the host's end sees
  hello,   \* the Hello of the connection is on its way or waiting at the host
  answer,  \* the host's answer to it, not received yet
  reg,     \* _clients: the connection registered for each name
  alive,   \* Membership._nodes
  stale,   \* members whose last heartbeat is older than the timeout
  lost,    \* names check_lost returned and the reaper has yet to look at
  reaping, \* the reaper awaits the close of a connection
  pending, \* requests whose future is not done
  target,  \* the name each pending request was sent to
  via,     \* history: the connection it was sent on
  faults     \* how many faults there have been

netVars  == <<near, far, hello, answer>>
reqVars  == <<pending, target, via>>
hostVars == <<reg, alive, stale, lost, reaping, reqVars>>
vars     == <<life, client, joined, link, netVars, hostVars, faults>>

\* open : frames pass          cut : nothing passes and nobody was told
\* shut : the next recv or send raises ConnectionClosed
Ends == {"open", "cut", "shut"}

TypeOK ==
  /\ life \in {"up", "stopping", "stopped"}
  /\ client \in [Nodes -> {"down", "hello", "up", "gone"}]
  /\ joined \subseteq Nodes
  /\ link \in [Nodes -> Slots \cup {NoSlot}]
  /\ near \in [Nodes -> [Slots -> Ends]] /\ far \in [Nodes -> [Slots -> Ends]]
  /\ hello \in [Nodes -> SUBSET Slots]
  /\ answer \in [Nodes -> [Slots -> {"none", "welcome", "conflict"}]]
  /\ reg \in [Nodes -> Slots \cup {NoSlot}]
  /\ alive \subseteq Nodes /\ stale \subseteq alive /\ lost \subseteq Nodes
  /\ reaping \in BOOLEAN
  /\ pending \subseteq Requests
  /\ target \in [Requests -> Nodes \cup {"none"}]
  /\ via \in [Requests -> Slots \cup {NoSlot}]
  /\ faults \in 0..MaxFaults

Init ==
  /\ life = "up"
  /\ client = [n \in Nodes |-> "down"] /\ joined = {}
  /\ link = [n \in Nodes |-> NoSlot]
  /\ near = [n \in Nodes |-> [k \in Slots |-> "shut"]] /\ far = near
  /\ hello = [n \in Nodes |-> {}]
  /\ answer = [n \in Nodes |-> [k \in Slots |-> "none"]]
  /\ reg = [n \in Nodes |-> NoSlot]
  /\ alive = {} /\ stale = {} /\ lost = {} /\ reaping = FALSE
  /\ pending = {}
  /\ target = [r \in Requests |-> "none"] /\ via = [r \in Requests |-> NoSlot]
  /\ faults = 0

------------------------------------------------------------------------------
\* Closing one end: the other sees it, after what is still in flight, unless
\* the network has cut the connection.
Told(end) == IF end = "open" THEN "shut" ELSE end

CloseFar(n, k) ==
  /\ far' = [far EXCEPT ![n][k] = "shut"]
  /\ near' = [near EXCEPT ![n][k] = Told(@)]

CloseNear(n, k) ==
  /\ near' = [near EXCEPT ![n][k] = "shut"]
  /\ far' = [far EXCEPT ![n][k] = Told(@)]

\* Both ends have forgotten the connection of the slot.  A handshake still
\* waiting there for a Hello will not see one.
Free(n, k) == reg[n] # k /\ link[n] # k

\* A frame the client sends reaches the host.
Delivers(n, k) == near[n][k] = "open" /\ far[n][k] = "open"

------------------------------------------------------------------------------
(* The connector.                                                            *)

\* _main_loop, _connect_once: a connection, and the Hello on it.
Connects(n) ==
  LET k == CHOOSE x \in Slots : Free(n, x)
  IN
  /\ client[n] = "down" /\ life = "up" /\ \E x \in Slots : Free(n, x)
  /\ client' = [client EXCEPT ![n] = "hello"]
  /\ link' = [link EXCEPT ![n] = k]
  /\ near' = [near EXCEPT ![n][k] = "open"] /\ far' = [far EXCEPT ![n][k] = "open"]
  /\ hello' = [hello EXCEPT ![n] = @ \cup {k}]
  /\ UNCHANGED <<life, joined, answer, hostVars, faults>>

Welcomed(n) ==
  LET k == link[n]
  IN /\ client[n] = "hello" /\ near[n][k] # "cut" /\ answer[n][k] = "welcome"
     /\ client' = [client EXCEPT ![n] = "up"]
     /\ joined' = joined \cup {n}
     /\ answer' = [answer EXCEPT ![n][k] = "none"]
     /\ UNCHANGED <<life, link, near, far, hello, hostVars, faults>>

\* What the connector is after name_conflict: only the first one is final.
AfterConflict(n) == IF n \in joined THEN "down" ELSE "gone"

Rejected(n) ==
  LET k == link[n]
  IN /\ client[n] = "hello" /\ near[n][k] # "cut" /\ answer[n][k] = "conflict"
     /\ client' = [client EXCEPT ![n] = AfterConflict(n)]
     /\ link' = [link EXCEPT ![n] = NoSlot]
     /\ answer' = [answer EXCEPT ![n][k] = "none"]
     /\ CloseNear(n, k)
     /\ UNCHANGED <<life, joined, hello, hostVars, faults>>

\* A loop of the connection meets ConnectionClosed: _tear_down_connection.
LinkDrops(n) ==
  LET k == link[n]
  IN /\ client[n] \in {"hello", "up"} /\ near[n][k] = "shut" /\ answer[n][k] = "none"
     /\ client' = [client EXCEPT ![n] = "down"]
     /\ link' = [link EXCEPT ![n] = NoSlot]
     /\ UNCHANGED <<life, joined, netVars, hostVars, faults>>

\* stop(), or the end of the client's process.
ClientStops(n) ==
  /\ client[n] # "gone"
  /\ client' = [client EXCEPT ![n] = "gone"]
  /\ link' = [link EXCEPT ![n] = NoSlot]
  /\ IF link[n] = NoSlot
     THEN UNCHANGED <<near, far, answer>>
     ELSE CloseNear(n, link[n]) /\ answer' = [answer EXCEPT ![n][link[n]] = "none"]
  /\ UNCHANGED <<life, joined, hello, hostVars, faults>>

------------------------------------------------------------------------------
(* The host.                                                                 *)

\* _perform_handshake and _handle_new_connection.
Handshake(n, k) ==
  /\ k \in hello[n] /\ far[n][k] # "cut"
  /\ hello' = [hello EXCEPT ![n] = @ \ {k}]
  /\ \/ /\ far[n][k] = "shut"
        /\ UNCHANGED <<near, far, answer, reg, alive, stale>>
     \/ /\ far[n][k] = "open" /\ reg[n] # NoSlot
        /\ answer' = [answer EXCEPT ![n][k] = "conflict"]
        /\ CloseFar(n, k)
        /\ UNCHANGED <<reg, alive, stale>>
     \/ /\ far[n][k] = "open" /\ reg[n] = NoSlot
        /\ answer' = [answer EXCEPT ![n][k] = "welcome"]
        /\ reg' = [reg EXCEPT ![n] = k]
        /\ alive' = alive \cup {n} /\ stale' = stale \ {n}
        /\ UNCHANGED <<near, far>>
  /\ UNCHANGED <<life, client, joined, link, lost, reaping, reqVars, faults>>

\* A disconnection that fails no request.
NobodyAbandoned(n) == {}

\* The requests _disconnect_client fails: those whose target is the name.
Abandoned(n) == {r \in pending : target[r] = n}

\* The futures of R are done: with a result, an abortion or a timeout.
Settle(R) ==
  /\ pending' = pending \ R
  /\ target' = [r \in Requests |-> IF r \in R THEN "none" ELSE target[r]]
  /\ via' = [r \in Requests |-> IF r \in R THEN NoSlot ELSE via[r]]

\* A leave that forgets the heartbeat, and one that does nothing.
LeaveStale(n) == alive' = alive \ {n} /\ UNCHANGED stale
StayMember(n) == UNCHANGED <<alive, stale>>

Leave(n) == alive' = alive \ {n} /\ stale' = stale \ {n}

\* A disconnection that leaves the connection open.
DropUnclosed(n) ==
  /\ reg' = [reg EXCEPT ![n] = NoSlot]
  /\ Settle(Abandoned(n))
  /\ UNCHANGED <<near, far>>

\* _disconnect_client of the client registered for the name; Drop is the part
\* of it that leaves the membership alone.
Drop(n) ==
  /\ reg' = [reg EXCEPT ![n] = NoSlot]
  /\ Settle(Abandoned(n))
  /\ CloseFar(n, reg[n])

Disconnect(n) == Drop(n) /\ Leave(n)

\* The read loop of the connection ends.
ReadEnds(n) ==
  /\ reg[n] # NoSlot /\ far[n][reg[n]] = "shut"
  /\ Disconnect(n)
  /\ UNCHANGED <<life, client, joined, link, hello, answer, lost, reaping, faults>>

\* An exception in the handling of a frame ends it too.
ReadCrashes(n) ==
  /\ reg[n] # NoSlot /\ faults < MaxFaults /\ faults' = faults + 1
  /\ Disconnect(n)
  /\ UNCHANGED <<life, client, joined, link, hello, answer, lost, reaping>>

\* The connection the host has registered for the name delivers frames.
Healthy(n) == reg[n] # NoSlot /\ reg[n] = link[n] /\ Delivers(n, link[n])

\* A heartbeat of a name that is no member is not recorded.
Heartbeat(n) ==
  /\ client[n] = "up" /\ Healthy(n)
  /\ stale' = stale \ {n}
  /\ UNCHANGED <<life, client, joined, link, netVars, reg, alive, lost, reaping, reqVars, faults>>

\* Time passes.  Heartbeats are sent three times as often as they must arrive:
\* that those of a healthy connection come too late is a fault.
GrowsStale(n) ==
  /\ n \in alive
  /\ stale' = stale \cup {n}
  /\ IF Healthy(n) THEN faults < MaxFaults /\ faults' = faults + 1 ELSE UNCHANGED faults
  /\ UNCHANGED <<life, client, joined, link, netVars, reg, alive, lost, reaping, reqVars>>

\* A reaper that strikes members off and disconnects nobody.
ScanOnly(n) ==
  /\ life = "up" /\ n \in stale
  /\ alive' = alive \ stale /\ stale' = {}
  /\ UNCHANGED <<life, client, joined, link, netVars, reg, lost, reaping, reqVars, faults>>

\* _reaper_loop: check_lost strikes off every stale member; the first of them
\* is disconnected at once, and the close() of its connection is awaited.
Scan(n) ==
  /\ life = "up" /\ lost = {} /\ ~reaping /\ n \in stale
  /\ lost' = stale \ {n} /\ reaping' = TRUE
  /\ alive' = alive \ stale /\ stale' = {}
  /\ Drop(n)
  /\ UNCHANGED <<life, client, joined, link, hello, answer, faults>>

\* After an await the reaper goes on to the next lost name n that has a client
\* by now, whoever that is; it passes over names S that have none.
Reap(n, S) ==
  /\ reaping
  /\ n \in lost /\ reg[n] # NoSlot /\ \A m \in S : m \in lost /\ reg[m] = NoSlot
  /\ lost' = lost \ ({n} \cup S)
  /\ Disconnect(n)
  /\ UNCHANGED <<life, client, joined, link, hello, answer, reaping, faults>>

ReaperSleeps ==
  /\ reaping /\ \A n \in lost : reg[n] = NoSlot
  /\ reaping' = FALSE /\ lost' = {}
  /\ UNCHANGED <<life, client, joined, link, netVars, reg, alive, stale, reqVars, faults>>

\* request(), up to its await.
HostRequest(r, n) ==
  /\ r \notin pending /\ reg[n] # NoSlot
  /\ pending' = pending \cup {r}
  /\ target' = [target EXCEPT ![r] = n] /\ via' = [via EXCEPT ![r] = reg[n]]
  /\ UNCHANGED <<life, client, joined, link, netVars, reg, alive, stale, lost, reaping, faults>>

\* The response arrives, on the connection the request was sent on.
Response(r) ==
  /\ r \in pending /\ client[target[r]] = "up"
  /\ reg[target[r]] = via[r] /\ link[target[r]] = via[r] /\ Delivers(target[r], via[r])
  /\ Settle({r})
  /\ UNCHANGED <<life, client, joined, link, netVars, reg, alive, stale, lost, reaping, faults>>

RequestTimesOut(r) ==
  /\ r \in pending
  /\ Settle({r})
  /\ UNCHANGED <<life, client, joined, link, netVars, reg, alive, stale, lost, reaping, faults>>

\* stop(): the reaper is cancelled and the server closes every connection, as that
\* of WebSockets does; the in-process one leaves it to the disconnections.
StopBegins ==
  /\ life = "up"
  /\ life' = "stopping"
  /\ lost' = {} /\ reaping' = FALSE
  /\ far' = [n \in Nodes |-> [k \in Slots |-> "shut"]]
  /\ near' = [n \in Nodes |-> [k \in Slots |-> Told(near[n][k])]]
  /\ UNCHANGED <<client, joined, link, hello, answer, reg, alive, stale, reqVars, faults>>

StopDisconnects(n) ==
  /\ life = "stopping" /\ reg[n] # NoSlot
  /\ Disconnect(n)
  /\ UNCHANGED <<life, client, joined, link, hello, answer, lost, reaping, faults>>

StopEnds ==
  /\ life = "stopping" /\ \A n \in Nodes : reg[n] = NoSlot
  /\ life' = "stopped"
  /\ Settle(pending)
  /\ UNCHANGED <<client, joined, link, netVars, reg, alive, stale, lost, reaping, faults>>

------------------------------------------------------------------------------
(* The network.                                                              *)

Cut(n, k) ==
  /\ faults < MaxFaults /\ Delivers(n, k)
  /\ faults' = faults + 1
  /\ near' = [near EXCEPT ![n][k] = "cut"] /\ far' = [far EXCEPT ![n][k] = "cut"]
  /\ UNCHANGED <<life, client, joined, link, hello, answer, hostVars>>

\* The operating system of one end gives the connection up; what the other end
\* had sent is lost.
NearGivesUp(n, k) ==
  /\ near[n][k] = "cut"
  /\ near' = [near EXCEPT ![n][k] = "shut"]
  /\ answer' = [answer EXCEPT ![n][k] = "none"]
  /\ UNCHANGED <<life, client, joined, link, far, hello, hostVars, faults>>

FarGivesUp(n, k) ==
  /\ far[n][k] = "cut"
  /\ far' = [far EXCEPT ![n][k] = "shut"]
  /\ UNCHANGED <<life, client, joined, link, near, hello, answer, hostVars, faults>>

------------------------------------------------------------------------------
ClientStep(n) ==
  \/ Connects(n) \/ Welcomed(n) \/ Rejected(n) \/ LinkDrops(n)

Reaper ==
  \/ ReaperSleeps
  \/ \E n \in Nodes : Scan(n) \/ \E S \in SUBSET lost : Reap(n, S)

HostStops == StopEnds \/ \E n \in Nodes : StopDisconnects(n)

Network(n, k) == Cut(n, k) \/ NearGivesUp(n, k) \/ FarGivesUp(n, k)

Next ==
  \/ \E n \in Nodes : \/ ClientStep(n) \/ ClientStops(n) \/ ReadEnds(n) \/ ReadCrashes(n)
                      \/ Heartbeat(n) \/ GrowsStale(n)
                      \/ \E k \in Slots : Handshake(n, k) \/ Network(n, k)
                      \/ \E r \in Requests : HostRequest(r, n)
  \/ \E r \in Requests : Response(r) \/ RequestTimesOut(r)
  \/ Reaper \/ StopBegins \/ HostStops

Spec == Init /\ [][Next]_vars

\* The loops of both sides run, heartbeats that stop become stale, a close()
\* ends (it has a timeout) and the client's system gives a dead connection up.
\* Nothing is assumed of the host's system, of replies or of timeouts.
FairSpec ==
  /\ Spec
  /\ \A n \in Nodes : /\ WF_vars(ClientStep(n)) /\ WF_vars(ReadEnds(n))
                      /\ WF_vars(Heartbeat(n)) /\ WF_vars(GrowsStale(n) /\ ~Healthy(n))
                      /\ \A k \in Slots : /\ WF_vars(NearGivesUp(n, k))
                                         /\ WF_vars(Handshake(n, k))
  /\ WF_vars(Reaper) /\ WF_vars(HostStops)

------------------------------------------------------------------------------
(* Properties.                                                               *)

\* The registry of connections and the membership say the same, except for the
\* names the reaper has struck off the membership and not disconnected yet.
RegistryAgrees ==
  \A n \in Nodes :
    /\ n \in alive => reg[n] # NoSlot
    /\ reg[n] # NoSlot /\ n \notin alive /\ life = "up" => n \in lost

\* A request waits only as long as the very connection it was sent on is the
\* registered one: it is never left to a later connection of the same name,
\* although requests are failed by name.
NoRequestOutlivesItsLink ==
  \A r \in pending : reg[target[r]] = via[r]

\* A request to a client whose connection is dead fails without waiting for its
\* timeout, even if nobody was told that the connection is.
RequestEnds ==
  \A r \in Requests :
    (r \in pending /\ ~Delivers(target[r], via[r])) ~> r \notin pending

Settled(n) == client[n] = "up" /\ n \in alive /\ Healthy(n)

\* When faults have ceased, every client that was not turned away or stopped
\* ends up, for good, with the connection the host has registered for it.
Rejoins ==
  \A n \in Nodes :
    <>[](life = "up" /\ client[n] # "gone" => Settled(n))
==============================================================================
