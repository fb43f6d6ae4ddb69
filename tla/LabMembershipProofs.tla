------------------------ MODULE LabMembershipProofs -------------------------
(***************************************************************************)
(* Theorems about LabMembership for any client names, connections and      *)
(* requests and any number of faults: the registry and the membership      *)
(* agree, and no request waits on a connection that is not the registered  *)
(* one.                                                                    *)
(***************************************************************************)
EXTENDS LabMembership, TLAPS

\* A pending request was sent to a name, on the connection registered for it.
Sent ==
  \A r \in pending : /\ target[r] \in Nodes /\ via[r] \in Slots
                     /\ reg[target[r]] = via[r]

\* A connector at work has a connection.
Linked == \A n \in Nodes : client[n] \in {"hello", "up"} => link[n] \in Slots

Inv == TypeOK /\ RegistryAgrees /\ Sent /\ Linked

------------------------------------------------------------------------------
LEMMA InitInv == Init => Inv
  <1> SUFFICES ASSUME Init PROVE Inv
    OBVIOUS
  <1>1. TypeOK
    <2>1. /\ near \in [Nodes -> [Slots -> Ends]] /\ far \in [Nodes -> [Slots -> Ends]]
          /\ hello \in [Nodes -> SUBSET Slots]
          /\ answer \in [Nodes -> [Slots -> {"none", "welcome", "conflict"}]]
      BY DEF Init, Ends
    <2>2. faults \in 0..MaxFaults
      BY LabAssumption DEF Init
    <2> QED BY <2>1, <2>2 DEF Init, TypeOK
  <1>2. RegistryAgrees /\ Sent /\ Linked
    BY DEF Init, RegistryAgrees, Sent, Linked
  <1> QED BY <1>1, <1>2 DEF Inv

\* Closing a connection, or cutting it, leaves its ends in known conditions.
LEMMA CloseType ==
  ASSUME TypeOK, NEW n \in Nodes, NEW k \in Slots, CloseFar(n, k) \/ CloseNear(n, k)
  PROVE  near' \in [Nodes -> [Slots -> Ends]] /\ far' \in [Nodes -> [Slots -> Ends]]
  <1>1. "shut" \in Ends /\ Told(near[n][k]) \in Ends /\ Told(far[n][k]) \in Ends
    BY DEF TypeOK, Ends, Told
  <1>2. CASE CloseFar(n, k)
    BY <1>1, <1>2 DEF CloseFar, TypeOK
  <1>3. CASE CloseNear(n, k)
    BY <1>1, <1>3 DEF CloseNear, TypeOK
  <1> QED BY <1>2, <1>3

\* Settled requests keep the rest well typed and sent.
LEMMA SettleType ==
  ASSUME TypeOK, NEW R, Settle(R)
  PROVE  /\ pending' \subseteq Requests
         /\ target' \in [Requests -> Nodes \cup {"none"}]
         /\ via' \in [Requests -> Slots \cup {NoSlot}]
         /\ pending' = pending \ R
         /\ \A r \in pending' : target'[r] = target[r] /\ via'[r] = via[r]
  BY DEF TypeOK, Settle

\* The disconnection of a name takes all its requests along.
LEMMA DropInv ==
  ASSUME Inv, NEW n \in Nodes, reg[n] \in Slots, Drop(n)
  PROVE  /\ Sent'
         /\ reg' = [reg EXCEPT ![n] = NoSlot]
         /\ near' \in [Nodes -> [Slots -> Ends]] /\ far' \in [Nodes -> [Slots -> Ends]]
         /\ pending' \subseteq Requests
         /\ target' \in [Requests -> Nodes \cup {"none"}]
         /\ via' \in [Requests -> Slots \cup {NoSlot}]
  <1>1. /\ Settle(Abandoned(n)) /\ CloseFar(n, reg[n])
        /\ reg' = [reg EXCEPT ![n] = NoSlot]
    BY DEF Drop
  <1>2. /\ pending' = pending \ Abandoned(n)
        /\ \A r \in pending' : target'[r] = target[r] /\ via'[r] = via[r]
    BY <1>1, SettleType DEF Inv
  <1>3. Sent'
    BY <1>1, <1>2 DEF Inv, TypeOK, Sent, Abandoned
  <1> QED BY <1>1, <1>3, SettleType, CloseType DEF Inv

\* What the connectors, the heartbeats and the network do leaves the registry,
\* the membership and the requests alone.
LEMMA OutsideInv ==
  ASSUME Inv, TypeOK', Linked', UNCHANGED <<life, reg, alive, lost, reqVars>>
  PROVE  Inv'
  BY DEF Inv, RegistryAgrees, Sent, reqVars

LEMMA ClientInv ==
  ASSUME Inv, NEW n \in Nodes, ClientStep(n) \/ ClientStops(n)
  PROVE  Inv'
  <1> USE DEF Inv
  <1>1. CASE Connects(n)
    <2> DEFINE k == CHOOSE x \in Slots : Free(n, x)
    <2>1. k \in Slots
      BY <1>1 DEF Connects
    <2> HIDE DEF k
    <2>2. /\ client' = [client EXCEPT ![n] = "hello"]
          /\ link' = [link EXCEPT ![n] = k]
          /\ near' = [near EXCEPT ![n][k] = "open"] /\ far' = [far EXCEPT ![n][k] = "open"]
          /\ hello' = [hello EXCEPT ![n] = @ \cup {k}]
          /\ UNCHANGED <<life, joined, answer, hostVars, faults>>
      BY <1>1 DEF Connects, k
    <2>3. TypeOK'
      BY <2>1, <2>2 DEF TypeOK, Ends, hostVars, reqVars
    <2>4. Linked'
      BY <2>1, <2>2 DEF Linked, TypeOK
    <2> QED BY <2>2, <2>3, <2>4, OutsideInv DEF hostVars
  <1>2. CASE Welcomed(n)
    <2>1. TypeOK'
      BY <1>2 DEF Welcomed, TypeOK, hostVars, reqVars
    <2>2. Linked'
      BY <1>2 DEF Welcomed, Linked, TypeOK
    <2> QED BY <1>2, <2>1, <2>2, OutsideInv DEF Welcomed, hostVars
  <1>3. CASE Rejected(n)
    <2>1. near' \in [Nodes -> [Slots -> Ends]] /\ far' \in [Nodes -> [Slots -> Ends]]
      BY <1>3, CloseType DEF Rejected, Linked
    <2>2. TypeOK'
      BY <1>3, <2>1 DEF Rejected, TypeOK, AfterConflict, hostVars, reqVars
    <2>3. Linked'
      BY <1>3 DEF Rejected, AfterConflict, Linked, TypeOK
    <2> QED BY <1>3, <2>2, <2>3, OutsideInv DEF Rejected, hostVars
  <1>4. CASE LinkDrops(n)
    <2>1. TypeOK'
      BY <1>4 DEF LinkDrops, TypeOK, netVars, hostVars, reqVars
    <2>2. Linked'
      BY <1>4 DEF LinkDrops, Linked, TypeOK
    <2> QED BY <1>4, <2>1, <2>2, OutsideInv DEF LinkDrops, hostVars
  <1>5. CASE ClientStops(n)
    <2>1. near' \in [Nodes -> [Slots -> Ends]] /\ far' \in [Nodes -> [Slots -> Ends]]
      <3>1. CASE link[n] = NoSlot
        BY <1>5, <3>1 DEF ClientStops, TypeOK
      <3>2. CASE link[n] # NoSlot
        <4>1. link[n] \in Slots /\ CloseNear(n, link[n])
          BY <1>5, <3>2 DEF ClientStops, TypeOK
        <4> QED BY <4>1, CloseType
      <3> QED BY <3>1, <3>2
    <2>2. answer' \in [Nodes -> [Slots -> {"none", "welcome", "conflict"}]]
      <3>1. CASE link[n] = NoSlot
        BY <1>5, <3>1 DEF ClientStops, TypeOK
      <3>2. CASE link[n] # NoSlot
        <4>1. answer' = [answer EXCEPT ![n][link[n]] = "none"]
          BY <1>5, <3>2 DEF ClientStops
        <4> QED BY <4>1, <3>2 DEF TypeOK
      <3> QED BY <3>1, <3>2
    <2>3. TypeOK'
      BY <1>5, <2>1, <2>2 DEF ClientStops, TypeOK, hostVars, reqVars
    <2>4. Linked'
      BY <1>5 DEF ClientStops, Linked, TypeOK
    <2> QED BY <1>5, <2>3, <2>4, OutsideInv DEF ClientStops, hostVars
  <1> QED BY <1>1, <1>2, <1>3, <1>4, <1>5 DEF ClientStep

\* The other steps leave the connectors where they are.
LEMMA LinkedKept ==
  ASSUME Linked, UNCHANGED <<client, link>>
  PROVE  Linked'
  BY DEF Linked

LEMMA NetworkInv ==
  ASSUME Inv, NEW n \in Nodes,
         Heartbeat(n) \/ GrowsStale(n) \/ \E k \in Slots : Network(n, k)
  PROVE  Inv'
  <1> USE DEF Inv
  <1>1. CASE Heartbeat(n)
    <2>1. TypeOK'
      BY <1>1 DEF Heartbeat, TypeOK, netVars, reqVars
    <2> QED BY <1>1, <2>1, OutsideInv, LinkedKept DEF Heartbeat
  <1>2. CASE GrowsStale(n)
    <2>1. faults' \in 0..MaxFaults
      BY <1>2, LabAssumption DEF GrowsStale, TypeOK
    <2>2. TypeOK'
      BY <1>2, <2>1 DEF GrowsStale, TypeOK, netVars, reqVars
    <2> QED BY <1>2, <2>2, OutsideInv, LinkedKept DEF GrowsStale
  <1>3. CASE \E k \in Slots : Network(n, k)
    <2>1. PICK k \in Slots : Network(n, k)
      BY <1>3
    <2>2. CASE Cut(n, k)
      <3>1. faults' \in 0..MaxFaults
        BY <2>2, LabAssumption DEF Cut, TypeOK
      <3>2. TypeOK'
        BY <2>2, <3>1 DEF Cut, TypeOK, Ends, hostVars, reqVars
      <3> QED BY <2>2, <3>2, OutsideInv, LinkedKept DEF Cut, hostVars
    <2>3. CASE NearGivesUp(n, k)
      <3>1. TypeOK'
        BY <2>3 DEF NearGivesUp, TypeOK, Ends, hostVars, reqVars
      <3> QED BY <2>3, <3>1, OutsideInv, LinkedKept DEF NearGivesUp, hostVars
    <2>4. CASE FarGivesUp(n, k)
      <3>1. TypeOK'
        BY <2>4 DEF FarGivesUp, TypeOK, Ends, hostVars, reqVars
      <3> QED BY <2>4, <3>1, OutsideInv, LinkedKept DEF FarGivesUp, hostVars
    <2> QED BY <2>1, <2>2, <2>3, <2>4 DEF Network
  <1> QED BY <1>1, <1>2, <1>3

LEMMA HandshakeInv ==
  ASSUME Inv, NEW n \in Nodes, NEW k \in Slots, Handshake(n, k)
  PROVE  Inv'
  <1> USE DEF Inv
  <1>1. /\ hello' = [hello EXCEPT ![n] = @ \ {k}]
        /\ UNCHANGED <<life, client, joined, link, lost, reaping, reqVars, faults>>
    BY DEF Handshake
  <1>2. CASE /\ far[n][k] = "shut"
             /\ UNCHANGED <<near, far, answer, reg, alive, stale>>
    <2>1. TypeOK'
      BY <1>1, <1>2 DEF TypeOK, reqVars
    <2> QED BY <1>1, <1>2, <2>1, OutsideInv, LinkedKept
  <1>3. CASE /\ answer' = [answer EXCEPT ![n][k] = "conflict"]
             /\ CloseFar(n, k)
             /\ UNCHANGED <<reg, alive, stale>>
    <2>1. near' \in [Nodes -> [Slots -> Ends]] /\ far' \in [Nodes -> [Slots -> Ends]]
      BY <1>3, CloseType
    <2>2. TypeOK'
      BY <1>1, <1>3, <2>1 DEF TypeOK, reqVars
    <2> QED BY <1>1, <1>3, <2>2, OutsideInv, LinkedKept
  <1>4. CASE /\ reg[n] = NoSlot
             /\ answer' = [answer EXCEPT ![n][k] = "welcome"]
             /\ reg' = [reg EXCEPT ![n] = k]
             /\ alive' = alive \cup {n} /\ stale' = stale \ {n}
             /\ UNCHANGED <<near, far>>
    <2>1. TypeOK'
      BY <1>1, <1>4 DEF TypeOK, reqVars
    <2>2. RegistryAgrees'
      BY <1>1, <1>4, LabAssumption DEF TypeOK, RegistryAgrees
    <2>3. Sent'
      BY <1>1, <1>4, LabAssumption DEF TypeOK, Sent, reqVars
    <2> QED BY <1>1, <2>1, <2>2, <2>3, LinkedKept
  <1> QED BY <1>2, <1>3, <1>4 DEF Handshake

\* The disconnections, each with its own effect on the membership.
LEMMA DisconnectInv ==
  ASSUME Inv, NEW n \in Nodes,
         ReadEnds(n) \/ ReadCrashes(n) \/ StopDisconnects(n) \/ \E S \in SUBSET lost : Reap(n, S)
  PROVE  Inv'
  <1> USE DEF Inv
  <1>1. /\ reg[n] \in Slots
        /\ Drop(n) /\ alive' = alive \ {n} /\ stale' = stale \ {n}
        /\ lost' \subseteq lost /\ reaping' = reaping
        /\ \A m \in lost \ lost' : m = n \/ reg[m] = NoSlot
        /\ UNCHANGED <<life, client, joined, link, hello, answer>>
    BY DEF ReadEnds, ReadCrashes, StopDisconnects, Reap, Disconnect, Leave, TypeOK
  <1>2. faults' \in 0..MaxFaults
    <2>1. CASE ReadCrashes(n)
      BY <2>1, LabAssumption DEF ReadCrashes, TypeOK
    <2>2. CASE ~ReadCrashes(n)
      BY <2>2 DEF ReadEnds, StopDisconnects, Reap, TypeOK
    <2> QED BY <2>1, <2>2
  <1>3. TypeOK'
    BY <1>1, <1>2, DropInv DEF TypeOK
  <1>4. RegistryAgrees'
    BY <1>1, DropInv DEF TypeOK, RegistryAgrees
  <1> QED BY <1>1, <1>3, <1>4, DropInv, LinkedKept

LEMMA ReaperInv ==
  ASSUME Inv, ReaperSleeps \/ \E n \in Nodes : Scan(n)
  PROVE  Inv'
  <1> USE DEF Inv
  <1>1. CASE ReaperSleeps
    <2>1. TypeOK'
      BY <1>1 DEF ReaperSleeps, TypeOK, netVars, reqVars
    <2>2. RegistryAgrees' /\ Sent' /\ Linked'
      BY <1>1 DEF ReaperSleeps, RegistryAgrees, Sent, Linked, reqVars
    <2> QED BY <2>1, <2>2
  <1>2. CASE \E n \in Nodes : Scan(n)
    <2>1. PICK n \in Nodes : Scan(n)
      BY <1>2
    <2>2. Drop(n) /\ reg[n] \in Slots
      BY <2>1 DEF Scan, TypeOK, RegistryAgrees
    <2>3. TypeOK'
      BY <2>1, <2>2, DropInv DEF Scan, TypeOK
    <2>4. RegistryAgrees'
      BY <2>1, <2>2, DropInv DEF Scan, TypeOK, RegistryAgrees
    <2> QED BY <2>1, <2>2, <2>3, <2>4, DropInv, LinkedKept DEF Scan
  <1> QED BY <1>1, <1>2

LEMMA RequestInv ==
  ASSUME Inv, NEW r \in Requests,
         Response(r) \/ RequestTimesOut(r) \/ \E n \in Nodes : HostRequest(r, n)
  PROVE  Inv'
  <1> USE DEF Inv
  <1>1. CASE Response(r) \/ RequestTimesOut(r)
    <2>1. /\ Settle({r})
          /\ UNCHANGED <<life, client, joined, link, netVars, reg, alive, stale, lost,
                         reaping, faults>>
      BY <1>1 DEF Response, RequestTimesOut
    <2>2. TypeOK'
      BY <2>1, SettleType DEF TypeOK, netVars
    <2>3. RegistryAgrees'
      BY <2>1 DEF RegistryAgrees
    <2>4. Sent'
      BY <2>1, SettleType DEF Sent
    <2> QED BY <2>1, <2>2, <2>3, <2>4, LinkedKept
  <1>2. CASE \E n \in Nodes : HostRequest(r, n)
    <2>1. PICK n \in Nodes : HostRequest(r, n)
      BY <1>2
    <2>2. TypeOK'
      BY <2>1 DEF HostRequest, TypeOK, netVars
    <2>3. RegistryAgrees'
      BY <2>1 DEF HostRequest, RegistryAgrees
    <2>4. Sent'
      BY <2>1 DEF HostRequest, Sent, TypeOK
    <2> QED BY <2>1, <2>2, <2>3, <2>4, LinkedKept DEF HostRequest
  <1> QED BY <1>1, <1>2

LEMMA StopInv ==
  ASSUME Inv, StopBegins \/ StopEnds
  PROVE  Inv'
  <1> USE DEF Inv
  <1>1. CASE StopBegins
    <2>1. "shut" \in Ends /\ \A n \in Nodes, k \in Slots : Told(near[n][k]) \in Ends
      BY DEF TypeOK, Ends, Told
    <2>2. near' \in [Nodes -> [Slots -> Ends]] /\ far' \in [Nodes -> [Slots -> Ends]]
      BY <1>1, <2>1 DEF StopBegins, TypeOK
    <2>3. TypeOK'
      BY <1>1, <2>2 DEF StopBegins, TypeOK, reqVars
    <2>4. RegistryAgrees' /\ Sent' /\ Linked'
      BY <1>1 DEF StopBegins, RegistryAgrees, Sent, Linked, reqVars
    <2> QED BY <2>3, <2>4
  <1>2. CASE StopEnds
    <2>1. TypeOK'
      BY <1>2, SettleType DEF StopEnds, TypeOK, netVars
    <2>2. RegistryAgrees' /\ Sent' /\ Linked'
      BY <1>2, SettleType DEF StopEnds, RegistryAgrees, Sent, Linked
    <2> QED BY <2>1, <2>2
  <1> QED BY <1>1, <1>2

LEMMA StepInv == Inv /\ [Next]_vars => Inv'
  <1> SUFFICES ASSUME Inv, [Next]_vars PROVE Inv'
    OBVIOUS
  <1>1. CASE Next
    BY <1>1, ClientInv, NetworkInv, HandshakeInv, DisconnectInv, ReaperInv, RequestInv,
       StopInv DEF Next, Reaper, HostStops
  <1>2. CASE UNCHANGED vars
    <2>1. TypeOK'
      BY <1>2 DEF vars, netVars, hostVars, reqVars, Inv, TypeOK
    <2> QED BY <1>2, <2>1, OutsideInv, LinkedKept DEF vars, hostVars, Inv
  <1> QED BY <1>1, <1>2

LEMMA Invariant == Spec => []Inv
  BY InitInv, StepInv, PTL DEF Spec

------------------------------------------------------------------------------
\* Every reachable state of the Laboratory is well typed: in particular every
\* stale heartbeat is that of a member.
THEOREM TypeCorrect == Spec => []TypeOK
  BY Invariant, PTL DEF Inv

\* _clients and the membership name the same clients, except for those the
\* reaper has struck off and is about to disconnect, for any number of clients.
THEOREM RegistryIsMembership == Spec => []RegistryAgrees
  BY Invariant, PTL DEF Inv

\* A request waits only as long as the connection it was sent on is the one
\* registered for its target: _disconnect_client, which fails requests by name,
\* misses none and leaves none to a later connection of that name.
THEOREM NoRequestLeftBehind == Spec => []NoRequestOutlivesItsLink
  <1>1. Inv => NoRequestOutlivesItsLink
    BY DEF Inv, Sent, NoRequestOutlivesItsLink
  <1> QED BY <1>1, Invariant, PTL
==============================================================================
