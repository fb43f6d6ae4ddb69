------------------------- MODULE DriveTopologyProofs -------------------------
(***************************************************************************)
(* Theorems about DriveTopology for any creatures, callers, recoveries,    *)
(* graph ids and faults.                                                   *)
(***************************************************************************)
EXTENDS DriveTopology, SequenceTheorems, TLAPS

------------------------------------------------------------------------------
(* Plans, queues and drains.                                                 *)

LEMMA PlanOf ==
  ASSUME NEW G \in SUBSET Graphs, NEW p \in [G -> SUBSET Creatures]
  PROVE  p \in Plans /\ DOMAIN p = G
  BY DEF Plans

LEMMA PlanShape ==
  ASSUME NEW p \in Plans
  PROVE  DOMAIN p \subseteq Graphs /\ \A g \in DOMAIN p : p[g] \in SUBSET Creatures
  <1>1. CASE p = NoPlan
    BY <1>1 DEF NoPlan
  <1>2. CASE p # NoPlan
    <2>1. PICK G \in SUBSET Graphs : p \in [G -> SUBSET Creatures]
      BY <1>2 DEF Plans
    <2> QED BY <2>1
  <1> QED BY <1>1, <1>2

LEMMA NoPlanShape == NoPlan \in Plans /\ DOMAIN NoPlan = {}
  BY DEF Plans, NoPlan

LEMMA ReachedShape ==
  ASSUME NEW at \in {"idle", "captured", "next"}, NEW q \in Seq(Entries),
         q = <<>> <=> at \in {"idle", "captured"}
  PROVE  Reached(at, q) \in Drains /\ Consistent(Reached(at, q))
  <1>1. Reached(at, q) \in Drains
    BY NoPlanShape DEF Reached, Drains
  <1>2. Consistent(Reached(at, q))
    BY NoPlanShape DEF Reached, Consistent, Moving
  <1> QED BY <1>1, <1>2

LEMMA IdleShape == Idle \in Drains /\ Consistent(Idle)
  <1>1. <<>> \in Seq(Entries)
    OBVIOUS
  <1> QED BY <1>1, ReachedShape DEF Idle

LEMMA CapturedShape ==
  Reached("captured", <<>>) \in Drains /\ Consistent(Reached("captured", <<>>))
  <1>1. <<>> \in Seq(Entries)
    OBVIOUS
  <1> QED BY <1>1, ReachedShape

LEMMA QueuedShape ==
  ASSUME NEW q \in Seq(Entries)
  PROVE  Queued(q) \in Drains /\ Consistent(Queued(q))
  <1>1. CASE q = <<>>
    BY <1>1, IdleShape DEF Queued
  <1>2. CASE q # <<>>
    BY <1>2, ReachedShape DEF Queued
  <1> QED BY <1>1, <1>2

LEMMA EntryShape ==
  ASSUME TypeOK, NEW k \in Callers, drain[k].queue # <<>>
  PROVE  /\ drain[k] \in Drains /\ Consistent(drain[k])
         /\ Entry(k) \in Entries /\ Tail(drain[k].queue) \in Seq(Entries)
         /\ Entry(k).graph \in Graphs /\ Entry(k).others \subseteq Graphs
  <1>1. drain[k] \in Drains /\ Consistent(drain[k]) /\ drain[k].queue \in Seq(Entries)
    BY DEF TypeOK, Drains
  <1>2. Head(drain[k].queue) \in Entries /\ Tail(drain[k].queue) \in Seq(Entries)
    BY <1>1, HeadTailProperties
  <1> QED BY <1>1, <1>2 DEF Entry, Entries

LEMMA Busy ==
  ASSUME TypeOK, NEW k \in Callers, drain[k].at \notin {"idle", "captured"}
  PROVE  drain[k].queue # <<>> /\ k \in Draining
  BY DEF TypeOK, Consistent, Draining

LEMMA Moved ==
  ASSUME TypeOK, NEW k \in Callers, NEW d, Moves(k, d)
  PROVE  drain'[k] = d /\ \A j \in Callers \ {k} : drain'[j] = drain[j]
  BY DEF TypeOK, Moves

LEMMA MovedShape ==
  ASSUME TypeOK, NEW k \in Callers, NEW d \in Drains, Consistent(d), Moves(k, d)
  PROVE  drain' \in [Callers -> Drains] /\ \A j \in Callers : Consistent(drain'[j])
  <1>1. drain' \in [Callers -> Drains]
    BY DEF TypeOK, Moves
  <1> QED BY <1>1, Moved DEF TypeOK

LEMMA DroppedTyped == \A q : Dropped(q) \subseteq Trouble
  BY DEF Dropped, Trouble

LEMMA LostTyped == \A d : LostWith(d) \subseteq Trouble
  BY DroppedTyped DEF LostWith, Trouble

LEMMA NextShape ==
  ASSUME TypeOK, NEW k \in Callers, drain[k].queue # <<>>
  PROVE  NextEntry(k) \in Drains /\ Consistent(NextEntry(k))
  BY EntryShape, QueuedShape DEF NextEntry

------------------------------------------------------------------------------
(* Type correctness.                                                         *)

DrainsTyped == drain \in [Callers -> Drains] /\ \A k \in Callers : Consistent(drain[k])
RecTyped ==
  /\ rec \in [Recoverers -> [source : {0} \cup Graphs, plan : Plans, todo : SUBSET Graphs]]
  /\ \A r \in Recoverers : rec[r].todo \subseteq DOMAIN rec[r].plan
GraphTyped ==
  graph \in [Creatures -> Graphs] /\ last \in Graphs /\ \A c \in Creatures : graph[c] <= last
StoreTyped ==
  /\ rows \in [Graphs -> SUBSET Creatures]
  /\ managed \subseteq Graphs
  /\ pending \in Seq(Entries)
  /\ intent \in [Graphs -> Plans]
  /\ life \in {"up", "down"} /\ faults \in 0..MaxFaults /\ trouble \subseteq Trouble

LEMMA TypeParts == TypeOK <=> DrainsTyped /\ RecTyped /\ GraphTyped /\ StoreTyped
  BY DEF TypeOK, DrainsTyped, RecTyped, GraphTyped, StoreTyped

LEMMA FaultTyped == TypeOK /\ Fault => faults' \in 0..MaxFaults
  BY TopologyAssumption DEF TypeOK, Fault

LEMMA HitsTyped == \A G : Hits(G) \subseteq Trouble
  BY DEF Hits, Stale, Trouble

LEMMA InitTyped == Init => TypeOK
  <1> SUFFICES ASSUME Init PROVE TypeOK
    OBVIOUS
  <1>1. 1 \in Graphs /\ faults \in 0..MaxFaults
    BY TopologyAssumption DEF Graphs, Init
  <1>2. DrainsTyped
    BY IdleShape DEF Init, DrainsTyped
  <1>3. RecTyped
    BY NoPlanShape DEF Init, RecTyped, NotRecovering
  <1>4. GraphTyped /\ StoreTyped
    BY <1>1, NoPlanShape DEF Init, GraphTyped, StoreTyped
  <1> QED BY <1>2, <1>3, <1>4, TypeParts

LEMMA ChangeTyped == TypeOK /\ Change => TypeOK'
  <1> SUFFICES ASSUME TypeOK, Change PROVE TypeOK'
    OBVIOUS
  <1>1. ASSUME NEW k \in Callers, NEW G, Changes(k, G)
        PROVE  DrainsTyped'
    BY <1>1, MovedShape, CapturedShape DEF Changes, DrainsTyped
  <1>2. ASSUME NEW k \in Callers, NEW g \in Graphs, NEW S \in SUBSET Creatures,
               SplitGraph(k, g, S)
        PROVE  TypeOK'
    <2>1. last + 1 \in Graphs
      BY <1>2, TopologyAssumption DEF TypeOK, SplitGraph, Graphs
    <2>2. [kind |-> "split", graph |-> g, others |-> {last + 1}] \in Entries
      BY <2>1 DEF Entries
    <2>3. pending' \in Seq(Entries)
      BY <1>2, <2>2 DEF TypeOK, SplitGraph
    <2>4. GraphTyped'
      BY <1>2, <2>1 DEF TypeOK, GraphTyped, SplitGraph, Graphs
    <2>5. StoreTyped'
      BY <1>2, <2>3, HitsTyped DEF TypeOK, StoreTyped, SplitGraph
    <2>6. DrainsTyped' /\ RecTyped'
      BY <1>1, <1>2 DEF SplitGraph, TypeOK, RecTyped
    <2> QED BY <2>4, <2>5, <2>6, TypeParts DEF TypeOK, DrainsTyped, RecTyped, GraphTyped, StoreTyped
  <1>3. ASSUME NEW k \in Callers, NEW a \in Graphs, NEW b \in Graphs, MergeGraphs(k, a, b)
        PROVE  TypeOK'
    <2>1. [kind |-> "merge", graph |-> a, others |-> {a, b} \cap managed] \in Entries
      BY DEF Entries
    <2>2. pending' \in Seq(Entries)
      BY <1>3, <2>1 DEF TypeOK, MergeGraphs
    <2>3. GraphTyped'
      BY <1>3 DEF TypeOK, GraphTyped, MergeGraphs, Live
    <2>4. StoreTyped'
      BY <1>3, <2>2, HitsTyped DEF TypeOK, StoreTyped, MergeGraphs
    <2>5. DrainsTyped' /\ RecTyped'
      BY <1>1, <1>3 DEF MergeGraphs, TypeOK, RecTyped
    <2> QED BY <2>3, <2>4, <2>5, TypeParts DEF TypeOK, DrainsTyped, RecTyped, GraphTyped, StoreTyped
  <1>4. CASE \E g \in Graphs : UseManager(g)
    BY <1>4 DEF TypeOK, UseManager
  <1> QED BY <1>2, <1>3, <1>4 DEF Change

LEMMA DrainTyped ==
  ASSUME TypeOK, NEW k \in Callers, Drain(k)
  PROVE  TypeOK'
  <1> USE DEF TypeOK
  <1>a. ASSUME NEW d \in Drains, Consistent(d), Moves(k, d)
        PROVE  drain' \in [Callers -> Drains] /\ \A j \in Callers : Consistent(drain'[j])
    BY <1>a, MovedShape
  <1>b. ASSUME Moves(k, NextEntry(k)), drain[k].queue # <<>>
        PROVE  drain' \in [Callers -> Drains] /\ \A j \in Callers : Consistent(drain'[j])
    BY <1>a, <1>b, NextShape
  <1>c. ASSUME Moves(k, Idle)
        PROVE  drain' \in [Callers -> Drains] /\ \A j \in Callers : Consistent(drain'[j])
    BY <1>a, <1>c, IdleShape
  <1>1. CASE DrainStarts(k)
    BY <1>1, <1>a, QueuedShape DEF DrainStarts, Trouble
  <1>2. CASE ExportFails(k)
    BY <1>2, <1>c, DroppedTyped, FaultTyped DEF ExportFails, DrainRaises
  <1>3. CASE Abandons(k)
    BY <1>3, <1>c, LostTyped, FaultTyped DEF Abandons
  <1>4. ASSUME NEW journal \in {0} \cup Graphs, PlansSplit(k, journal)
        PROVE  TypeOK'
    <2>1. /\ drain[k].queue # <<>> /\ drain[k].at = "next"
          /\ drain[k] \in Drains /\ Consistent(drain[k])
          /\ Entry(k).graph \in Graphs /\ Entry(k).others \subseteq Graphs
      BY <1>4, Busy, EntryShape DEF PlansSplit, Kind
    <2>2. Children(k) \in SUBSET Graphs /\ Children(k) # {}
      BY <1>4, <2>1 DEF PlansSplit, Children
    <2> DEFINE P == [g \in Children(k) |-> Placed(k, g)]
               B == [g \in Children(k) |-> rows[g]]
    <2>3. P \in [Children(k) -> SUBSET Creatures]
      BY <2>1 DEF Placed
    <2>4. B \in [Children(k) -> SUBSET Creatures]
      BY <2>2
    <2>5. P \in Plans /\ B \in Plans /\ DOMAIN P = Children(k) /\ DOMAIN B = Children(k)
      BY <2>2, <2>3, <2>4, PlanOf
    <2> DEFINE d == [drain[k] EXCEPT !.at = "install", !.plan = P, !.journal = journal, !.backup = B]
    <2>6. Moves(k, d) /\ intent' = IF journal # 0 THEN [intent EXCEPT ![journal] = P] ELSE intent
      BY <1>4 DEF PlansSplit
    <2> HIDE DEF P, B
    <2>7. d \in Drains
      BY <2>1, <2>5 DEF Drains, Moving
    <2>8. Consistent(d)
      BY <2>1, <2>2, <2>5 DEF Drains, Consistent, Moving
    <2>9. drain' \in [Callers -> Drains] /\ \A j \in Callers : Consistent(drain'[j])
      BY <1>a, <2>6, <2>7, <2>8
    <2>10. intent' \in [Graphs -> Plans]
      BY <2>5, <2>6
    <2>11. trouble' \subseteq Trouble
      BY <1>4 DEF PlansSplit, Stale, Trouble
    <2> QED BY <1>4, <2>9, <2>10, <2>11 DEF PlansSplit
  <1>5. CASE SkipsSplit(k)
    BY <1>5, <1>b, Busy DEF SkipsSplit, Kind
  <1>6. CASE SplitRaises(k)
    BY <1>6, <1>c, DroppedTyped DEF SplitRaises
  <1>7. CASE Publishes(k)
    <2>1. drain[k] \in Drains /\ Consistent(drain[k]) /\ drain[k].at = "install"
      BY <1>7 DEF Publishes
    <2>2. drain' \in [Callers -> Drains] /\ \A j \in Callers : Consistent(drain'[j])
      BY <1>7, <1>a, <2>1 DEF Publishes, Drains, Consistent, Moving
    <2>3. managed' \subseteq Graphs
      BY <1>7, <2>1, PlanShape DEF Publishes, Drains
    <2> QED BY <1>7, <2>2, <2>3 DEF Publishes
  <1>8. CASE CompletesSplit(k)
    <2>1. drain[k].journal \in {0} \cup Graphs
      BY DEF Drains
    <2>2. intent' \in [Graphs -> Plans]
      BY <1>8, <2>1, NoPlanShape DEF CompletesSplit
    <2> QED BY <1>8, <1>b, <2>2, Busy DEF CompletesSplit
  <1>9. ASSUME NEW g \in Graphs, InstallsChild(k, g) \/ InstallFails(k, g)
        PROVE  TypeOK'
    <2>1. /\ drain[k] \in Drains /\ Consistent(drain[k]) /\ drain[k].at = "install"
          /\ g \in DOMAIN drain[k].plan
      BY <1>9 DEF InstallsChild, InstallFails, IsNext
    <2>2. rows' \in [Graphs -> SUBSET Creatures]
      BY <1>9, <2>1, PlanShape DEF InstallsChild, InstallFails, Drains
    <2>3. PICK at \in {"install", "rollback"} : Moves(k, [drain[k] EXCEPT !.at = at, !.done = @ \cup {g}])
      <3>1. CASE InstallsChild(k, g)
        <4>1. [drain[k] EXCEPT !.done = @ \cup {g}] = [drain[k] EXCEPT !.at = "install", !.done = @ \cup {g}]
          BY <2>1 DEF Drains
        <4> QED BY <3>1, <4>1 DEF InstallsChild
      <3>2. CASE InstallFails(k, g)
        BY <3>2 DEF InstallFails
      <3> QED BY <1>9, <3>1, <3>2
    <2>4. drain' \in [Callers -> Drains] /\ \A j \in Callers : Consistent(drain'[j])
      BY <1>a, <2>1, <2>3 DEF Drains, Consistent, Moving
    <2> QED BY <1>9, <2>2, <2>4, FaultTyped DEF InstallsChild, InstallFails
  <1>10. ASSUME NEW g \in Graphs, RestoresChild(k, g) \/ RestoreFails(k, g)
         PROVE  TypeOK'
    <2>1. /\ drain[k] \in Drains /\ Consistent(drain[k]) /\ drain[k].at = "rollback"
          /\ g \in drain[k].done /\ g \in DOMAIN drain[k].backup
      BY <1>10 DEF RestoresChild, RestoreFails, IsLast, Consistent, Moving
    <2>2. rows' \in [Graphs -> SUBSET Creatures]
      BY <1>10, <2>1, PlanShape DEF RestoresChild, RestoreFails, Drains
    <2>3. Moves(k, [drain[k] EXCEPT !.done = @ \ {g}])
      BY <1>10 DEF RestoresChild, RestoreFails
    <2>4. drain' \in [Callers -> Drains] /\ \A j \in Callers : Consistent(drain'[j])
      BY <1>a, <2>1, <2>3 DEF Drains, Consistent, Moving
    <2>5. trouble' \subseteq Trouble
      BY <1>10 DEF RestoresChild, RestoreFails, Trouble
    <2> QED BY <1>10, <2>2, <2>4, <2>5, FaultTyped DEF RestoresChild, RestoreFails
  <1>11. CASE MergeRaises(k)
    BY <1>11, <1>c, DroppedTyped DEF MergeRaises, DrainRaises
  <1>12. CASE ExportsNothing(k)
    BY <1>12, <1>b, Busy DEF ExportsNothing, Kind
  <1>13. CASE ExportsSources(k)
    <2>1. /\ drain[k].queue # <<>> /\ drain[k].at = "next"
          /\ drain[k] \in Drains /\ Consistent(drain[k])
          /\ Entry(k).graph \in Graphs /\ Entry(k).others \subseteq Graphs
      BY <1>13, Busy, EntryShape DEF ExportsSources, Kind
    <2> DEFINE P == [g \in {Entry(k).graph} |-> Merged(k)]
               d == [drain[k] EXCEPT !.at = "import", !.plan = P]
    <2>2. P \in [{Entry(k).graph} -> SUBSET Creatures]
      BY <2>1 DEF Merged
    <2>3. P \in Plans /\ DOMAIN P = {Entry(k).graph}
      <3>1. {Entry(k).graph} \in SUBSET Graphs
        BY <2>1
      <3> HIDE DEF P
      <3> QED BY <2>2, <3>1, PlanOf
    <2>4. Moves(k, d)
      BY <1>13 DEF ExportsSources
    <2> HIDE DEF P
    <2>5. d \in Drains /\ Consistent(d)
      BY <2>1, <2>3 DEF Drains, Consistent, Moving, Entry
    <2>6. drain' \in [Callers -> Drains] /\ \A j \in Callers : Consistent(drain'[j])
      BY <1>a, <2>4, <2>5
    <2> QED BY <1>13, <2>6 DEF ExportsSources, Stale, Trouble
  <1>14. CASE Imports(k)
    <2>1. /\ drain[k].queue # <<>> /\ drain[k].at = "import"
          /\ drain[k] \in Drains /\ Consistent(drain[k])
          /\ Entry(k).graph \in Graphs /\ Entry(k).graph \in DOMAIN drain[k].plan
      BY <1>14, Busy, EntryShape DEF Imports, Consistent, Entry
    <2>2. rows' \in [Graphs -> SUBSET Creatures]
      BY <1>14, <2>1, PlanShape DEF Imports, Drains
    <2> DEFINE d == [drain[k] EXCEPT !.at = "detach"]
    <2>a. d \in Drains
      BY <2>1 DEF Drains
    <2>b. Consistent(d)
      BY <2>1 DEF Drains, Consistent, Moving
    <2>3. drain' \in [Callers -> Drains] /\ \A j \in Callers : Consistent(drain'[j])
      BY <1>14, <1>a, <2>a, <2>b DEF Imports
    <2> QED BY <1>14, <2>2, <2>3 DEF Imports
  <1>15. CASE ImportFails(k)
    BY <1>15, <1>c, DroppedTyped, FaultTyped DEF ImportFails, DrainRaises
  <1>16. CASE Detaches(k)
    <2>1. Entry(k).graph \in Graphs /\ drain[k].queue # <<>>
      BY <1>16, Busy, EntryShape DEF Detaches
    <2> QED BY <1>16, <2>1, <1>b DEF Detaches
  <1> QED BY <1>1, <1>2, <1>3, <1>4, <1>5, <1>6, <1>7, <1>8, <1>9, <1>10, <1>11, <1>12, <1>13,
             <1>14, <1>15, <1>16 DEF Drain

LEMMA RecoveryTyped == TypeOK /\ Recovery => TypeOK'
  <1> SUFFICES ASSUME TypeOK, Recovery PROVE TypeOK'
    OBVIOUS
  <1> USE DEF TypeOK
  <1>1. CASE Crash
    <2>1. trouble' \subseteq Trouble
      BY <1>1, DroppedTyped, LostTyped DEF Crash
    <2>2. drain' \in [Callers -> Drains] /\ \A j \in Callers : Consistent(drain'[j])
      BY <1>1, IdleShape DEF Crash
    <2>3. rec' = [r \in Recoverers |-> NotRecovering]
      BY <1>1 DEF Crash
    <2>4. RecTyped'
      BY <2>3, NoPlanShape DEF RecTyped, NotRecovering
    <2> QED BY <1>1, <2>1, <2>2, <2>4, FaultTyped DEF Crash, RecTyped
  <1>2. CASE Restarts
    BY <1>2 DEF Restarts, Live
  <1>3. ASSUME NEW r \in Recoverers, RecoveryStops(r) \/ RecoveryCompletes(r)
        PROVE  TypeOK'
    <2>1. rec' = [rec EXCEPT ![r] = NotRecovering]
      BY <1>3 DEF RecoveryStops, RecoveryCompletes
    <2>2. RecTyped'
      BY <2>1, NoPlanShape DEF RecTyped, NotRecovering
    <2>3. intent' \in [Graphs -> Plans]
      BY <1>3, NoPlanShape DEF RecoveryStops, RecoveryCompletes
    <2> QED BY <1>3, <2>2, <2>3 DEF RecoveryStops, RecoveryCompletes, RecTyped
  <1>4. ASSUME NEW r \in Recoverers, NEW g \in Graphs, RecoversIntent(r, g) \/ ReplaysChild(r, g)
        PROVE  TypeOK'
    <2>1. rows' \in [Graphs -> SUBSET Creatures]
      BY <1>4, PlanShape DEF RecoversIntent, ReplaysChild
    <2>2. CASE RecoversIntent(r, g)
      <3>1. DOMAIN intent[g] \subseteq Graphs
        BY PlanShape
      <3>2. RecTyped'
        BY <2>2, <3>1 DEF RecoversIntent, RecTyped
      <3> QED BY <2>1, <2>2, <3>2 DEF RecoversIntent, RecTyped, Trouble
    <2>3. CASE ReplaysChild(r, g)
      <3>1. RecTyped'
        BY <2>3 DEF ReplaysChild, RecTyped
      <3> QED BY <2>1, <2>3, <3>1 DEF ReplaysChild, RecTyped
    <2> QED BY <1>4, <2>2, <2>3
  <1> QED BY <1>1, <1>2, <1>3, <1>4 DEF Recovery

LEMMA NextTyped == TypeOK /\ [Next]_vars => TypeOK'
  <1>1. TypeOK /\ UNCHANGED vars => TypeOK'
    BY DEF vars, TypeOK
  <1> QED BY <1>1, ChangeTyped, DrainTyped, RecoveryTyped DEF Next

\* Every reachable state of the repositories, the journal, the drains and the
\* recoveries is well typed, whatever changes, faults, drains and recoveries come
\* together; a drain that moves rows still has the entry it works on.
THEOREM TypeCorrect == Spec => []TypeOK
  <1> QED BY InitTyped, NextTyped, PTL DEF Spec

------------------------------------------------------------------------------
(* While nothing has been torn, one drain at a time moves rows, and recovery *)
(* and drain take turns.                                                     *)

Good == trouble \cap Torn = {}

Single == \A j, k \in Draining : j = k

\* The graphs a split makes, and those an entry is about.
News(e)  == IF e.kind = "split" THEN e.others ELSE {}
Known(e) == {e.graph} \cup e.others

\* No entry is about a graph that a later entry makes.
InOrder(q)      == \A i, j \in 1..Len(q) : i < j => News(q[j]) \cap Known(q[i]) = {}
Follows(p0, q0) == \A i \in 1..Len(p0), j \in 1..Len(q0) : News(q0[j]) \cap Known(p0[i]) = {}
UpToLast(q)     == \A i \in 1..Len(q) : \A g \in Known(q[i]) : g <= last

Order ==
  /\ InOrder(pending) /\ UpToLast(pending)
  /\ \A k \in Callers : /\ InOrder(drain[k].queue) /\ UpToLast(drain[k].queue)
                        /\ Follows(drain[k].queue, pending)

\* No plan names g, and its repository is empty.
Unnamed(g) ==
  /\ \A s \in Graphs : g \notin DOMAIN intent[s]
  /\ \A r \in Recoverers : g \notin DOMAIN rec[r].plan
  /\ \A k \in Callers : g \notin DOMAIN drain[k].plan
Untouched(g) == rows[g] = {} /\ Unnamed(g)

\* The graphs made by splits that have not been planned, and ids not handed out.
Unmade ==
  {g \in Graphs :
     \/ g > last
     \/ \E j \in 1..Len(pending) : g \in News(pending[j])
     \/ \E k \in Callers : \E j \in 1..Len(drain[k].queue) :
          (j > 1 \/ drain[k].at = "next") /\ g \in News(drain[k].queue[j])}

Fresh == \A g \in Unmade : Untouched(g)

\* A drain that moves rows is alone with its intent.
Exclusive ==
  \A k \in Callers :
    /\ drain[k].at \in Moving =>
         /\ Recovering = {}
         /\ Outstanding = {drain[k].journal} \ {0}
         /\ drain[k].journal # 0 => intent[drain[k].journal] = drain[k].plan
    /\ drain[k].at \in {"import", "detach"} => Recovering = {} /\ Outstanding = {}

\* What a recovery replays is on disk, or has all been replayed by another.
Replays ==
  /\ \A s, t \in Outstanding : s = t
  /\ \A r \in Recovering :
       /\ \A g \in DOMAIN rec[r].plan \ rec[r].todo : rows[g] = rec[r].plan[g]
       /\ IF Outstanding = {} THEN \A g \in DOMAIN rec[r].plan : rows[g] = rec[r].plan[g]
          ELSE rec[r].source \in Outstanding /\ rec[r].plan = intent[rec[r].source]

\* Replacing what is held for the graphs of p0 by the rows of p0 loses no Drive.
Safe(p0, held) ==
  \A c \in Creatures : \/ \E g \in DOMAIN p0 : c \in p0[g]
                       \/ \E g \in Graphs \ DOMAIN p0 : c \in held[g]

\* How far the children of a split are.
Installed(d) ==
  /\ d.at = "install" => /\ Safe(d.plan, rows) /\ Safe(d.backup, rows)
                         /\ \A g \in DOMAIN d.plan :
                              rows[g] = IF g \in d.done THEN d.plan[g] ELSE d.backup[g]
  /\ d.at = "publish" => Safe(d.plan, rows) /\ \A g \in DOMAIN d.plan : rows[g] = d.plan[g]
  /\ d.at = "rollback" /\ d.journal = 0 =>
       Safe(d.backup, rows) /\ \A g \in DOMAIN d.plan \ d.done : rows[g] = d.backup[g]

InPlace == \A c \in Creatures : \E g \in Graphs : c \in rows[g]

Data ==
  /\ \A s \in Outstanding : Safe(intent[s], rows)
  /\ \A k \in Callers : Installed(drain[k])
  /\ (Outstanding = {} /\ \A k \in Callers : drain[k].at \notin {"install", "rollback"}) => InPlace

Sorted == Single /\ Order /\ Fresh
Stored == Exclusive /\ Replays /\ Data
Sound  == Sorted /\ Stored

------------------------------------------------------------------------------
(* The order of the entries, and the graphs nothing has touched yet.         *)

LEMMA Growing == TypeOK /\ [Next]_vars => trouble \subseteq trouble'
  <1> SUFFICES ASSUME TypeOK, [Next]_vars PROVE trouble \subseteq trouble'
    OBVIOUS
  <1>1. CASE UNCHANGED vars
    BY <1>1 DEF vars
  <1>2. CASE Change
    BY <1>2 DEF Change, SplitGraph, MergeGraphs, UseManager
  <1>3. CASE Recovery
    BY <1>3 DEF Recovery, Crash, Restarts, RecoveryStops, RecoveryCompletes, RecoversIntent,
               ReplaysChild
  <1>4. ASSUME NEW k \in Callers, Drain(k)
        PROVE  trouble \subseteq trouble'
    BY <1>4 DEF Drain, DrainStarts, ExportFails, Abandons, PlansSplit, SkipsSplit, SplitRaises,
                Publishes, CompletesSplit, InstallsChild, InstallFails, RestoresChild,
                RestoreFails, MergeRaises, ExportsNothing, ExportsSources, Imports, ImportFails,
                Detaches, DrainRaises
  <1> QED BY <1>1, <1>2, <1>3, <1>4 DEF Next

LEMMA GoodBefore == TypeOK /\ [Next]_vars /\ Good' => Good
  BY Growing DEF Good

LEMMA TailOf ==
  ASSUME NEW q \in Seq(Entries), q # <<>>
  PROVE  /\ Len(Tail(q)) = Len(q) - 1 /\ Len(q) \in Nat
         /\ \A i \in 1..Len(Tail(q)) : i + 1 \in 1..Len(q) /\ Tail(q)[i] = q[i + 1]
  OBVIOUS

LEMMA TailSorted ==
  ASSUME NEW q \in Seq(Entries), q # <<>>
  PROVE  /\ InOrder(q) => InOrder(Tail(q))
         /\ UpToLast(q) => UpToLast(Tail(q))
         /\ \A p0 \in Seq(Entries) : Follows(q, p0) => Follows(Tail(q), p0)
  <1>1. InOrder(q) => InOrder(Tail(q))
    <2> SUFFICES ASSUME InOrder(q), NEW i \in 1..Len(Tail(q)), NEW j \in 1..Len(Tail(q)), i < j
                 PROVE  News(Tail(q)[j]) \cap Known(Tail(q)[i]) = {}
      BY DEF InOrder
    <2>1. /\ i + 1 \in 1..Len(q) /\ j + 1 \in 1..Len(q) /\ i + 1 < j + 1
          /\ Tail(q)[i] = q[i + 1] /\ Tail(q)[j] = q[j + 1]
      BY TailOf
    <2> QED BY <2>1 DEF InOrder
  <1>2. UpToLast(q) => UpToLast(Tail(q))
    BY TailOf DEF UpToLast
  <1>3. \A p0 \in Seq(Entries) : Follows(q, p0) => Follows(Tail(q), p0)
    BY TailOf DEF Follows
  <1> QED BY <1>1, <1>2, <1>3

LEMMA EmptySorted ==
  /\ InOrder(<<>>) /\ UpToLast(<<>>)
  /\ \A p0 : Follows(<<>>, p0) /\ Follows(p0, <<>>)
  BY DEF InOrder, UpToLast, Follows

LEMMA QueuedIs == \A q : /\ Queued(q).queue = q /\ Queued(q).at \in {"idle", "next"}
                         /\ DOMAIN Queued(q).plan = {}
  BY NoPlanShape DEF Queued, Idle, Reached

LEMMA IdleIs == Idle.queue = <<>> /\ Idle.at = "idle" /\ DOMAIN Idle.plan = {}
  BY NoPlanShape DEF Idle, Reached

\* A drain that goes on with its entry, goes to the next, or ends.
Advances(k, d) ==
  \/ d.queue = drain[k].queue /\ d.at # "next"
  \/ drain[k].queue # <<>> /\ d.queue = Tail(drain[k].queue)
  \/ d.queue = <<>>

LEMMA Advance ==
  ASSUME TypeOK, Single, Order, NEW k \in Callers, NEW d, Moves(k, d), Advances(k, d),
         pending' = pending, last' = last
  PROVE  Single' /\ Order' /\ Unmade' \subseteq Unmade
  <1> DEFINE q == drain[k].queue
  <1>1. q \in Seq(Entries) /\ pending \in Seq(Entries)
    BY EntryShape DEF Drains, TypeOK
  <1>a. ASSUME q # <<>>
        PROVE  /\ Len(Tail(q)) = Len(q) - 1 /\ Len(q) \in Nat
               /\ \A i \in 1..Len(Tail(q)) : i + 1 \in 1..Len(q) /\ Tail(q)[i] = q[i + 1]
    BY <1>a, <1>1, TailOf
  <1>2. drain'[k] = d /\ \A j \in Callers \ {k} : drain'[j] = drain[j]
    BY Moved
  <1>3. Single'
    <2>1. Draining' \subseteq Draining
      BY <1>2 DEF Draining, Advances
    <2> QED BY <2>1 DEF Single
  <1>4. InOrder(q) /\ UpToLast(q) /\ Follows(q, pending)
    BY DEF Order
  <1>5. InOrder(d.queue) /\ UpToLast(d.queue) /\ Follows(d.queue, pending)
    <2>1. CASE d.queue = q
      BY <1>4, <2>1
    <2>2. CASE q # <<>> /\ d.queue = Tail(q)
      BY <1>1, <1>4, <2>2, TailSorted
    <2>3. CASE d.queue = <<>>
      BY <2>3, EmptySorted
    <2> QED BY <2>1, <2>2, <2>3 DEF Advances
  <1>6. Order'
    BY <1>2, <1>5 DEF Order, UpToLast, InOrder, Follows
  <1>7. Unmade' \subseteq Unmade
    <2> SUFFICES ASSUME NEW g \in Unmade' PROVE g \in Unmade
      OBVIOUS
    <2>0. g \in Graphs
      BY DEF Unmade
    <2>1. CASE g > last
      BY <2>0, <2>1 DEF Unmade
    <2>2. CASE \E j \in 1..Len(pending) : g \in News(pending[j])
      BY <2>0, <2>2 DEF Unmade
    <2>3. ASSUME NEW j \in Callers, NEW i \in 1..Len(drain'[j].queue),
                 i > 1 \/ drain'[j].at = "next", g \in News(drain'[j].queue[i])
          PROVE  g \in Unmade
      <3>1. CASE j # k
        BY <1>2, <2>0, <2>3, <3>1 DEF Unmade
      <3>2. CASE j = k /\ d.queue = q
        <4>1. CASE d.at # "next"
          BY <1>2, <2>0, <2>3, <3>2, <4>1 DEF Unmade
        <4>2. CASE q # <<>> /\ d.queue = Tail(q)
          <5>1. Len(Tail(q)) = Len(q)
            BY <3>2, <4>2
          <5> QED BY <1>a, <4>2, <5>1
        <4>3. CASE d.queue = <<>>
          BY <1>2, <2>3, <3>2, <4>3
        <4> QED BY <4>1, <4>2, <4>3 DEF Advances
      <3>3. CASE j = k /\ q # <<>> /\ d.queue = Tail(q)
        <4>1. i + 1 \in 1..Len(q) /\ d.queue[i] = q[i + 1] /\ i + 1 > 1
          <5>1. i \in 1..Len(Tail(q))
            BY <1>2, <2>3, <3>3
          <5> QED BY <1>a, <3>3, <5>1
        <4> QED BY <1>2, <2>0, <2>3, <3>3, <4>1 DEF Unmade
      <3>4. CASE j = k /\ d.queue = <<>>
        BY <1>2, <2>3, <3>4
      <3> QED BY <3>1, <3>2, <3>3, <3>4 DEF Advances
    <2>4. \/ g > last
          \/ \E j \in 1..Len(pending) : g \in News(pending[j])
          \/ \E j \in Callers : \E i \in 1..Len(drain'[j].queue) :
               (i > 1 \/ drain'[j].at = "next") /\ g \in News(drain'[j].queue[i])
      BY DEF Unmade
    <2> QED BY <2>1, <2>2, <2>3, <2>4
  <1> QED BY <1>3, <1>6, <1>7

LEMMA FreshKept ==
  ASSUME Fresh, Unmade' \subseteq Unmade, \A g \in Unmade' : Untouched(g) => Untouched(g)'
  PROVE  Fresh'
  BY DEF Fresh

\* Only graphs a plan names are written, and no plan names another one.
LEMMA StillUntouched ==
  ASSUME TypeOK, NEW k \in Callers, NEW d, Moves(k, d), rec' = rec,
         \A s \in Graphs : DOMAIN intent'[s] \subseteq DOMAIN intent[s],
         DOMAIN d.plan \subseteq DOMAIN drain[k].plan,
         \A g \in Graphs : rows'[g] = rows[g] \/ g \in DOMAIN drain[k].plan
  PROVE  \A g \in Graphs : Untouched(g) => Untouched(g)'
  <1> SUFFICES ASSUME NEW g \in Graphs, Untouched(g) PROVE Untouched(g)'
    OBVIOUS
  <1>1. drain'[k] = d /\ \A j \in Callers \ {k} : drain'[j] = drain[j]
    BY Moved
  <1>2. Unnamed(g)'
    BY <1>1 DEF Untouched, Unnamed
  <1>3. rows'[g] = {}
    BY DEF Untouched, Unnamed
  <1> QED BY <1>2, <1>3 DEF Untouched

LEMMA UnmadeGraphs == Unmade \subseteq Graphs /\ Unmade' \subseteq Graphs
  BY DEF Unmade

\* The step of a drain that writes only what it has planned.
LEMMA AdvanceSorted ==
  ASSUME TypeOK, Sorted, NEW k \in Callers, NEW d, Moves(k, d), Advances(k, d),
         UNCHANGED <<pending, last, rec>>,
         \A s \in Graphs : DOMAIN intent'[s] \subseteq DOMAIN intent[s],
         DOMAIN d.plan \subseteq DOMAIN drain[k].plan,
         \A g \in Graphs : rows'[g] = rows[g] \/ g \in DOMAIN drain[k].plan
  PROVE  Sorted'
  <1>1. Single' /\ Order' /\ Unmade' \subseteq Unmade
    BY Advance DEF Sorted
  <1>2. \A g \in Graphs : Untouched(g) => Untouched(g)'
    BY StillUntouched
  <1> QED BY <1>1, <1>2, UnmadeGraphs, FreshKept DEF Sorted

LEMMA AppendSorted ==
  ASSUME TypeOK, NEW q \in Seq(Entries), NEW e \in Entries, \A n \in News(e) : n > last
  PROVE  /\ InOrder(q) /\ UpToLast(q) => InOrder(Append(q, e))
         /\ \A p0 \in Seq(Entries) : Follows(p0, q) /\ UpToLast(p0) => Follows(p0, Append(q, e))
  <1> DEFINE a == Append(q, e)
  <1>1. /\ Len(a) = Len(q) + 1 /\ Len(q) \in Nat /\ a[Len(a)] = e
        /\ \A i \in 1..Len(q) : a[i] = q[i]
    OBVIOUS
  <1>2. ASSUME NEW p0 \in Seq(Entries), UpToLast(p0), NEW i \in 1..Len(p0)
        PROVE  News(e) \cap Known(p0[i]) = {}
    <2> SUFFICES ASSUME NEW n \in News(e), n \in Known(p0[i]) PROVE FALSE
      OBVIOUS
    <2>1. n > last /\ n <= last
      BY <1>2 DEF UpToLast
    <2>2. n \in Graphs /\ last \in Graphs
      BY DEF News, Entries, TypeOK
    <2> QED BY <2>1, <2>2, TopologyAssumption DEF Graphs
  <1> HIDE DEF a
  <1>3. ASSUME InOrder(q), UpToLast(q)
        PROVE  InOrder(a)
    <2> SUFFICES ASSUME NEW i \in 1..Len(a), NEW j \in 1..Len(a), i < j
                 PROVE  News(a[j]) \cap Known(a[i]) = {}
      BY DEF InOrder
    <2>1. i \in 1..Len(q)
      BY <1>1
    <2>2. CASE j = Len(a)
      BY <1>1, <1>2, <1>3, <2>1, <2>2
    <2>3. CASE j # Len(a)
      BY <1>1, <1>3, <2>1, <2>3 DEF InOrder
    <2> QED BY <2>2, <2>3
  <1>4. ASSUME NEW p0 \in Seq(Entries), Follows(p0, q), UpToLast(p0)
        PROVE  Follows(p0, a)
    <2> SUFFICES ASSUME NEW i \in 1..Len(p0), NEW j \in 1..Len(a)
                 PROVE  News(a[j]) \cap Known(p0[i]) = {}
      BY DEF Follows
    <2>1. CASE j = Len(a)
      BY <1>1, <1>2, <1>4, <2>1
    <2>2. CASE j # Len(a)
      <3>1. j \in 1..Len(q) /\ a[j] = q[j]
        BY <1>1, <2>2
      <3> QED BY <1>4, <3>1 DEF Follows
    <2> QED BY <2>1, <2>2
  <1> QED BY <1>3, <1>4 DEF a

\* A change captures an entry whose new graph, if it makes one, is the next id.
LEMMA ChangeSorted ==
  ASSUME TypeOK, TypeOK', Sorted, NEW k \in Callers, NEW G, Changes(k, G),
         UNCHANGED <<rows, intent, rec>>, last' \in {last, last + 1}, last' \in Graphs,
         \/ pending' = pending
         \/ \E e \in Entries :
              /\ pending' = Append(pending, e)
              /\ \A n \in News(e) : n > last
              /\ \A g \in Known(e) : g <= last'
  PROVE  Sorted'
  <1> DEFINE d == Reached("captured", <<>>)
  <1>1. d.queue = <<>> /\ d.at = "captured" /\ DOMAIN d.plan = {}
    BY NoPlanShape DEF Reached
  <1>2. drain'[k] = d /\ \A j \in Callers \ {k} : drain'[j] = drain[j]
    BY Moved DEF Changes
  <1> HIDE DEF d
  <1>3. drain[k].queue = <<>>
    BY DEF Changes, TypeOK, Consistent
  <1>4. \A j \in Callers : drain'[j].queue = drain[j].queue
    BY <1>1, <1>2, <1>3
  <1>5. Single'
    BY <1>4 DEF Sorted, Single, Draining
  <1>6. last \in Nat /\ last' \in Nat /\ last <= last' /\ Graphs \subseteq Nat
    BY TopologyAssumption DEF TypeOK, Graphs
  <1>7. ASSUME NEW q \in Seq(Entries), UpToLast(q)
        PROVE  UpToLast(q)'
    <2> SUFFICES ASSUME NEW i \in 1..Len(q), NEW g \in Known(q[i]) PROVE g <= last'
      BY DEF UpToLast
    <2>1. q[i] \in Entries
      OBVIOUS
    <2>2. g \in Graphs
      BY <2>1 DEF Known, Entries
    <2>3. g <= last
      BY <1>7 DEF UpToLast
    <2> QED BY <1>6, <2>2, <2>3
  <1>8. pending \in Seq(Entries) /\ \A j \in Callers : drain[j].queue \in Seq(Entries)
    BY DEF TypeOK, Drains
  <1>9. Order' /\ Unmade' \subseteq Unmade
    <2>1. \A j \in Callers : InOrder(drain'[j].queue) /\ UpToLast(drain[j].queue)'
      BY <1>4, <1>7, <1>8 DEF Sorted, Order
    <2>2. CASE pending' = pending
      <3>1. Order'
        BY <1>4, <1>7, <1>8, <2>1, <2>2 DEF Sorted, Order, UpToLast, InOrder, Follows
      <3>2. Unmade' \subseteq Unmade
        <4> SUFFICES ASSUME NEW g \in Unmade' PROVE g \in Unmade
          OBVIOUS
        <4>1. g \in Graphs /\ g \in Nat
          BY <1>6 DEF Unmade
        <4>2. CASE g > last'
          BY <1>6, <4>1, <4>2 DEF Unmade
        <4>3. CASE \E j \in 1..Len(pending) : g \in News(pending[j])
          BY <4>1, <4>3 DEF Unmade
        <4>4. ASSUME NEW j \in Callers, NEW i \in 1..Len(drain'[j].queue),
                     i > 1 \/ drain'[j].at = "next", g \in News(drain'[j].queue[i])
              PROVE  g \in Unmade
          BY <1>1, <1>2, <1>3, <4>1, <4>4 DEF Unmade
        <4> QED BY <2>2, <4>2, <4>3, <4>4 DEF Unmade
      <3> QED BY <3>1, <3>2
    <2>3. ASSUME NEW e \in Entries, pending' = Append(pending, e),
                 \A n \in News(e) : n > last, \A g \in Known(e) : g <= last'
          PROVE  Order' /\ Unmade' \subseteq Unmade
      <3>0. /\ Len(pending') = Len(pending) + 1 /\ Len(pending) \in Nat
            /\ pending'[Len(pending')] = e /\ \A i \in 1..Len(pending) : pending'[i] = pending[i]
        BY <1>8, <2>3
      <3>1. InOrder(pending') /\ \A j \in Callers : Follows(drain[j].queue, pending')
        BY <1>8, <2>3, AppendSorted DEF Sorted, Order
      <3>2. UpToLast(pending)'
        <4>1. \A i \in 1..Len(pending) : \A g \in Known(pending[i]) : g <= last'
          BY <1>7, <1>8 DEF Sorted, Order, UpToLast
        <4> SUFFICES ASSUME NEW i \in 1..Len(pending'), NEW g \in Known(pending'[i])
                     PROVE  g <= last'
          BY DEF UpToLast
        <4>2. CASE i \in 1..Len(pending)
          BY <3>0, <4>1, <4>2
        <4>3. CASE i = Len(pending')
          BY <2>3, <3>0, <4>3
        <4> QED BY <3>0, <4>2, <4>3
      <3>3. Order'
        BY <1>4, <2>1, <3>1, <3>2 DEF Sorted, Order, UpToLast, InOrder, Follows
      <3>4. Unmade' \subseteq Unmade
        <4> SUFFICES ASSUME NEW g \in Unmade' PROVE g \in Unmade
          OBVIOUS
        <4>1. g \in Graphs /\ g \in Nat
          BY <1>6 DEF Unmade
        <4>2. CASE g > last'
          BY <1>6, <4>1, <4>2 DEF Unmade
        <4>3. CASE \E j \in 1..Len(pending') : g \in News(pending'[j])
          <5>1. PICK j \in 1..Len(pending') : g \in News(pending'[j])
            BY <4>3
          <5>2. CASE j \in 1..Len(pending)
            BY <3>0, <4>1, <5>1, <5>2 DEF Unmade
          <5>3. CASE j = Len(pending')
            BY <2>3, <3>0, <4>1, <5>1, <5>3 DEF Unmade
          <5> QED BY <3>0, <5>2, <5>3
        <4>4. ASSUME NEW j \in Callers, NEW i \in 1..Len(drain'[j].queue),
                     i > 1 \/ drain'[j].at = "next", g \in News(drain'[j].queue[i])
              PROVE  g \in Unmade
          BY <1>1, <1>2, <1>3, <4>1, <4>4 DEF Unmade
        <4> QED BY <4>2, <4>3, <4>4 DEF Unmade
      <3> QED BY <3>3, <3>4
    <2> QED BY <2>2, <2>3
  <1>10. \A g \in Graphs : Untouched(g) => Untouched(g)'
    BY <1>1, <1>2 DEF Untouched, Unnamed
  <1> QED BY <1>5, <1>9, <1>10, UnmadeGraphs, FreshKept DEF Sorted

LEMMA NextIs ==
  ASSUME NEW k \in Callers
  PROVE  NextEntry(k).queue = Tail(drain[k].queue) /\ DOMAIN NextEntry(k).plan = {}
  BY QueuedIs DEF NextEntry

\* Nothing that is not made yet is known to the entry being applied.
LEMMA PlansSorted ==
  ASSUME TypeOK, Sorted, NEW k \in Callers, drain[k].at = "next",
         NEW d, Moves(k, d), d.queue = drain[k].queue, d.at # "next",
         DOMAIN d.plan \subseteq Known(Entry(k)),
         \A s \in Graphs : DOMAIN intent'[s] \subseteq DOMAIN intent[s] \cup DOMAIN d.plan,
         UNCHANGED <<pending, last, rec, rows>>
  PROVE  Sorted'
  <1> DEFINE q == drain[k].queue
  <1>1. Single' /\ Order' /\ Unmade' \subseteq Unmade
    BY Advance DEF Sorted, Advances
  <1>2. drain'[k] = d /\ \A j \in Callers \ {k} : drain'[j] = drain[j]
    BY Moved
  <1>3. q \in Seq(Entries) /\ q # <<>> /\ Len(q) \in Nat \ {0} /\ Entry(k) = q[1] /\ k \in Draining
    BY Busy, EntryShape DEF Drains, Entry
  <1>4. \A j \in Callers \ {k} : drain[j].queue = <<>>
    BY <1>3 DEF Sorted, Single, Draining
  <1>a. /\ 1 \in 1..Len(q) /\ Known(q[1]) = Known(Entry(k))
        /\ InOrder(q) /\ UpToLast(q) /\ Follows(q, pending)
    BY <1>3 DEF Sorted, Order
  <1>5. ASSUME NEW g \in Unmade'
        PROVE  g \notin Known(Entry(k))
    <2>1. CASE g > last
      <3>1. \A h \in Known(Entry(k)) : h <= last
        BY <1>a DEF UpToLast
      <3>2. g \in Nat /\ last \in Nat
        BY UnmadeGraphs, TopologyAssumption DEF TypeOK, Graphs
      <3> QED BY <2>1, <3>1, <3>2
    <2>2. CASE \E j \in 1..Len(pending) : g \in News(pending[j])
      BY <1>a, <2>2 DEF Follows
    <2>3. ASSUME NEW j \in 1..Len(q), j > 1, g \in News(q[j])
          PROVE  g \notin Known(Entry(k))
      <3> HIDE DEF q
      <3>1. News(q[j]) \cap Known(q[1]) = {}
        BY <1>a, <2>3 DEF InOrder
      <3> QED BY <1>a, <2>3, <3>1
    <2>4. ASSUME NEW j \in Callers, NEW i \in 1..Len(drain'[j].queue),
                 i > 1 \/ drain'[j].at = "next", g \in News(drain'[j].queue[i])
          PROVE  g \notin Known(Entry(k))
      <3>1. j = k
        BY <1>2, <1>4, <2>4
      <3> QED BY <1>2, <2>3, <2>4, <3>1
    <2> QED BY <2>1, <2>2, <2>4 DEF Unmade
  <1>6. ASSUME NEW g \in Unmade', Untouched(g)
        PROVE  Untouched(g)'
    BY <1>2, <1>5, <1>6 DEF Untouched, Unnamed
  <1> QED BY <1>1, <1>6, FreshKept DEF Sorted

LEMMA StartsSorted ==
  ASSUME TypeOK, Sorted, Good', NEW k \in Callers, DrainStarts(k)
  PROVE  Sorted'
  <1> DEFINE d == Queued(pending)
  <1>1. d.queue = pending /\ d.at \in {"idle", "next"} /\ DOMAIN d.plan = {}
    BY QueuedIs
  <1>2. drain'[k] = d /\ \A j \in Callers \ {k} : drain'[j] = drain[j]
    BY Moved DEF DrainStarts
  <1> HIDE DEF d
  <1>3. drain[k].queue = <<>> /\ pending' = <<>>
    BY DEF DrainStarts, TypeOK, Consistent
  <1>4. Single'
    <2>1. CASE pending = <<>>
      BY <1>1, <1>2, <2>1 DEF Sorted, Single, Draining
    <2>2. CASE Draining = {}
      BY <1>2, <2>2 DEF Single, Draining
    <2>3. pending = <<>> \/ Draining = {}
      BY DEF DrainStarts, Good, Torn
    <2> QED BY <2>1, <2>2, <2>3
  <1>5. Order'
    <2>1. InOrder(pending') /\ UpToLast(pending)'
      BY <1>3, EmptySorted DEF InOrder, UpToLast
    <2>2. \A j \in Callers : Follows(drain'[j].queue, pending')
      BY <1>3, EmptySorted
    <2>3. \A j \in Callers : InOrder(drain'[j].queue) /\ UpToLast(drain[j].queue)'
      BY <1>1, <1>2 DEF Sorted, Order, UpToLast, DrainStarts
    <2> QED BY <2>1, <2>2, <2>3 DEF Order, InOrder, Follows
  <1>6. Unmade' \subseteq Unmade
    <2> SUFFICES ASSUME NEW g \in Unmade' PROVE g \in Unmade
      OBVIOUS
    <2>0. g \in Graphs /\ last' = last
      BY DEF Unmade, DrainStarts
    <2>1. CASE g > last
      BY <2>0, <2>1 DEF Unmade
    <2>2. ASSUME NEW j \in Callers, NEW i \in 1..Len(drain'[j].queue),
                 i > 1 \/ drain'[j].at = "next", g \in News(drain'[j].queue[i])
          PROVE  g \in Unmade
      <3>1. CASE j = k
        BY <1>1, <1>2, <2>0, <2>2, <3>1 DEF Unmade
      <3>2. CASE j # k
        BY <1>2, <2>0, <2>2, <3>2 DEF Unmade
      <3> QED BY <3>1, <3>2
    <2>3. \A j \in 1..Len(pending') : FALSE
      BY <1>3
    <2> QED BY <2>0, <2>1, <2>2, <2>3 DEF Unmade
  <1>7. \A g \in Graphs : Untouched(g) => Untouched(g)'
    BY <1>1, <1>2 DEF Untouched, Unnamed, DrainStarts
  <1> QED BY <1>4, <1>5, <1>6, <1>7, UnmadeGraphs, FreshKept DEF Sorted

LEMMA DrainSorted ==
  ASSUME TypeOK, Sorted, Good', NEW k \in Callers, Drain(k)
  PROVE  Sorted'
  <1>a. ASSUME Moves(k, Idle), UNCHANGED <<pending, last, rec, rows, intent>>
        PROVE  Sorted'
    <2>1. Advances(k, Idle) /\ DOMAIN Idle.plan = {}
      BY IdleIs DEF Advances
    <2> QED BY <1>a, <2>1, AdvanceSorted
  <1>b. ASSUME Moves(k, NextEntry(k)), drain[k].queue # <<>>,
               UNCHANGED <<pending, last, rec, rows>>,
               \A s \in Graphs : DOMAIN intent'[s] \subseteq DOMAIN intent[s]
        PROVE  Sorted'
    <2>1. Advances(k, NextEntry(k)) /\ DOMAIN NextEntry(k).plan = {}
      BY <1>b, NextIs DEF Advances
    <2> QED BY <1>b, <2>1, AdvanceSorted
  <1>c. ASSUME NEW d, Moves(k, d), d.queue = drain[k].queue, d.plan = drain[k].plan, d.at # "next",
               UNCHANGED <<pending, last, rec, intent>>,
               \A g \in Graphs : rows'[g] = rows[g] \/ g \in DOMAIN drain[k].plan
        PROVE  Sorted'
    <2>1. Advances(k, d)
      BY <1>c DEF Advances
    <2> QED BY <1>c, <2>1, AdvanceSorted
  <1>d. drain[k] \in Drains /\ Consistent(drain[k])
    BY DEF TypeOK
  <1>1. CASE DrainStarts(k)
    BY <1>1, StartsSorted
  <1>2. CASE ExportFails(k) \/ Abandons(k) \/ SplitRaises(k) \/ MergeRaises(k) \/ ImportFails(k)
    BY <1>2, <1>a DEF ExportFails, Abandons, SplitRaises, MergeRaises, ImportFails, DrainRaises
  <1>3. CASE SkipsSplit(k) \/ ExportsNothing(k) \/ Detaches(k)
    <2>1. drain[k].queue # <<>>
      BY <1>3, Busy DEF SkipsSplit, ExportsNothing, Detaches, Kind
    <2> QED BY <1>3, <1>b, <2>1 DEF SkipsSplit, ExportsNothing, Detaches
  <1>4. CASE CompletesSplit(k)
    <2>1. \A s \in Graphs : DOMAIN intent'[s] \subseteq DOMAIN intent[s]
      BY <1>4, NoPlanShape DEF CompletesSplit, TypeOK
    <2> QED BY <1>4, <1>b, <2>1, Busy DEF CompletesSplit
  <1>5. ASSUME NEW journal \in {0} \cup Graphs, PlansSplit(k, journal)
        PROVE  Sorted'
    <2> DEFINE P == [g \in Children(k) |-> Placed(k, g)]
               B == [g \in Children(k) |-> rows[g]]
               d == [drain[k] EXCEPT !.at = "install", !.plan = P, !.journal = journal, !.backup = B]
    <2>1. DOMAIN P \subseteq Known(Entry(k))
      BY DEF Children, Known
    <2>2. Moves(k, d) /\ intent' = IF journal # 0 THEN [intent EXCEPT ![journal] = P] ELSE intent
      BY <1>5 DEF PlansSplit
    <2>3. drain[k].at = "next" /\ UNCHANGED <<pending, last, rec, rows>>
      BY <1>5 DEF PlansSplit, Kind
    <2> HIDE DEF P, B
    <2>4. d.queue = drain[k].queue /\ d.at = "install" /\ d.plan = P
      BY <1>d DEF Drains
    <2>5. \A s \in Graphs : DOMAIN intent'[s] \subseteq DOMAIN intent[s] \cup DOMAIN P
      BY <2>2 DEF TypeOK
    <2> HIDE DEF d
    <2> QED BY <2>1, <2>2, <2>3, <2>4, <2>5, PlansSorted
  <1>6. CASE ExportsSources(k)
    <2> DEFINE P == [g \in {Entry(k).graph} |-> Merged(k)]
               d == [drain[k] EXCEPT !.at = "import", !.plan = P]
    <2>1. DOMAIN P \subseteq Known(Entry(k))
      BY DEF Known
    <2>2. Moves(k, d)
      BY <1>6 DEF ExportsSources
    <2>3. drain[k].at = "next" /\ UNCHANGED <<pending, last, rec, rows, intent>>
      BY <1>6 DEF ExportsSources, Kind
    <2> HIDE DEF P
    <2>4. d.queue = drain[k].queue /\ d.at = "import" /\ d.plan = P
      BY <1>d DEF Drains
    <2> HIDE DEF d
    <2> QED BY <2>1, <2>2, <2>3, <2>4, PlansSorted
  <1>7. CASE Publishes(k)
    <2> DEFINE d == [drain[k] EXCEPT !.at = "publish"]
    <2>1. d.queue = drain[k].queue /\ d.at = "publish" /\ d.plan = drain[k].plan
      BY <1>d DEF Drains
    <2>2. Moves(k, d) /\ UNCHANGED <<pending, last, rec, intent, rows>>
      BY <1>7 DEF Publishes
    <2> HIDE DEF d
    <2> QED BY <1>c, <2>1, <2>2
  <1>8. CASE Imports(k)
    <2> DEFINE d == [drain[k] EXCEPT !.at = "detach"]
    <2>1. d.queue = drain[k].queue /\ d.at = "detach" /\ d.plan = drain[k].plan
      BY <1>d DEF Drains
    <2>2. Moves(k, d) /\ UNCHANGED <<pending, last, rec, intent>>
      BY <1>8 DEF Imports
    <2>3. \A g \in Graphs : rows'[g] = rows[g] \/ g \in DOMAIN drain[k].plan
      BY <1>8, <1>d DEF Imports, Consistent, Entry, TypeOK
    <2> HIDE DEF d
    <2> QED BY <1>c, <2>1, <2>2, <2>3
  <1>9. ASSUME NEW g \in Graphs,
               InstallsChild(k, g) \/ InstallFails(k, g) \/ RestoresChild(k, g) \/ RestoreFails(k, g)
        PROVE  Sorted'
    <2>1. g \in DOMAIN drain[k].plan
      BY <1>9, <1>d DEF InstallsChild, InstallFails, RestoresChild, RestoreFails, IsNext, IsLast,
                        Consistent
    <2>2. \A h \in Graphs : rows'[h] = rows[h] \/ h \in DOMAIN drain[k].plan
      BY <1>9, <2>1 DEF InstallsChild, InstallFails, RestoresChild, RestoreFails, TypeOK
    <2>3. UNCHANGED <<pending, last, rec, intent>>
      BY <1>9 DEF InstallsChild, InstallFails, RestoresChild, RestoreFails
    <2>4. PICK at \in {"install", "rollback"}, done \in {drain[k].done \cup {g}, drain[k].done \ {g}} :
            Moves(k, [drain[k] EXCEPT !.at = at, !.done = done])
      <3>1. [drain[k] EXCEPT !.done = @ \cup {g}]
              = [drain[k] EXCEPT !.at = drain[k].at, !.done = drain[k].done \cup {g}]
        BY <1>d DEF Drains
      <3>2. [drain[k] EXCEPT !.done = @ \ {g}]
              = [drain[k] EXCEPT !.at = drain[k].at, !.done = drain[k].done \ {g}]
        BY <1>d DEF Drains
      <3> QED BY <1>9, <3>1, <3>2 DEF InstallsChild, InstallFails, RestoresChild, RestoreFails
    <2> DEFINE d == [drain[k] EXCEPT !.at = at, !.done = done]
    <2>5. d.queue = drain[k].queue /\ d.at # "next" /\ d.plan = drain[k].plan
      BY <1>d DEF Drains
    <2> HIDE DEF d
    <2>6. Moves(k, d)
      BY <2>4 DEF d
    <2> QED BY <1>c, <2>2, <2>3, <2>5, <2>6
  <1> QED BY <1>1, <1>2, <1>3, <1>4, <1>5, <1>6, <1>7, <1>8, <1>9 DEF Drain

LEMMA CapturesSorted ==
  ASSUME TypeOK, TypeOK', Sorted, Change
  PROVE  Sorted'
  <1>0. \A c \in Creatures : graph[c] \in Graphs /\ graph[c] <= last
    BY DEF TypeOK
  <1>a. Graphs \subseteq Nat /\ last \in Nat /\ last' \in Graphs
    BY TopologyAssumption DEF Graphs, TypeOK
  <1>1. ASSUME NEW k \in Callers, NEW g \in Graphs, NEW S \in SUBSET Creatures,
               SplitGraph(k, g, S)
        PROVE  Sorted'
    <2> DEFINE e == [kind |-> "split", graph |-> g, others |-> {last + 1}]
    <2>1. last' = last + 1 /\ last + 1 \in Graphs
      BY <1>1, <1>a DEF SplitGraph
    <2>2. e \in Entries
      BY <2>1 DEF Entries
    <2>3. \A n \in News(e) : n > last
      BY <1>a DEF News
    <2>4. PICK c \in Creatures : graph[c] = g
      BY <1>1 DEF SplitGraph, Members
    <2>5. g \in Nat /\ g <= last
      BY <1>0, <1>a, <2>4
    <2>6. \A h \in Known(e) : h <= last'
      BY <1>a, <2>1, <2>5 DEF Known
    <2>7. pending' = pending \/ pending' = Append(pending, e)
      BY <1>1 DEF SplitGraph
    <2>8. Changes(k, {g}) /\ UNCHANGED <<rows, intent, rec>>
      BY <1>1 DEF SplitGraph
    <2> HIDE DEF e
    <2> QED BY <1>a, <2>1, <2>2, <2>3, <2>6, <2>7, <2>8, ChangeSorted
  <1>2. ASSUME NEW k \in Callers, NEW a \in Graphs, NEW b \in Graphs, MergeGraphs(k, a, b)
        PROVE  Sorted'
    <2> DEFINE e == [kind |-> "merge", graph |-> a, others |-> {a, b} \cap managed]
    <2>1. last' = last
      BY <1>2 DEF MergeGraphs
    <2>2. e \in Entries
      BY DEF Entries
    <2>3. News(e) = {}
      BY DEF News
    <2>4. a <= last /\ b <= last
      BY <1>0, <1>2 DEF MergeGraphs, Live
    <2>6. \A h \in Known(e) : h <= last'
      BY <2>1, <2>4 DEF Known
    <2>7. pending' = pending \/ pending' = Append(pending, e)
      BY <1>2 DEF MergeGraphs
    <2>8. Changes(k, {a, b}) /\ UNCHANGED <<rows, intent, rec>>
      BY <1>2 DEF MergeGraphs
    <2> HIDE DEF e
    <2> QED BY <1>a, <2>1, <2>2, <2>3, <2>6, <2>7, <2>8, ChangeSorted
  <1>3. CASE \E g \in Graphs : UseManager(g)
    <2>1. UNCHANGED <<last, pending, drain, rows, intent, rec>>
      BY <1>3 DEF UseManager
    <2>2. Single' /\ Order'
      BY <2>1 DEF Sorted, Single, Draining, Order, InOrder, UpToLast, Follows
    <2>3. Fresh'
      BY <2>1 DEF Sorted, Fresh, Unmade, Untouched, Unnamed
    <2> QED BY <2>2, <2>3 DEF Sorted
  <1> QED BY <1>1, <1>2, <1>3 DEF Change

\* Recovery names only graphs an intent names, and leaves the entries alone.
LEMMA Replayed ==
  ASSUME TypeOK, NEW r \in Recoverers, NEW h \in Graphs, ReplaysChild(r, h)
  PROVE  /\ \A q \in Recoverers : rec'[q].plan = rec[q].plan /\ rec'[q].source = rec[q].source
         /\ \A q \in Recoverers \ {r} : rec'[q] = rec[q]
         /\ rec'[r].todo = rec[r].todo \ {h}
  <1> DEFINE d == [rec[r] EXCEPT !.todo = @ \ {h}]
  <1>1. rec' = [rec EXCEPT ![r] = d]
    BY DEF ReplaysChild
  <1>2. rec[r] \in [source : {0} \cup Graphs, plan : Plans, todo : SUBSET Graphs]
    BY DEF TypeOK
  <1>3. d.plan = rec[r].plan /\ d.source = rec[r].source /\ d.todo = rec[r].todo \ {h}
    BY <1>2
  <1> HIDE DEF d
  <1> QED BY <1>1, <1>3 DEF TypeOK

LEMMA Stopped ==
  ASSUME TypeOK, NEW r \in Recoverers, rec' = [rec EXCEPT ![r] = NotRecovering]
  PROVE  /\ rec'[r].source = 0 /\ DOMAIN rec'[r].plan = {}
         /\ \A j \in Recoverers \ {r} : rec'[j] = rec[j]
  BY NoPlanShape DEF TypeOK, NotRecovering

LEMMA RecoverySorted ==
  ASSUME TypeOK, Sorted, Recovery
  PROVE  Sorted'
  <1>a. ASSUME UNCHANGED <<last, pending, drain>>,
               \A g \in Graphs : Untouched(g) => Untouched(g)'
        PROVE  Sorted'
    <2>1. Single' /\ Order'
      BY <1>a DEF Sorted, Single, Draining, Order, InOrder, UpToLast, Follows
    <2>2. Unmade' \subseteq Unmade
      BY <1>a DEF Unmade
    <2> QED BY <1>a, <2>1, <2>2, FreshKept, UnmadeGraphs DEF Sorted
  <1>1. CASE Crash
    <2>1. /\ \A k \in Callers : drain'[k] = Idle
          /\ \A r \in Recoverers : DOMAIN rec'[r].plan = {}
          /\ pending' = <<>> /\ UNCHANGED <<last, rows, intent>>
      BY <1>1, NoPlanShape DEF Crash, NotRecovering
    <2>2. Single'
      BY <2>1, IdleIs DEF Single, Draining
    <2>3. Order'
      BY <2>1, IdleIs, EmptySorted DEF Order, UpToLast, InOrder, Follows
    <2>4. Unmade' \subseteq Unmade
      BY <2>1, IdleIs DEF Unmade
    <2>5. \A g \in Graphs : Untouched(g) => Untouched(g)'
      BY <2>1, IdleIs DEF Untouched, Unnamed
    <2> QED BY <2>2, <2>3, <2>4, <2>5, FreshKept, UnmadeGraphs DEF Sorted
  <1>2. CASE Restarts
    BY <1>2, <1>a DEF Restarts, Untouched, Unnamed
  <1>3. ASSUME NEW r \in Recoverers, RecoveryStops(r) \/ RecoveryCompletes(r)
        PROVE  Sorted'
    <2>1. /\ \A s \in Graphs : DOMAIN intent'[s] \subseteq DOMAIN intent[s]
          /\ \A q \in Recoverers : DOMAIN rec'[q].plan \subseteq DOMAIN rec[q].plan
          /\ UNCHANGED <<last, pending, drain, rows>>
      <3>1. rec' = [rec EXCEPT ![r] = NotRecovering] /\ UNCHANGED <<last, pending, drain, rows>>
        BY <1>3 DEF RecoveryStops, RecoveryCompletes
      <3>2. \A s \in Graphs : DOMAIN intent'[s] \subseteq DOMAIN intent[s]
        BY <1>3, NoPlanShape DEF RecoveryStops, RecoveryCompletes, TypeOK
      <3>3. \A q \in Recoverers : DOMAIN rec'[q].plan \subseteq DOMAIN rec[q].plan
        BY <3>1, Stopped
      <3> QED BY <3>1, <3>2, <3>3
    <2>2. \A g \in Graphs : Untouched(g) => Untouched(g)'
      BY <2>1 DEF Untouched, Unnamed
    <2> QED BY <1>a, <2>1, <2>2
  <1>4. ASSUME NEW r \in Recoverers, NEW s \in Graphs, RecoversIntent(r, s)
        PROVE  Sorted'
    <2>1. /\ \A q \in Recoverers : rec'[q].plan \in {rec[q].plan, intent[s]}
          /\ UNCHANGED <<last, pending, drain, rows, intent>>
      BY <1>4 DEF RecoversIntent, TypeOK
    <2>2. \A g \in Graphs : Untouched(g) => Untouched(g)'
      BY <2>1 DEF Untouched, Unnamed
    <2> QED BY <1>a, <2>1, <2>2
  <1>5. ASSUME NEW r \in Recoverers, NEW h \in Graphs, ReplaysChild(r, h)
        PROVE  Sorted'
    <2>1. rec' = [rec EXCEPT ![r].todo = @ \ {h}] /\ h \in DOMAIN rec[r].plan
          /\ rows' = [rows EXCEPT ![h] = rec[r].plan[h]]
          /\ UNCHANGED <<last, pending, drain, intent>>
      BY <1>5 DEF ReplaysChild, TypeOK
    <2>2. \A q \in Recoverers : rec'[q].plan = rec[q].plan
      BY <2>1 DEF TypeOK
    <2>3. \A g \in Graphs : Untouched(g) => Untouched(g)'
      BY <2>1, <2>2 DEF Untouched, Unnamed, TypeOK
    <2> QED BY <1>a, <2>1, <2>3
  <1> QED BY <1>1, <1>2, <1>3, <1>4, <1>5 DEF Recovery

------------------------------------------------------------------------------
(* What is stored: the rows, the intents and the plans.                      *)

LEMMA Alone ==
  ASSUME TypeOK, Single, NEW k \in Callers, drain[k].at \notin {"idle", "captured"}
  PROVE  \A j \in Callers \ {k} : drain[j].at \in {"idle", "captured"}
  BY Busy DEF Single, Draining, TypeOK, Consistent

LEMMA Covers ==
  ASSUME NEW p0 \in Plans, Safe(p0, rows), \A g \in DOMAIN p0 : rows[g] = p0[g]
  PROVE  InPlace
  BY PlanShape DEF Safe, InPlace

\* A split that stops before it has touched a child, or once it is undone, has
\* every Drive where it was.
LEMMA Undone ==
  ASSUME TypeOK, Stored, NEW k \in Callers, drain[k].at \in {"install", "rollback"},
         drain[k].done = {}, Outstanding = {}
  PROVE  InPlace
  <1>1. drain[k] \in Drains /\ Consistent(drain[k])
    BY DEF TypeOK
  <1>2. DOMAIN drain[k].backup = DOMAIN drain[k].plan /\ drain[k].backup \in Plans
    BY <1>1 DEF Consistent, Moving, Drains
  <1>3. drain[k].journal = 0
    BY <1>1 DEF Stored, Exclusive, Moving
  <1>4. Safe(drain[k].backup, rows) /\ \A g \in DOMAIN drain[k].plan : rows[g] = drain[k].backup[g]
    BY <1>3 DEF Stored, Data, Installed
  <1> QED BY <1>2, <1>4, Covers

LEMMA CleanStop ==
  ASSUME TypeOK, Stored, NEW k \in Callers, drain[k].at \in {"install", "rollback"},
         "unrecorded" \notin LostWith(drain[k]), Outstanding = {}
  PROVE  InPlace
  <1>1. drain[k].journal = 0
    BY DEF Stored, Exclusive, Moving
  <1>2. drain[k].done = {}
    BY <1>1 DEF LostWith
  <1> QED BY <1>2, Undone

\* A drain that is not moving rows, and has left what is stored alone.
LEMMA Leaves ==
  ASSUME TypeOK, Stored, NEW k \in Callers, NEW d, Moves(k, d), d.at \in {"idle", "captured", "next"},
         UNCHANGED <<rows, intent, rec>>,
         drain[k].at \in {"install", "rollback"} /\ Outstanding = {} => InPlace
  PROVE  Stored'
  <1>1. drain'[k] = d /\ \A j \in Callers \ {k} : drain'[j] = drain[j]
    BY Moved
  <1>2. Outstanding' = Outstanding /\ Recovering' = Recovering
    BY DEF Outstanding, Recovering
  <1>4. Exclusive'
    BY <1>1, <1>2 DEF Stored, Exclusive, Moving
  <1>5. Replays'
    BY <1>2 DEF Stored, Replays
  <1>6. \A j \in Callers : Installed(drain[j])'
    <2> SUFFICES ASSUME NEW j \in Callers PROVE Installed(drain[j])'
      OBVIOUS
    <2>1. CASE j = k
      BY <1>1, <2>1 DEF Installed
    <2>2. CASE j # k
      <3>1. Installed(drain[j]) /\ drain'[j] = drain[j]
        BY <1>1, <2>2 DEF Stored, Data
      <3> QED BY <3>1 DEF Installed
    <2> QED BY <2>1, <2>2
  <1>7. InPlace' <=> InPlace
    BY DEF InPlace
  <1>8. Data'
    BY <1>1, <1>2, <1>6, <1>7 DEF Stored, Data
  <1> QED BY <1>4, <1>5, <1>8 DEF Stored

LEMMA SafeKept ==
  ASSUME NEW p0, NEW R1, NEW R2, Safe(p0, R1), \A g \in Graphs \ DOMAIN p0 : R1[g] \subseteq R2[g]
  PROVE  Safe(p0, R2)
  BY DEF Safe

LEMMA StillStored ==
  ASSUME Stored, UNCHANGED <<rows, intent, rec, drain>>
  PROVE  Stored'
  <1>1. Outstanding' = Outstanding /\ Recovering' = Recovering
    BY DEF Outstanding, Recovering
  <1>2. Exclusive' /\ Replays'
    BY <1>1 DEF Stored, Exclusive, Replays
  <1>3. \A j \in Callers : Installed(drain[j])'
    BY DEF Stored, Data, Installed
  <1>4. InPlace' <=> InPlace
    BY DEF InPlace
  <1>5. Data'
    BY <1>1, <1>3, <1>4 DEF Stored, Data
  <1> QED BY <1>2, <1>5 DEF Stored

LEMMA ChangeStored ==
  ASSUME TypeOK, Stored, Change
  PROVE  Stored'
  <1>1. ASSUME NEW k \in Callers, NEW G, Changes(k, G), UNCHANGED <<rows, intent, rec>>
        PROVE  Stored'
    <2>1. Reached("captured", <<>>).at = "captured"
      BY DEF Reached
    <2> QED BY <1>1, <2>1, Leaves DEF Changes
  <1>2. CASE \E g \in Graphs : UseManager(g)
    BY <1>2, StillStored DEF UseManager
  <1> QED BY <1>1, <1>2 DEF Change, SplitGraph, MergeGraphs

\* Of the drains only that of k moves rows, whatever it does.
LEMMA Alters ==
  ASSUME TypeOK, Single, NEW k \in Callers, NEW d, Moves(k, d), drain[k].at \notin {"idle", "captured"},
         d.at \in Moving => /\ Recovering' = {} /\ Outstanding' = {d.journal} \ {0}
                            /\ d.journal # 0 => intent'[d.journal] = d.plan,
         d.at \in {"import", "detach"} => Recovering' = {} /\ Outstanding' = {},
         Replays', \A s \in Outstanding' : Safe(intent'[s], rows'),
         Installed(drain[k])', Outstanding' = {} /\ d.at \notin {"install", "rollback"} => InPlace'
  PROVE  Stored'
  <1>1. drain'[k] = d /\ \A j \in Callers \ {k} : drain'[j] = drain[j]
    BY Moved
  <1>2. \A j \in Callers \ {k} : drain'[j].at \in {"idle", "captured"}
    BY <1>1, Alone
  <1>3. Exclusive'
    BY <1>1, <1>2 DEF Exclusive, Moving
  <1>4. \A j \in Callers : Installed(drain[j])'
    <2> SUFFICES ASSUME NEW j \in Callers, j # k PROVE Installed(drain[j])'
      OBVIOUS
    <2> QED BY <1>2 DEF Installed
  <1>5. Data'
    BY <1>1, <1>4 DEF Data
  <1> QED BY <1>3, <1>5 DEF Stored

\* With one split at work and no recovery.
LEMMA NoReplays ==
  ASSUME Recovering' = {}, NEW s, Outstanding' \subseteq {s}
  PROVE  Replays'
  BY DEF Replays

------------------------------------------------------------------------------
(* The steps of a drain.                                                     *)

LEMMA PlansStored ==
  ASSUME TypeOK, Sound, Good', NEW k \in Callers, NEW journal \in {0} \cup Graphs,
         PlansSplit(k, journal)
  PROVE  Stored'
  <1> DEFINE P == [g \in Children(k) |-> Placed(k, g)]
             B == [g \in Children(k) |-> rows[g]]
             d == [drain[k] EXCEPT !.at = "install", !.plan = P, !.journal = journal, !.backup = B]
  <1>1. /\ drain[k] \in Drains /\ Consistent(drain[k]) /\ drain[k].at = "next"
        /\ drain[k].queue # <<>> /\ Entry(k).graph \in Graphs /\ Entry(k).others \subseteq Graphs
        /\ Entry(k).kind = "split"
    BY Busy, EntryShape DEF PlansSplit, Kind
  <1>2. Outstanding = {} /\ Recovering = {}
    BY DEF PlansSplit, Good, Stale, Torn
  <1>3. InPlace
    <2>1. \A j \in Callers : drain[j].at \notin {"install", "rollback"}
      BY <1>1, Alone DEF Sound, Sorted
    <2> QED BY <1>2, <2>1 DEF Sound, Stored, Data
  <1>4. \A g \in Entry(k).others : rows[g] = {}
    <2>1. 1 \in 1..Len(drain[k].queue) /\ Entry(k) = drain[k].queue[1]
      BY <1>1 DEF Drains, Entry
    <2>2. \A g \in Entry(k).others : g \in Unmade
      BY <1>1, <2>1 DEF Unmade, News
    <2> QED BY <2>2 DEF Sound, Sorted, Fresh, Untouched
  <1>5. Children(k) # {} /\ Children(k) \subseteq Graphs /\ journal \in {0, Entry(k).graph}
    BY <1>1 DEF PlansSplit, Children
  <1>6. FirstChild(k) \in Children(k)
    BY <1>5 DEF FirstChild, Children
  <1>7. \A c \in rows[Entry(k).graph] : \E g \in Children(k) : c \in Placed(k, g)
    BY <1>6 DEF Placed
  <1>8. DOMAIN P = Children(k) /\ DOMAIN B = Children(k)
        /\ \A g \in Children(k) : P[g] = Placed(k, g) /\ B[g] = rows[g]
    OBVIOUS
  <1>9. /\ Moves(k, d) /\ UNCHANGED <<rows, rec>>
        /\ intent' = IF journal # 0 THEN [intent EXCEPT ![journal] = P] ELSE intent
    BY DEF PlansSplit
  <1> HIDE DEF P, B
  <1>10. Safe(P, rows)
    <2> SUFFICES ASSUME NEW c \in Creatures
                 PROVE  \/ \E g \in DOMAIN P : c \in P[g]
                        \/ \E g \in Graphs \ DOMAIN P : c \in rows[g]
      BY DEF Safe
    <2>1. PICK g \in Graphs : c \in rows[g]
      BY <1>3 DEF InPlace
    <2>2. CASE g \in Children(k)
      <3>1. g = Entry(k).graph
        BY <1>4, <2>1, <2>2 DEF Children
      <3> QED BY <1>7, <1>8, <2>1, <3>1
    <2>3. CASE g \notin Children(k)
      BY <1>8, <2>1, <2>3
    <2> QED BY <2>2, <2>3
  <1>11. Safe(B, rows)
    BY <1>3, <1>8 DEF Safe, InPlace
  <1>12. /\ d.at = "install" /\ d.plan = P /\ d.backup = B /\ d.journal = journal /\ d.done = {}
    BY <1>1 DEF Drains, Consistent
  <1> HIDE DEF d
  <1>13. drain'[k] = d
    BY <1>9, Moved
  <1>14. Recovering' = {}
    BY <1>2, <1>9 DEF Recovering
  <1>15. Outstanding' = {journal} \ {0} /\ (journal # 0 => intent'[journal] = P)
    <2>1. CASE journal = 0
      BY <1>2, <1>9, <2>1 DEF Outstanding
    <2>2. CASE journal # 0
      <3>1. \A g \in Graphs : intent'[g] = IF g = journal THEN P ELSE intent[g]
        BY <1>9, <2>2 DEF TypeOK
      <3>2. \A g \in Graphs : g \in Outstanding' <=> g = journal
        BY <1>2, <1>5, <1>8, <3>1 DEF Outstanding
      <3> QED BY <2>2, <3>1, <3>2 DEF Outstanding
    <2> QED BY <2>1, <2>2
  <1>16. Installed(drain[k])'
    BY <1>8, <1>9, <1>10, <1>11, <1>12, <1>13 DEF Installed
  <1>17. Replays'
    BY <1>14, <1>15, NoReplays
  <1>18. \A s \in Outstanding' : Safe(intent'[s], rows')
    BY <1>9, <1>10, <1>15
  <1> QED BY <1>1, <1>9, <1>12, <1>14, <1>15, <1>16, <1>17, <1>18, Alters DEF Sound, Sorted, Moving

\* A split that goes on with its plan, having changed only rows of its children.
LEMMA MovesOn ==
  ASSUME TypeOK, Sound, NEW k \in Callers, NEW d, Moves(k, d), UNCHANGED <<intent, rec>>,
         drain[k].at \in Moving, d.at \in Moving, d.plan = drain[k].plan, d.journal = drain[k].journal,
         \A g \in Graphs \ DOMAIN drain[k].plan : rows'[g] = rows[g],
         Installed(drain[k])', d.at = "publish" => Safe(d.plan, rows') /\ \A g \in DOMAIN d.plan : rows'[g] = d.plan[g]
  PROVE  Stored'
  <1>1. drain[k] \in Drains /\ drain[k].plan \in Plans /\ drain[k].at \notin {"idle", "captured"}
    BY DEF TypeOK, Drains, Moving
  <1>3. Recovering' = {} /\ Outstanding' = Outstanding /\ Outstanding = {d.journal} \ {0}
    BY DEF Sound, Stored, Exclusive, Recovering, Outstanding
  <1>4. d.journal # 0 => intent'[d.journal] = d.plan
    BY DEF Sound, Stored, Exclusive
  <1>6. \A s \in Outstanding' : Safe(intent'[s], rows')
    <2> SUFFICES ASSUME NEW s \in Outstanding PROVE Safe(intent[s], rows')
      BY <1>3
    <2>1. intent[s] = drain[k].plan /\ Safe(intent[s], rows)
      BY <1>3, <1>4 DEF Sound, Stored, Data
    <2> QED BY <2>1, SafeKept
  <1>7. Outstanding' = {} /\ d.at \notin {"install", "rollback"} => InPlace'
    <2> SUFFICES ASSUME d.at = "publish" PROVE InPlace'
      BY DEF Moving
    <2> QED BY <1>1, PlanShape DEF Safe, InPlace
  <1>8. Replays'
    BY <1>3, NoReplays
  <1>9. Single
    BY DEF Sound, Sorted
  <1>10. d.at \notin {"import", "detach"}
    BY DEF Moving
  <1> QED BY <1>1, <1>3, <1>4, <1>6, <1>7, <1>8, <1>9, <1>10, Alters

LEMMA SplitStored ==
  ASSUME TypeOK, Sound, Good', NEW k \in Callers, NEW g \in Graphs,
         InstallsChild(k, g) \/ InstallFails(k, g) \/ RestoresChild(k, g) \/ RestoreFails(k, g)
  PROVE  Stored'
  <1>1. drain[k] \in Drains /\ Consistent(drain[k]) /\ rows \in [Graphs -> SUBSET Creatures]
    BY DEF TypeOK
  <1>2. drain[k].at \in {"install", "rollback"} /\ drain[k].at \in Moving
    BY DEF InstallsChild, InstallFails, RestoresChild, RestoreFails, Moving
  <1>3. DOMAIN drain[k].backup = DOMAIN drain[k].plan /\ drain[k].done \subseteq DOMAIN drain[k].plan
    BY <1>1, <1>2 DEF Consistent
  <1>4. Installed(drain[k])
    BY DEF Sound, Stored, Data
  <1>5. g \in DOMAIN drain[k].plan
    BY <1>3 DEF InstallsChild, InstallFails, RestoresChild, RestoreFails, IsNext, IsLast
  <1>a. ASSUME NEW d, Moves(k, d), d.at \in {"install", "rollback"}, d.plan = drain[k].plan,
               d.journal = drain[k].journal, Installed(drain[k])'
        PROVE  Stored'
    <2>1. /\ UNCHANGED <<intent, rec>> /\ d.at \in Moving /\ d.at # "publish"
          /\ \A h \in Graphs \ DOMAIN drain[k].plan : rows'[h] = rows[h]
      BY <1>a, <1>1, <1>5 DEF InstallsChild, InstallFails, RestoresChild, RestoreFails, Moving
    <2> QED BY <1>a, <1>2, <2>1, MovesOn
  <1>6. CASE InstallsChild(k, g)
    <2> DEFINE d == [drain[k] EXCEPT !.done = @ \cup {g}]
    <2>1. /\ d.at = "install" /\ d.plan = drain[k].plan /\ d.backup = drain[k].backup
          /\ d.journal = drain[k].journal /\ d.done = drain[k].done \cup {g}
      BY <1>1, <1>6 DEF Drains, InstallsChild
    <2>2. Moves(k, d) /\ drain[k].at = "install" /\ rows' = [rows EXCEPT ![g] = drain[k].plan[g]]
      BY <1>6 DEF InstallsChild
    <2> HIDE DEF d
    <2>3. \A h \in Graphs : rows'[h] = IF h = g THEN drain[k].plan[g] ELSE rows[h]
      BY <1>1, <2>2
    <2>4. Safe(d.plan, rows') /\ Safe(d.backup, rows')
      <3>1. Safe(d.plan, rows) /\ Safe(d.backup, rows)
        BY <1>4, <2>1, <2>2 DEF Installed
      <3>2. /\ \A h \in Graphs \ DOMAIN d.plan : rows[h] \subseteq rows'[h]
            /\ \A h \in Graphs \ DOMAIN d.backup : rows[h] \subseteq rows'[h]
        BY <1>3, <1>5, <2>1, <2>3
      <3> QED BY <3>1, <3>2, SafeKept
    <2>5. DOMAIN drain[k].plan \subseteq Graphs
      BY <1>1, PlanShape DEF Drains
    <2>6. \A h \in DOMAIN d.plan : rows'[h] = IF h \in d.done THEN d.plan[h] ELSE d.backup[h]
      BY <1>4, <2>1, <2>2, <2>3, <2>5 DEF Installed
    <2>7. Installed(drain[k])'
      BY <2>1, <2>2, <2>4, <2>6, Moved DEF Installed
    <2> QED BY <1>a, <2>1, <2>2, <2>7
  <1>7. CASE InstallFails(k, g)
    <2> DEFINE d == [drain[k] EXCEPT !.at = "rollback", !.done = @ \cup {g}]
    <2>1. /\ d.at = "rollback" /\ d.plan = drain[k].plan /\ d.backup = drain[k].backup
          /\ d.journal = drain[k].journal /\ d.done = drain[k].done \cup {g}
      BY <1>1 DEF Drains
    <2>2. Moves(k, d) /\ drain[k].at = "install" /\ rows' = rows
      BY <1>7 DEF InstallFails
    <2> HIDE DEF d
    <2>3. Installed(drain[k])'
      BY <1>4, <2>1, <2>2, Moved DEF Installed
    <2> QED BY <1>a, <2>1, <2>2, <2>3
  <1>8. CASE RestoresChild(k, g)
    <2> DEFINE d == [drain[k] EXCEPT !.done = @ \ {g}]
    <2>1. /\ d.at = "rollback" /\ d.plan = drain[k].plan /\ d.backup = drain[k].backup
          /\ d.journal = drain[k].journal /\ d.done = drain[k].done \ {g}
      BY <1>1, <1>8 DEF Drains, RestoresChild
    <2>2. Moves(k, d) /\ drain[k].at = "rollback" /\ rows' = [rows EXCEPT ![g] = drain[k].backup[g]]
      BY <1>8 DEF RestoresChild
    <2> HIDE DEF d
    <2>3. \A h \in Graphs : rows'[h] = IF h = g THEN drain[k].backup[g] ELSE rows[h]
      BY <1>1, <2>2
    <2>4. drain[k].journal = 0 => Safe(d.backup, rows')
      <3>1. drain[k].journal = 0 => Safe(d.backup, rows)
        BY <1>4, <2>1, <2>2 DEF Installed
      <3>2. \A h \in Graphs \ DOMAIN d.backup : rows[h] \subseteq rows'[h]
        BY <1>3, <1>5, <2>1, <2>3
      <3> QED BY <3>1, <3>2, SafeKept
    <2>5. DOMAIN drain[k].plan \subseteq Graphs
      BY <1>1, PlanShape DEF Drains
    <2>6. drain[k].journal = 0 => \A h \in DOMAIN d.plan \ d.done : rows'[h] = d.backup[h]
      BY <1>4, <2>1, <2>2, <2>3, <2>5 DEF Installed
    <2>7. Installed(drain[k])'
      BY <2>1, <2>2, <2>4, <2>6, Moved DEF Installed
    <2> QED BY <1>a, <2>1, <2>2, <2>7
  <1>9. CASE RestoreFails(k, g)
    <2> DEFINE d == [drain[k] EXCEPT !.done = @ \ {g}]
    <2>1. d.at = "rollback" /\ d.plan = drain[k].plan /\ d.journal = drain[k].journal
      BY <1>1, <1>9 DEF Drains, RestoreFails
    <2>2. Moves(k, d) /\ drain[k].journal # 0
      BY <1>9 DEF RestoreFails, Good, Torn
    <2> HIDE DEF d
    <2>3. Installed(drain[k])'
      BY <2>1, <2>2, Moved DEF Installed
    <2> QED BY <1>a, <2>1, <2>2, <2>3
  <1> QED BY <1>6, <1>7, <1>8, <1>9

LEMMA PublishesStored ==
  ASSUME TypeOK, Sound, NEW k \in Callers, Publishes(k)
  PROVE  Stored'
  <1> DEFINE d == [drain[k] EXCEPT !.at = "publish"]
  <1>1. drain[k] \in Drains /\ drain[k].at = "install" /\ drain[k].done = DOMAIN drain[k].plan
    BY DEF TypeOK, Publishes
  <1>2. d.at = "publish" /\ d.plan = drain[k].plan /\ d.journal = drain[k].journal
    BY <1>1 DEF Drains
  <1>3. Moves(k, d) /\ UNCHANGED <<rows, intent, rec>>
    BY DEF Publishes
  <1> HIDE DEF d
  <1>4. Installed(drain[k])
    BY DEF Sound, Stored, Data
  <1>5. Safe(d.plan, rows') /\ \A g \in DOMAIN d.plan : rows'[g] = d.plan[g]
    BY <1>1, <1>2, <1>3, <1>4 DEF Installed
  <1>6. Installed(drain[k])'
    BY <1>2, <1>3, <1>5, Moved DEF Installed
  <1> QED BY <1>1, <1>2, <1>3, <1>5, <1>6, MovesOn DEF Moving

LEMMA CompletesStored ==
  ASSUME TypeOK, Sound, NEW k \in Callers, CompletesSplit(k)
  PROVE  Stored'
  <1> DEFINE d == NextEntry(k)
  <1>1. drain[k] \in Drains /\ drain[k].at = "publish" /\ drain[k].plan \in Plans
    BY DEF TypeOK, CompletesSplit, Drains
  <1>2. Moves(k, d) /\ UNCHANGED <<rows, rec>> /\ d.at \in {"idle", "next"}
    BY NextIs, QueuedIs DEF CompletesSplit, NextEntry
  <1>3. Recovering = {} /\ Outstanding = {drain[k].journal} \ {0}
    BY <1>1 DEF Sound, Stored, Exclusive, Moving
  <1>4. InPlace
    BY <1>1, Covers DEF Sound, Stored, Data, Installed
  <1>5. Outstanding' = {} /\ Recovering' = {}
    <2>1. \A g \in Graphs : intent'[g] = IF g = drain[k].journal THEN NoPlan ELSE intent[g]
      BY TopologyAssumption DEF CompletesSplit, TypeOK, Graphs
    <2>2. \A g \in Graphs : DOMAIN intent'[g] = {}
      BY <1>3, <2>1, NoPlanShape DEF Outstanding
    <2> QED BY <1>2, <1>3, <2>2 DEF Outstanding, Recovering
  <1> HIDE DEF d
  <1>6. Installed(drain[k])'
    BY <1>2, Moved DEF Installed
  <1>7. InPlace'
    BY <1>2, <1>4 DEF InPlace
  <1>8. Replays'
    BY <1>5, NoReplays
  <1>9. Single /\ d.at \notin Moving /\ d.at \notin {"import", "detach"}
    BY <1>2 DEF Sound, Sorted, Moving
  <1> QED BY <1>1, <1>2, <1>5, <1>6, <1>7, <1>8, <1>9, Alters

LEMMA MergeStored ==
  ASSUME TypeOK, Sound, Good', NEW k \in Callers, ExportsSources(k) \/ Imports(k)
  PROVE  Stored'
  <1>1. /\ drain[k] \in Drains /\ drain[k].at \in {"next", "import"}
        /\ drain[k].at \notin {"idle", "captured"} /\ rows \in [Graphs -> SUBSET Creatures]
    BY DEF TypeOK, ExportsSources, Imports, Kind
  <1>2. Outstanding = {} /\ Recovering = {} /\ UNCHANGED <<intent, rec>>
    <2>1. CASE ExportsSources(k)
      BY <2>1 DEF ExportsSources, Good, Stale, Torn
    <2>2. CASE Imports(k)
      BY <2>2 DEF Imports, Sound, Stored, Exclusive
    <2> QED BY <2>1, <2>2
  <1>3. InPlace
    <2>1. \A j \in Callers : drain[j].at \notin {"install", "rollback"}
      BY <1>1, Alone DEF Sound, Sorted
    <2> QED BY <1>2, <2>1 DEF Sound, Stored, Data
  <1>4. \A g \in Graphs : rows[g] \subseteq rows'[g]
    BY <1>1 DEF ExportsSources, Imports
  <1>5. PICK d : Moves(k, d) /\ d.at \in {"import", "detach"}
    <2>1. CASE ExportsSources(k)
      <3> DEFINE P == [g \in {Entry(k).graph} |-> Merged(k)]
                 e == [drain[k] EXCEPT !.at = "import", !.plan = P]
      <3>1. Moves(k, e)
        BY <2>1 DEF ExportsSources
      <3> HIDE DEF P
      <3>2. e.at = "import"
        BY <1>1 DEF Drains
      <3> HIDE DEF e
      <3> QED BY <3>1, <3>2
    <2>2. CASE Imports(k)
      <3> DEFINE e == [drain[k] EXCEPT !.at = "detach"]
      <3>1. Moves(k, e)
        BY <2>2 DEF Imports
      <3>2. e.at = "detach"
        BY <1>1 DEF Drains
      <3> HIDE DEF e
      <3> QED BY <3>1, <3>2
    <2> QED BY <2>1, <2>2
  <1>6. Outstanding' = {} /\ Recovering' = {}
    BY <1>2 DEF Outstanding, Recovering
  <1>7. Installed(drain[k])'
    BY <1>5, Moved DEF Installed
  <1>8. InPlace'
    BY <1>3, <1>4 DEF InPlace
  <1>9. Replays'
    BY <1>6, NoReplays
  <1>10. Single /\ d.at \notin Moving
    BY <1>5 DEF Sound, Sorted, Moving
  <1> QED BY <1>1, <1>5, <1>6, <1>7, <1>8, <1>9, <1>10, Alters

LEMMA DrainStored ==
  ASSUME TypeOK, Sound, Good', NEW k \in Callers, Drain(k)
  PROVE  Stored'
  <1>0. Stored
    BY DEF Sound
  <1>a. ASSUME Moves(k, Idle), UNCHANGED <<rows, intent, rec>>,
               drain[k].at \in {"install", "rollback"} /\ Outstanding = {} => InPlace
        PROVE  Stored'
    BY <1>0, <1>a, IdleIs, Leaves
  <1>b. ASSUME Moves(k, NextEntry(k)), UNCHANGED <<rows, intent, rec>>,
               drain[k].at \in {"next", "detach"}
        PROVE  Stored'
    <2>1. NextEntry(k).at \in {"idle", "next"}
      BY QueuedIs DEF NextEntry
    <2> QED BY <1>0, <1>b, <2>1, Leaves
  <1>1. CASE DrainStarts(k)
    <2>1. Queued(pending).at \in {"idle", "next"}
      BY QueuedIs
    <2>2. Moves(k, Queued(pending)) /\ UNCHANGED <<rows, intent, rec>> /\ drain[k].at = "captured"
      BY <1>1 DEF DrainStarts
    <2> QED BY <1>0, <2>1, <2>2, Leaves
  <1>2. CASE ExportFails(k) \/ MergeRaises(k) \/ ImportFails(k)
    BY <1>2, <1>a DEF ExportFails, MergeRaises, ImportFails, DrainRaises, Kind
  <1>3. CASE SplitRaises(k)
    BY <1>0, <1>3, <1>a, Undone DEF SplitRaises
  <1>4. CASE Abandons(k)
    <2>1. "unrecorded" \notin LostWith(drain[k])
      BY <1>4 DEF Abandons, Good, Torn
    <2> QED BY <1>0, <1>4, <2>1, <1>a, CleanStop DEF Abandons
  <1>5. CASE SkipsSplit(k) \/ ExportsNothing(k) \/ Detaches(k)
    BY <1>5, <1>b DEF SkipsSplit, ExportsNothing, Detaches, Kind
  <1> QED BY <1>1, <1>2, <1>3, <1>4, <1>5, PlansStored, SplitStored, PublishesStored, CompletesStored,
             MergeStored DEF Drain

------------------------------------------------------------------------------
(* Crash and recovery.                                                       *)

LEMMA CrashStored ==
  ASSUME TypeOK, Stored, Good', Crash
  PROVE  Stored'
  <1>1. /\ \A k \in Callers : drain'[k] = Idle
        /\ rec' = [r \in Recoverers |-> NotRecovering] /\ UNCHANGED <<rows, intent>>
    BY DEF Crash
  <1>2. Outstanding' = Outstanding /\ Recovering' = {}
    BY <1>1 DEF Outstanding, Recovering, NotRecovering
  <1>3. Exclusive' /\ Replays'
    BY <1>1, <1>2, IdleIs DEF Stored, Exclusive, Replays, Moving
  <1>4. \A k \in Callers : Installed(drain[k])'
    BY <1>1, IdleIs DEF Installed
  <1>5. Outstanding = {} => InPlace
    <2> SUFFICES ASSUME Outstanding = {} PROVE InPlace
      OBVIOUS
    <2>1. CASE \E k \in Callers : drain[k].at \in {"install", "rollback"}
      <3>1. PICK k \in Callers : drain[k].at \in {"install", "rollback"}
        BY <2>1
      <3>2. "unrecorded" \notin LostWith(drain[k])
        BY DEF Crash, Good, Torn
      <3> QED BY <3>1, <3>2, CleanStop
    <2>2. CASE \A k \in Callers : drain[k].at \notin {"install", "rollback"}
      BY <2>2 DEF Stored, Data
    <2> QED BY <2>1, <2>2
  <1>6. Data'
    BY <1>1, <1>2, <1>4, <1>5 DEF Stored, Data, InPlace
  <1> QED BY <1>3, <1>6 DEF Stored

LEMMA StopsStored ==
  ASSUME TypeOK, Stored, NEW r \in Recoverers, RecoveryStops(r)
  PROVE  Stored'
  <1>1. UNCHANGED <<rows, intent, drain>> /\ rec' = [rec EXCEPT ![r] = NotRecovering]
    BY DEF RecoveryStops
  <1>2. /\ Outstanding' = Outstanding /\ Recovering' \subseteq Recovering
        /\ \A q \in Recovering' : rec'[q] = rec[q]
    BY <1>1, Stopped DEF Outstanding, Recovering
  <1>3. Exclusive'
    BY <1>1, <1>2 DEF Stored, Exclusive
  <1>4. Replays'
    BY <1>1, <1>2 DEF Stored, Replays
  <1>5. \A k \in Callers : Installed(drain[k])'
    BY <1>1 DEF Stored, Data, Installed
  <1>6. Data'
    BY <1>1, <1>2, <1>5 DEF Stored, Data, InPlace
  <1> QED BY <1>3, <1>4, <1>6 DEF Stored

\* No drain that moves rows is running: nothing they rely on is disturbed.
LEMMA Idles ==
  ASSUME TypeOK, Stored, UNCHANGED drain,
         \A k \in Callers : drain[k].at \notin Moving \cup {"import", "detach"},
         Replays', \A s \in Outstanding' : Safe(intent'[s], rows'), Outstanding' = {} => InPlace'
  PROVE  Stored'
  <1>1. Exclusive'
    BY DEF Exclusive
  <1>2. \A k \in Callers : Installed(drain[k])'
    BY DEF Installed, Moving
  <1>3. Data'
    BY <1>2 DEF Data
  <1> QED BY <1>1, <1>3 DEF Stored

LEMMA RecoversStored ==
  ASSUME TypeOK, Stored, Good', NEW r \in Recoverers, NEW s \in Graphs, RecoversIntent(r, s)
  PROVE  Stored'
  <1> DEFINE n == [source |-> s, plan |-> intent[s], todo |-> DOMAIN intent[s]]
  <1>1. /\ s \in Outstanding /\ rec' = [rec EXCEPT ![r] = n]
        /\ UNCHANGED <<rows, intent, drain>>
    BY DEF RecoversIntent
  <1>2. rec'[r] = n /\ \A q \in Recoverers \ {r} : rec'[q] = rec[q]
    BY <1>1 DEF TypeOK
  <1>3. n.source = s /\ n.plan = intent[s] /\ n.todo = DOMAIN intent[s]
    OBVIOUS
  <1> HIDE DEF n
  <1>4. \A k \in Draining : drain[k].journal # s
    BY DEF RecoversIntent, Good, Torn
  <1>5. \A k \in Callers : drain[k].at \notin Moving \cup {"import", "detach"}
    <2> SUFFICES ASSUME NEW k \in Callers, drain[k].at \in Moving \cup {"import", "detach"}
                 PROVE  FALSE
      OBVIOUS
    <2>1. k \in Draining
      BY Busy DEF Moving
    <2> QED BY <1>1, <1>4, <2>1 DEF Stored, Exclusive
  <1>6. Outstanding' = Outstanding
    BY <1>1 DEF Outstanding
  <1>7. Replays'
    <2> SUFFICES ASSUME NEW q \in Recovering'
                 PROVE  /\ \A g \in DOMAIN rec'[q].plan \ rec'[q].todo : rows[g] = rec'[q].plan[g]
                        /\ rec'[q].source \in Outstanding /\ rec'[q].plan = intent[rec'[q].source]
      BY <1>1, <1>6 DEF Stored, Replays
    <2>1. CASE q = r
      BY <1>1, <1>2, <1>3, <2>1
    <2>2. CASE q # r
      <3>1. q \in Recovering /\ rec'[q] = rec[q]
        BY <1>2, <2>2 DEF Recovering
      <3> QED BY <1>1, <3>1 DEF Stored, Replays
    <2> QED BY <2>1, <2>2
  <1>8. \A t \in Outstanding' : Safe(intent'[t], rows')
    BY <1>1, <1>6 DEF Stored, Data
  <1> QED BY <1>1, <1>5, <1>6, <1>7, <1>8, Idles

LEMMA ReplaysStored ==
  ASSUME TypeOK, Stored, NEW r \in Recoverers, NEW h \in Graphs, ReplaysChild(r, h)
  PROVE  Stored'
  <1>1. /\ r \in Recovering /\ h \in rec[r].todo /\ h \in DOMAIN rec[r].plan
        /\ rows' = [rows EXCEPT ![h] = rec[r].plan[h]] /\ UNCHANGED <<intent, drain>>
    BY DEF ReplaysChild, Recovering, TypeOK
  <1>2. \A g \in Graphs : rows'[g] = IF g = h THEN rec[r].plan[h] ELSE rows[g]
    BY <1>1 DEF TypeOK
  <1>3. \A k \in Callers : drain[k].at \notin Moving \cup {"import", "detach"}
    BY <1>1 DEF Stored, Exclusive
  <1>4. /\ Outstanding' = Outstanding /\ Recovering' = Recovering
        /\ \A q \in Recoverers : rec'[q].plan = rec[q].plan /\ rec'[q].source = rec[q].source
        /\ \A q \in Recoverers \ {r} : rec'[q].todo = rec[q].todo
        /\ rec'[r].todo = rec[r].todo \ {h}
    <2>1. /\ \A q \in Recoverers : rec'[q].plan = rec[q].plan /\ rec'[q].source = rec[q].source
          /\ \A q \in Recoverers \ {r} : rec'[q] = rec[q]
          /\ rec'[r].todo = rec[r].todo \ {h}
      BY Replayed, Zenon
    <2>2. Outstanding' = Outstanding
      BY <1>1 DEF Outstanding
    <2>3. Recovering' = Recovering
      BY <2>1 DEF Recovering
    <2> QED BY <2>1, <2>2, <2>3
  <1>5. \A q \in Recovering : rec[q].plan \in Plans /\ DOMAIN rec[q].plan \subseteq Graphs
    BY PlanShape DEF Recovering, TypeOK
  <1>6. CASE Outstanding = {}
    <2>1. \A q \in Recovering : \A g \in DOMAIN rec[q].plan : rows[g] = rec[q].plan[g]
      BY <1>6 DEF Stored, Replays
    <2>2. \A g \in Graphs : rows'[g] = rows[g]
      BY <1>1, <1>2, <2>1
    <2>3. \A q \in Recovering' : \A g \in DOMAIN rec'[q].plan : rows'[g] = rec'[q].plan[g]
      <3> SUFFICES ASSUME NEW q \in Recovering, NEW g \in DOMAIN rec[q].plan
                   PROVE  rows'[g] = rec[q].plan[g]
        BY <1>4 DEF Recovering
      <3> QED BY <1>5, <2>1, <2>2
    <2>4. Replays'
      BY <1>4, <1>6, <2>3 DEF Replays
    <2>5. InPlace
      BY <1>3, <1>6 DEF Stored, Data, Moving
    <2>6. InPlace'
      BY <2>2, <2>5 DEF InPlace
    <2> QED BY <1>1, <1>3, <1>4, <1>6, <2>4, <2>6, Idles
  <1>7. CASE Outstanding # {}
    <2>1. \A q \in Recovering : rec[q].source \in Outstanding /\ rec[q].plan = intent[rec[q].source]
      BY <1>7 DEF Stored, Replays
    <2>2. \A s \in Outstanding : s = rec[r].source /\ intent[s] = rec[r].plan
      BY <1>1, <2>1 DEF Stored, Replays
    <2>3. \A q \in Recovering : rec[q].plan = rec[r].plan
      BY <2>1, <2>2
    <2>4. \A q \in Recovering : \A g \in DOMAIN rec[q].plan \ rec'[q].todo : rows'[g] = rec[q].plan[g]
      <3> SUFFICES ASSUME NEW q \in Recovering, NEW g \in DOMAIN rec[q].plan \ rec'[q].todo
                   PROVE  rows'[g] = rec[q].plan[g]
        OBVIOUS
      <3>1. g \in Graphs
        BY <1>5
      <3>2. CASE g = h
        BY <1>2, <2>3, <3>1, <3>2
      <3>3. CASE g # h
        <4>1. g \notin rec[q].todo
          BY <1>4, <3>3 DEF Recovering
        <4>2. rows[g] = rec[q].plan[g]
          BY <4>1 DEF Stored, Replays
        <4> QED BY <1>2, <3>1, <3>3, <4>2
      <3> QED BY <3>2, <3>3
    <2>5. Replays'
      <3>1. \A q \in Recovering' : \A g \in DOMAIN rec'[q].plan \ rec'[q].todo : rows'[g] = rec'[q].plan[g]
        <4> SUFFICES ASSUME NEW q \in Recovering, NEW g \in DOMAIN rec[q].plan \ rec'[q].todo
                     PROVE  rows'[g] = rec[q].plan[g]
          BY <1>4 DEF Recovering
        <4> QED BY <2>4
      <3>2. \A q \in Recovering' : rec'[q].source \in Outstanding' /\ rec'[q].plan = intent'[rec'[q].source]
        <4> SUFFICES ASSUME NEW q \in Recovering
                     PROVE  rec[q].source \in Outstanding /\ rec[q].plan = intent[rec[q].source]
          BY <1>1, <1>4 DEF Recovering
        <4> QED BY <2>1
      <3>3. \A s, t \in Outstanding' : s = t
        BY <1>4 DEF Stored, Replays
      <3> QED BY <1>4, <1>7, <3>1, <3>2, <3>3 DEF Replays
    <2>6. \A s \in Outstanding' : Safe(intent'[s], rows')
      <3> SUFFICES ASSUME NEW s \in Outstanding PROVE Safe(intent[s], rows')
        BY <1>1, <1>4
      <3>1. Safe(intent[s], rows)
        BY DEF Stored, Data
      <3>2. \A g \in Graphs \ DOMAIN intent[s] : rows[g] \subseteq rows'[g]
        BY <1>1, <1>2, <2>2
      <3> QED BY <3>1, <3>2, SafeKept
    <2> QED BY <1>1, <1>3, <1>4, <1>7, <2>5, <2>6, Idles
  <1> QED BY <1>6, <1>7

LEMMA RecoveredStored ==
  ASSUME TypeOK, Stored, NEW r \in Recoverers, RecoveryCompletes(r)
  PROVE  Stored'
  <1> DEFINE s == rec[r].source
  <1>1. /\ r \in Recovering /\ rec[r].todo = {} /\ rec[r].plan \in Plans /\ s \in Graphs
        /\ UNCHANGED <<rows, drain>> /\ rec' = [rec EXCEPT ![r] = NotRecovering]
    BY DEF RecoveryCompletes, Recovering, TypeOK
  <1>2. \A g \in Graphs : intent'[g] = IF g = s THEN NoPlan ELSE intent[g]
    BY <1>1 DEF RecoveryCompletes, TypeOK
  <1>3. \A k \in Callers : drain[k].at \notin Moving \cup {"import", "detach"}
    BY <1>1 DEF Stored, Exclusive
  <1>4. \A q \in Recovering' : q \in Recovering /\ rec'[q] = rec[q]
    BY <1>1, Stopped DEF Recovering
  <1>5. \A g \in DOMAIN rec[r].plan : rows[g] = rec[r].plan[g]
    BY <1>1 DEF Stored, Replays
  <1>6. Outstanding # {} => /\ Outstanding = {s}
                           /\ \A q \in Recovering : rec[q].plan = intent[s]
    BY <1>1 DEF Stored, Replays
  <1>7. Outstanding' = {}
    BY <1>2, <1>6, NoPlanShape DEF Outstanding
  <1>8. \A q \in Recovering : \A g \in DOMAIN rec[q].plan : rows[g] = rec[q].plan[g]
    <2>1. CASE Outstanding = {}
      BY <2>1 DEF Stored, Replays
    <2>2. CASE Outstanding # {}
      BY <1>1, <1>5, <1>6, <2>2
    <2> QED BY <2>1, <2>2
  <1>9. Replays'
    BY <1>1, <1>4, <1>7, <1>8 DEF Replays
  <1>10. InPlace
    <2>1. CASE Outstanding = {}
      BY <1>3, <2>1 DEF Stored, Data, Moving
    <2>2. CASE Outstanding # {}
      <3>1. Safe(rec[r].plan, rows)
        BY <1>1, <1>6, <2>2 DEF Stored, Data
      <3> QED BY <1>1, <1>5, <3>1, Covers
    <2> QED BY <2>1, <2>2
  <1>11. InPlace'
    BY <1>1, <1>10 DEF InPlace
  <1> QED BY <1>1, <1>3, <1>7, <1>9, <1>11, Idles

LEMMA RecoveryStored ==
  ASSUME TypeOK, Stored, Good', Recovery
  PROVE  Stored'
  BY CrashStored, StopsStored, RecoversStored, ReplaysStored, RecoveredStored, StillStored
     DEF Recovery, Restarts

------------------------------------------------------------------------------
(* The theorem.                                                              *)

IInv == TypeOK /\ (Good => Sound)

LEMMA InitSound == Init => Sound
  <1> SUFFICES ASSUME Init PROVE Sound
    OBVIOUS
  <1>1. /\ \A k \in Callers : drain[k] = Idle
        /\ \A s \in Graphs : intent[s] = NoPlan
        /\ \A r \in Recoverers : rec[r] = NotRecovering
        /\ pending = <<>> /\ last = 1 /\ 1 \in Graphs
    BY TopologyAssumption DEF Init, Graphs
  <1>2. Outstanding = {} /\ Recovering = {}
    BY <1>1, NoPlanShape DEF Outstanding, Recovering, NotRecovering
  <1>3. Single /\ Order
    BY <1>1, IdleIs, EmptySorted DEF Single, Draining, Order
  <1>4. Fresh
    <2> SUFFICES ASSUME NEW g \in Unmade PROVE Untouched(g)
      BY DEF Fresh
    <2>1. g \in Graphs /\ g > 1
      BY <1>1, IdleIs DEF Unmade
    <2>2. rows[g] = {}
      BY <2>1 DEF Init
    <2> QED BY <1>1, <2>1, <2>2, IdleIs, NoPlanShape DEF Untouched, Unnamed, NotRecovering
  <1>5. Exclusive /\ Replays
    BY <1>1, <1>2, IdleIs DEF Exclusive, Replays, Moving
  <1>6. Data
    <2>1. \A c \in Creatures : c \in rows[1]
      BY <1>1 DEF Init
    <2>2. InPlace
      BY <1>1, <2>1 DEF InPlace
    <2>3. \A k \in Callers : Installed(drain[k])
      BY <1>1, IdleIs DEF Installed
    <2> QED BY <1>2, <2>2, <2>3 DEF Data
  <1> QED BY <1>3, <1>4, <1>5, <1>6 DEF Sound, Sorted, Stored

LEMMA NextSound ==
  ASSUME TypeOK, Good => Sound, [Next]_vars, Good'
  PROVE  Sound'
  <1>1. Sound /\ TypeOK'
    BY GoodBefore, NextTyped
  <1>2. Sorted /\ Stored
    BY <1>1 DEF Sound
  <1>3. CASE Change
    BY <1>1, <1>2, <1>3, CapturesSorted, ChangeStored DEF Sound
  <1>4. CASE Recovery
    BY <1>2, <1>4, RecoverySorted, RecoveryStored DEF Sound
  <1>5. ASSUME NEW k \in Callers, Drain(k)
        PROVE  Sound'
    BY <1>1, <1>2, <1>5, DrainSorted, DrainStored DEF Sound
  <1>6. CASE UNCHANGED vars
    <2>1. UNCHANGED <<rows, intent, rec, drain, pending, last>>
      BY <1>6 DEF vars
    <2>2. Single' /\ Order'
      BY <1>2, <2>1 DEF Sorted, Single, Draining, Order, InOrder, UpToLast, Follows
    <2>3. Fresh'
      BY <1>2, <2>1 DEF Sorted, Fresh, Unmade, Untouched, Unnamed
    <2>4. Stored'
      BY <1>2, <2>1, StillStored
    <2> QED BY <2>2, <2>3, <2>4 DEF Sound, Sorted
  <1> QED BY <1>3, <1>4, <1>5, <1>6 DEF Next

LEMMA SoundKeeps == IInv => NoDriveVanishes
  <1> SUFFICES ASSUME TypeOK, Sound, NEW c \in Creatures
               PROVE  \/ \E g \in Graphs : c \in rows[g]
                      \/ \E s \in Graphs : \E g \in DOMAIN intent[s] : c \in intent[s][g]
                      \/ \E k \in Callers : \E g \in DOMAIN Held(k) : c \in Held(k)[g]
    BY DEF IInv, NoDriveVanishes, Good
  <1>1. CASE Outstanding # {}
    <2>1. PICK s \in Outstanding : TRUE
      BY <1>1
    <2>2. s \in Graphs /\ Safe(intent[s], rows)
      BY <2>1 DEF Sound, Stored, Data, Outstanding
    <2> QED BY <2>2 DEF Safe
  <1>2. CASE Outstanding = {}
    <2>1. CASE \E k \in Callers : drain[k].at \in {"install", "rollback"}
      <3>1. PICK k \in Callers : drain[k].at \in {"install", "rollback"}
        BY <2>1
      <3>2. drain[k].journal = 0
        BY <1>2, <3>1 DEF Sound, Stored, Exclusive, Moving, TypeOK, Drains
      <3>3. Safe(Held(k), rows)
        <4>1. CASE drain[k].at = "install"
          BY <3>2, <4>1 DEF Held, Sound, Stored, Data, Installed
        <4>2. CASE drain[k].at = "rollback"
          BY <3>2, <4>2 DEF Held, Sound, Stored, Data, Installed
        <4> QED BY <3>1, <4>1, <4>2
      <3> QED BY <3>3 DEF Safe
    <2>2. CASE \A k \in Callers : drain[k].at \notin {"install", "rollback"}
      BY <1>2, <2>2 DEF Sound, Stored, Data, InPlace
    <2> QED BY <2>1, <2>2
  <1> QED BY <1>1, <1>2

\* However splits and merges are stacked, whenever their callers are cancelled,
\* their calls fail, the process dies or an intent is recovered, every Drive is in
\* a repository, in an intent that will be replayed, or held by the split that is
\* moving it, unless a split without an intent was cut short or two tasks wrote
\* rows at once (_apply_split, split_intent.py, recover_split_intents).
THEOREM DrivesAreKept == Spec => []NoDriveVanishes
  <1>1. Init => IInv
    BY InitTyped, InitSound DEF IInv
  <1>2. IInv /\ [Next]_vars => IInv'
    BY NextTyped, NextSound DEF IInv
  <1> QED BY <1>1, <1>2, SoundKeeps, PTL DEF Spec
==============================================================================
