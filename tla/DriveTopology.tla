---------------------------- MODULE DriveTopology ----------------------------
(***************************************************************************)
(* How Drives move between the repositories of graphs when graphs split    *)
(* and merge (terrarium/drive/topology.py), with the journal that lets a   *)
(* split be completed after a crash (split_intent.py) and its recovery, at *)
(* the next start or while the engine runs (runtime.py).                   *)
(*                                                                         *)
(* A topology change is synchronous: it moves creatures and only captures  *)
(* which repositories are affected.  Its caller awaits a checkpoint and    *)
(* then drains everything captured, one await at a time and under no lock; *)
(* the process may die, and the caller be cancelled, at each of them.      *)
(* Repositories are files: sidecars of sessions, or those of a durable     *)
(* provider.  The one of a graph that was merged away stays on disk.  Each *)
(* creature has one Drive, scoped to it: Drives and creatures share their  *)
(* names, and rows are what a repository holds.                            *)
(***************************************************************************)
EXTENDS Naturals, Sequences, FiniteSets, SequencesExt

CONSTANTS Creatures,  \* each with one Drive
          Callers,    \* tasks inside an engine method that changes the topology
          Recoverers, \* tasks that recover intents
          MaxGraphs,  \* bound: graph ids ever used
          MaxFaults   \* bound: crashes and failing calls

ASSUME TopologyAssumption ==
  /\ IsFiniteSet(Creatures)
  /\ MaxGraphs \in Nat \ {0} /\ MaxFaults \in Nat

Graphs == 1..MaxGraphs
NoPlan == <<>>   \* a plan gives each graph it names its rows

VARIABLES
  graph,   \* the graph of each creature (engine._topology)
  last,    \* the graph ids handed out are 1..last
  rows,    \* the Drives in the repository of each graph
  managed, \* graphs with a manager (registry._managers)
  pending, \* engine._pending_drive_topology
  drain,   \* how far the method of each caller is
  intent,  \* the split-intent file beside each sidecar: a plan, or NoPlan
  rec,     \* the recoveries in progress
  life,    \* whether the process runs
  faults,  \* how many faults have happened
  trouble  \* what has gone wrong that nothing repairs: see Trouble

vars == <<graph, last, rows, managed, pending, drain, intent, rec, life, faults, trouble>>

Reached(at, queue) ==
  [at |-> at, queue |-> queue, plan |-> NoPlan, backup |-> NoPlan, done |-> {}, journal |-> 0]
Idle          == Reached("idle", <<>>)
NotRecovering == [source |-> 0, plan |-> NoPlan, todo |-> {}]

Members(g)  == {c \in Creatures : graph[c] = g}
Live        == {graph[c] : c \in Creatures}
Entry(k)    == Head(drain[k].queue)
Outstanding == {g \in Graphs : DOMAIN intent[g] # {}}
Recovering  == {r \in Recoverers : rec[r].source # 0}
Draining    == {k \in Callers : drain[k].queue # <<>>}

Init ==
  /\ graph = [c \in Creatures |-> 1] /\ last = 1
  /\ rows = [g \in Graphs |-> IF g = 1 THEN Creatures ELSE {}]
  /\ managed = {1}
  /\ pending = <<>> /\ drain = [k \in Callers |-> Idle]
  /\ intent = [g \in Graphs |-> NoPlan] /\ rec = [r \in Recoverers |-> NotRecovering]
  /\ life = "up" /\ faults = 0 /\ trouble = {}

Moves(k, d) == drain' = [drain EXCEPT ![k] = d]

------------------------------------------------------------------------------
(* Topology changes.                                                         *)

\* The call of k changes the topology of the graphs G, and goes on to await.
Changes(k, G) ==
  /\ life = "up" /\ drain[k].at = "idle"
  /\ Moves(k, Reached("captured", <<>>))

\* The rows that recovery replays are no longer the current ones.
Stale == IF Outstanding \cup Recovering = {} THEN {} ELSE {"stale"}

\* What a change of the graphs G runs into.
Hits(G) ==
  Stale \cup (IF pending = <<>> /\ Draining = {} THEN {} ELSE {"stacked"})
        \cup (IF G \subseteq managed THEN {} ELSE {"unmanaged"})

\* _normalize_components: the largest component keeps the id; apply_split
\* captures the parent's repository if the graph has a manager.
SplitGraph(k, g, S) ==
  /\ Changes(k, {g}) /\ last < MaxGraphs
  /\ S # {} /\ S \subseteq Members(g) /\ 2 * Cardinality(S) <= Cardinality(Members(g))
  /\ last' = last + 1
  /\ graph' = [c \in Creatures |-> IF c \in S THEN last + 1 ELSE graph[c]]
  /\ pending' = IF g \in managed
                THEN Append(pending, [kind |-> "split", graph |-> g, others |-> {last + 1}])
                ELSE pending
  /\ trouble' = trouble \cup Hits({g})
  /\ UNCHANGED <<rows, managed, intent, rec, life, faults>>

\* _merge_graphs: graph b joins graph a; apply_merge captures the repositories
\* of those that have a manager and retires the session of b.
MergeGraphs(k, a, b) ==
  LET sources == {a, b} \cap managed
  IN /\ Changes(k, {a, b})
     /\ {a, b} \subseteq Live /\ a # b
     /\ graph' = [c \in Creatures |-> IF graph[c] = b THEN a ELSE graph[c]]
     /\ pending' = IF sources = {} THEN pending
                   ELSE Append(pending, [kind |-> "merge", graph |-> a, others |-> sources])
     /\ trouble' = trouble \cup Hits({a, b})
     /\ UNCHANGED <<last, rows, managed, intent, rec, life, faults>>

\* manager_for, by any use of Drives in a graph without a manager.
UseManager(g) ==
  /\ life = "up" /\ g \in Live \ managed
  /\ managed' = managed \cup {g}
  /\ UNCHANGED <<graph, last, rows, pending, drain, intent, rec, life, faults, trouble>>

------------------------------------------------------------------------------
(* The drain.                                                                *)

Kind(k, kind) == drain[k].at = "next" /\ Entry(k).kind = kind

\* The next entry at the stage the last one had reached.
NextAtSameStage(k) == [drain[k] EXCEPT !.queue = Tail(@)]

Queued(q) == IF q = <<>> THEN Idle ELSE Reached("next", q)

NextEntry(k) == Queued(Tail(drain[k].queue))

Fault == faults < MaxFaults /\ faults' = faults + 1

Merges(q) == \E e \in ToSet(q) : e.kind = "merge"

\* What is lost with the entries of q, none of which has written an intent.
Dropped(q) == IF Merges(q) THEN {"merge"} ELSE IF q = <<>> THEN {} ELSE {"move"}

\* drain takes out everything pending before any of it is applied.
DrainStarts(k) ==
  /\ drain[k].at = "captured"
  /\ Moves(k, Queued(pending))
  /\ pending' = <<>>
  /\ trouble' = IF pending = <<>> \/ Draining = {} THEN trouble ELSE trouble \cup {"overlap"}
  /\ UNCHANGED <<graph, last, rows, managed, intent, rec, life, faults>>

\* An exception leaves the drain, and the entries after this one are dropped.
DrainRaises(k) ==
  /\ Moves(k, Idle)
  /\ trouble' = trouble \cup Dropped(drain[k].queue)

\* The export of a source raises.
ExportFails(k) ==
  /\ drain[k].at = "next"
  /\ Fault /\ DrainRaises(k)
  /\ UNCHANGED <<graph, last, rows, managed, pending, intent, rec, life>>

Children(k) == ({Entry(k).graph} \cup Entry(k).others) \cap Live

\* The list of children begins with the id that was kept, then the new one.
FirstChild(k) == IF Entry(k).graph \in Live THEN Entry(k).graph
                 ELSE CHOOSE g \in Children(k) : TRUE

\* _place_drives: a Drive follows its creature; the first child takes those
\* whose creature is in none of them.
Placed(k, g) ==
  {c \in rows[Entry(k).graph] :
     g = IF graph[c] \in Children(k) THEN graph[c] ELSE FirstChild(k)}

\* _apply_split exports, places, and backs the children up.  It records the
\* intent only if the source is a file and every child has a session and a file.
PlansSplit(k, journal) ==
  LET plan == [g \in Children(k) |-> Placed(k, g)]
  IN /\ Kind(k, "split") /\ Children(k) # {}
     /\ journal \in {0, Entry(k).graph}
     /\ Moves(k, [drain[k] EXCEPT !.at = "install", !.plan = plan, !.journal = journal,
                                  !.backup = [g \in Children(k) |-> rows[g]]])
     /\ intent' = IF journal # 0 THEN [intent EXCEPT ![journal] = plan] ELSE intent
     /\ trouble' = trouble \cup Stale
     /\ UNCHANGED <<graph, last, rows, managed, pending, rec, life, faults>>

\* None of the children is left: nothing is moved.
SkipsSplit(k) ==
  /\ Kind(k, "split") /\ Children(k) = {}
  /\ Moves(k, NextEntry(k))
  /\ UNCHANGED <<graph, last, rows, managed, pending, intent, rec, life, faults, trouble>>

\* The child whose rows are replaced next, and the one restored next.
IsNext(k, g) == g \in DOMAIN drain[k].plan \ drain[k].done
                /\ \A h \in DOMAIN drain[k].plan \ drain[k].done : g <= h
IsLast(k, g) == g \in drain[k].done /\ \A h \in drain[k].done : h <= g

\* import_rows in place of replace_rows: nothing is pruned.
ImportsChild(k, g) ==
  /\ drain[k].at = "install" /\ IsNext(k, g)
  /\ rows' = [rows EXCEPT ![g] = @ \cup drain[k].plan[g]]
  /\ Moves(k, [drain[k] EXCEPT !.done = @ \cup {g}])
  /\ UNCHANGED <<graph, last, managed, pending, intent, rec, life, faults, trouble>>

\* replace_rows prunes what moves to a sibling.
InstallsChild(k, g) ==
  /\ drain[k].at = "install" /\ IsNext(k, g)
  /\ rows' = [rows EXCEPT ![g] = drain[k].plan[g]]
  /\ Moves(k, [drain[k] EXCEPT !.done = @ \cup {g}])
  /\ UNCHANGED <<graph, last, managed, pending, intent, rec, life, faults, trouble>>

\* replace_rows raises: the children touched are restored.
InstallFails(k, g) ==
  /\ drain[k].at = "install" /\ IsNext(k, g)
  /\ Fault
  /\ Moves(k, [drain[k] EXCEPT !.at = "rollback", !.done = @ \cup {g}])
  /\ UNCHANGED <<graph, last, rows, managed, pending, intent, rec, life, trouble>>

RestoresChild(k, g) ==
  /\ drain[k].at = "rollback" /\ IsLast(k, g)
  /\ rows' = [rows EXCEPT ![g] = drain[k].backup[g]]
  /\ Moves(k, [drain[k] EXCEPT !.done = @ \ {g}])
  /\ UNCHANGED <<graph, last, managed, pending, intent, rec, life, faults, trouble>>

\* A restore raises too: it is noted, and the others are tried.
RestoreFails(k, g) ==
  /\ drain[k].at = "rollback" /\ IsLast(k, g)
  /\ Fault
  /\ Moves(k, [drain[k] EXCEPT !.done = @ \ {g}])
  /\ trouble' = IF drain[k].journal # 0 THEN trouble ELSE trouble \cup {"unrecorded"}
  /\ UNCHANGED <<graph, last, rows, managed, pending, intent, rec, life>>

\* The failure is raised; an intent stays on disk.
SplitRaises(k) ==
  /\ drain[k].at = "rollback" /\ drain[k].done = {}
  /\ Moves(k, Idle)
  /\ trouble' = trouble \cup Dropped(IF drain[k].journal # 0 THEN Tail(drain[k].queue)
                                                             ELSE drain[k].queue)
  /\ UNCHANGED <<graph, last, rows, managed, pending, intent, rec, life, faults>>

\* Bindings are published and dispatchers started once every child has its rows.
Publishes(k) ==
  /\ drain[k].at = "install" /\ drain[k].done = DOMAIN drain[k].plan
  /\ managed' = managed \cup DOMAIN drain[k].plan
  /\ Moves(k, [drain[k] EXCEPT !.at = "publish"])
  /\ UNCHANGED <<graph, last, rows, pending, intent, rec, life, faults, trouble>>

CompletesSplit(k) ==
  /\ drain[k].at = "publish"
  /\ intent' = IF drain[k].journal = 0 THEN intent
               ELSE [intent EXCEPT ![drain[k].journal] = NoPlan]
  /\ Moves(k, NextEntry(k))
  /\ UNCHANGED <<graph, last, rows, managed, pending, rec, life, faults, trouble>>

\* The Drives of a merge's sources.
Merged(k) == UNION {rows[g] : g \in Entry(k).others}

\* _combine: the same Drive in two sources is an integrity error.
Duplicated(k) == \E g, h \in Entry(k).others : g # h /\ rows[g] \cap rows[h] # {}

\* _apply_merge exports the sources, and raises if they cannot be combined.
MergeRaises(k) ==
  /\ Kind(k, "merge") /\ Duplicated(k)
  /\ DrainRaises(k)
  /\ UNCHANGED <<graph, last, rows, managed, pending, intent, rec, life, faults>>

\* Without Drives it only stops the managers.
ExportsNothing(k) ==
  /\ Kind(k, "merge") /\ Merged(k) = {}
  /\ Moves(k, NextEntry(k))
  /\ managed' = managed \ (Entry(k).others \ {Entry(k).graph})
  /\ UNCHANGED <<graph, last, rows, pending, intent, rec, life, faults, trouble>>

ExportsSources(k) ==
  /\ Kind(k, "merge") /\ ~Duplicated(k) /\ Merged(k) # {}
  /\ Moves(k, [drain[k] EXCEPT !.at = "import",
                                  !.plan = [g \in {Entry(k).graph} |-> Merged(k)]])
  /\ trouble' = trouble \cup Stale
  /\ UNCHANGED <<graph, last, rows, managed, pending, intent, rec, life, faults>>

\* import_rows into the survivor, whose other Drives stay.
Imports(k) ==
  /\ drain[k].at = "import"
  /\ rows' = [rows EXCEPT ![Entry(k).graph] = @ \cup drain[k].plan[Entry(k).graph]]
  /\ Moves(k, [drain[k] EXCEPT !.at = "detach"])
  /\ UNCHANGED <<graph, last, managed, pending, intent, rec, life, faults, trouble>>

\* The import raises: the survivor keeps its repository as it was.
ImportFails(k) ==
  /\ drain[k].at = "import"
  /\ Fault /\ DrainRaises(k)
  /\ UNCHANGED <<graph, last, rows, managed, pending, intent, rec, life>>

Detaches(k) ==
  /\ drain[k].at = "detach"
  /\ managed' = (managed \ Entry(k).others) \cup {Entry(k).graph}
  /\ Moves(k, NextEntry(k))
  /\ UNCHANGED <<graph, last, rows, pending, intent, rec, life, faults, trouble>>

------------------------------------------------------------------------------
(* Crash and recovery.                                                       *)

\* What a drain that stops where it is leaves unapplied.  A split whose intent is
\* recorded, or whose children all have their rows, is not lost, nor is a merge
\* whose import is done; a split with neither is torn once a child is touched.
LostWith(d) ==
  CASE d.at \in {"idle", "captured"} -> {}
    [] d.at \in {"next", "import"}   -> Dropped(d.queue)
    [] d.at \in {"install", "rollback"} /\ d.journal = 0 ->
         Dropped(d.queue) \cup (IF d.done = {} THEN {} ELSE {"unrecorded"})
    [] OTHER -> Dropped(Tail(d.queue))

\* The task of k is cancelled, or its checkpoint raises.
Abandons(k) ==
  /\ drain[k].at # "idle"
  /\ Fault
  /\ Moves(k, Idle)
  /\ trouble' = trouble \cup LostWith(drain[k])
  /\ UNCHANGED <<graph, last, rows, managed, pending, intent, rec, life>>

Crash ==
  /\ Fault
  /\ life' = "down"
  /\ managed' = {} /\ pending' = <<>> /\ drain' = [k \in Callers |-> Idle]
  /\ rec' = [r \in Recoverers |-> NotRecovering]
  /\ trouble' = trouble \cup Dropped(pending) \cup UNION {LostWith(drain[k]) : k \in Callers}
  /\ UNCHANGED <<graph, last, rows, intent>>

\* recover_split_intents reads a file: start() before anything else runs, later
\* bind_graph_store and the reconciliation of a creature that is ready.
RecoversIntent(r, s) ==
  /\ rec[r].source = 0 /\ s \in Outstanding
  /\ life = "down" => Recovering = {}
  /\ rec' = [rec EXCEPT ![r] = [source |-> s, plan |-> intent[s], todo |-> DOMAIN intent[s]]]
  /\ trouble' = IF \E k \in Draining : drain[k].journal = s
                THEN trouble \cup {"raced"} ELSE trouble
  /\ UNCHANGED <<graph, last, rows, managed, pending, drain, intent, life, faults>>

ReplaysChild(r, g) ==
  /\ rec[r].source # 0 /\ g \in rec[r].todo
  /\ rows' = [rows EXCEPT ![g] = rec[r].plan[g]]
  /\ rec' = [rec EXCEPT ![r].todo = @ \ {g}]
  /\ UNCHANGED <<graph, last, managed, pending, drain, intent, life, faults, trouble>>

\* The intent is removed however the replay ends.
RemovesIntent(r) ==
  /\ rec[r].source # 0
  /\ intent' = [intent EXCEPT ![rec[r].source] = NoPlan]
  /\ rec' = [rec EXCEPT ![r] = NotRecovering]
  /\ UNCHANGED <<graph, last, rows, managed, pending, drain, life, faults, trouble>>

\* A replay raises, or its task is cancelled by the drain of its graph.
RecoveryStops(r) ==
  /\ rec[r].source # 0
  /\ rec' = [rec EXCEPT ![r] = NotRecovering]
  /\ UNCHANGED <<graph, last, rows, managed, pending, drain, intent, life, faults, trouble>>

RecoveryCompletes(r) ==
  /\ rec[r].source # 0 /\ rec[r].todo = {}
  /\ intent' = [intent EXCEPT ![rec[r].source] = NoPlan]
  /\ rec' = [rec EXCEPT ![r] = NotRecovering]
  /\ UNCHANGED <<graph, last, rows, managed, pending, drain, life, faults, trouble>>

\* Creatures attach, each creating the manager of its graph, after the recovery
\* or, when the engine has no session directory, without one.
Restarts ==
  /\ life = "down" /\ Recovering = {}
  /\ life' = "up" /\ managed' = Live
  /\ UNCHANGED <<graph, last, rows, pending, drain, intent, rec, faults, trouble>>

------------------------------------------------------------------------------
Change ==
  \/ \E k \in Callers :
       \/ \E g \in Graphs, S \in SUBSET Creatures : SplitGraph(k, g, S)
       \/ \E a, b \in Graphs : MergeGraphs(k, a, b)
  \/ \E g \in Graphs : UseManager(g)

Drain(k) ==
  \/ DrainStarts(k) \/ ExportFails(k) \/ Abandons(k)
  \/ \E journal \in {0} \cup Graphs : PlansSplit(k, journal)
  \/ SkipsSplit(k) \/ SplitRaises(k) \/ Publishes(k) \/ CompletesSplit(k)
  \/ \E g \in Graphs : \/ InstallsChild(k, g) \/ InstallFails(k, g)
                       \/ RestoresChild(k, g) \/ RestoreFails(k, g)
  \/ MergeRaises(k) \/ ExportsNothing(k) \/ ExportsSources(k) \/ Imports(k) \/ ImportFails(k)
  \/ Detaches(k)

Recovery ==
  \/ Crash \/ Restarts
  \/ \E r \in Recoverers :
       \/ RecoveryStops(r) \/ RecoveryCompletes(r)
       \/ \E g \in Graphs : RecoversIntent(r, g) \/ ReplaysChild(r, g)

Next == Change \/ Recovery \/ \E k \in Callers : Drain(k)

Spec == Init /\ [][Next]_vars

------------------------------------------------------------------------------
(* Properties.                                                               *)

\* merge      : a merge was cut short after the topology had changed, and has no journal
\* move       : a split was dropped before any of its children had been touched
\* unrecorded : a split without an intent stopped, or its rollback failed, half way
\* stale      : a change was captured or applied while an intent was on disk or
\*              being replayed
\* raced      : an intent was recovered while the split that wrote it was running
\* overlap    : a drain started while another one was running
\* stacked    : a change was captured before an earlier one had been drained
\* unmanaged  : a graph that changed had no manager, and was not captured
Trouble == {"merge", "move", "unrecorded", "stale", "raced", "overlap", "stacked", "unmanaged"}

Plans   == {NoPlan} \cup UNION {[G -> SUBSET Creatures] : G \in SUBSET Graphs}
Entries == [kind : {"split", "merge"}, graph : Graphs, others : SUBSET Graphs]
Moving  == {"install", "rollback", "publish"}
Drains  == [at : {"idle", "captured", "next", "import", "detach"} \cup Moving,
            queue : Seq(Entries), plan : Plans, backup : Plans,
            done : SUBSET Graphs, journal : {0} \cup Graphs]

Consistent(d) ==
  /\ (d.queue = <<>>) <=> (d.at \in {"idle", "captured"})
  /\ d.done \subseteq DOMAIN d.plan
  /\ d.at \in {"idle", "captured", "next"} => DOMAIN d.plan = {} /\ d.journal = 0
  /\ d.at = "import" => DOMAIN d.plan = {Head(d.queue).graph}
  /\ d.at \in Moving => DOMAIN d.plan # {} /\ DOMAIN d.backup = DOMAIN d.plan

\* The state is well typed; a drain that is moving rows still has the entry it is
\* working on, and what it has done is part of its plan.
TypeOK ==
  /\ graph \in [Creatures -> Graphs] /\ last \in Graphs /\ \A c \in Creatures : graph[c] <= last
  /\ rows \in [Graphs -> SUBSET Creatures]
  /\ managed \subseteq Graphs
  /\ pending \in Seq(Entries)
  /\ drain \in [Callers -> Drains] /\ \A k \in Callers : Consistent(drain[k])
  /\ intent \in [Graphs -> Plans]
  /\ rec \in [Recoverers -> [source : {0} \cup Graphs, plan : Plans, todo : SUBSET Graphs]]
  /\ \A r \in Recoverers : rec[r].todo \subseteq DOMAIN rec[r].plan
  /\ life \in {"up", "down"} /\ faults \in 0..MaxFaults /\ trouble \subseteq Trouble

\* What a split that is moving rows without an intent still holds in memory.
Held(k) == CASE drain[k].journal # 0     -> NoPlan
             [] drain[k].at = "install"  -> drain[k].plan
             [] drain[k].at = "rollback" -> drain[k].backup
             [] OTHER -> NoPlan

Torn == {"unrecorded", "stale", "raced", "overlap"}

\* No Drive is lost: whatever a split, its rollback, a merge, a crash or the
\* recovery is in the middle of, each Drive is in some repository, in an intent
\* that will be replayed into one, or held by a split without an intent that is
\* still moving it, however changes are stacked and whenever recovery runs.
\* Excepted is what the code does not protect: a split without an intent that is
\* cut short, and rows written by two hands (drains, recoveries) at once.
NoDriveVanishes ==
  trouble \cap Torn = {} => \A c \in Creatures :
    \/ \E g \in Graphs : c \in rows[g]
    \/ \E s \in Graphs : \E g \in DOMAIN intent[s] : c \in intent[s][g]
    \/ \E k \in Callers : \E g \in DOMAIN Held(k) : c \in Held(k)[g]

Settled == /\ life = "up" /\ pending = <<>> /\ Draining = {}
           /\ Outstanding = {} /\ Recovering = {}

\* The live repositories that hold the Drive of c.
Owners(c) == {g \in Live : c \in rows[g]}

\* When nothing is in progress each Drive is owned by one live repository, that of
\* its creature's graph, through crashes of recorded splits, rollbacks and late
\* recoveries.  A split that was dropped before it touched a child leaves it with
\* one owner still, perhaps not its creature's; a merge that was cut short may
\* leave it in a repository that is no longer live, and never in two.
OneOwner ==
  Settled => \A c \in Creatures :
    /\ trouble = {} => Owners(c) = {graph[c]}
    /\ trouble = {"move"} => Cardinality(Owners(c)) = 1
    /\ trouble \subseteq {"move", "merge"} => Cardinality(Owners(c)) <= 1
==============================================================================
