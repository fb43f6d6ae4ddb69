# Verification of KohakuTerrarium

KohakuTerrarium runs language-model agents ("creatures") as long-lived asyncio
programs.  An agent has one event loop of its own; creatures are grouped in
graphs that share a session; durable goals ("Drives") are delivered to
creatures across stops, restarts and crashes; several hosts can be linked.
This directory holds TLA+ models of the parts whose correctness depends on the
order in which concurrent tasks take their steps, TLC configurations that check
them on small instances, and proofs checked by TLAPS.

Paths below are relative to `src/src/kohakuterrarium/` unless they start with
`src/`.

| file | what it is |
|---|---|
| `EventLoop.tla` | the event loop of one agent: inbox, consumer, turn, callers, pause/interrupt/stop/start |
| `TurnService.tla` | abstract: what an agent promises the callers of `run()`, `run_stream()`, `run_event()` |
| `EventLoopService.tla` | the refinement mapping from `EventLoop` to `TurnService` |
| `EventLoopProofs.tla` | theorems about `EventLoop` |
| `EventLoopServiceProofs.tla` | theorems: the refinement, and whose request cuts a turn |
| `DirectJobs.tla`, `DirectJobsProofs.tla` | the tool jobs of one agent: dispatch, wait, promotion, interruption, completion; theorems |
| `Compaction.tla`, `CompactionProofs.tla` | background compaction of a conversation that a turn extends; theorems |
| `DriveDelivery.tla`, `DriveDeliveryProofs.tla` | durable delivery of one Drive: repository rows, dispatcher, settlement, readiness, reconciliation; theorems |
| `DriveTopology.tla`, `DriveTopologyProofs.tla` | how Drives move between repositories when graphs merge or split, with crashes and recovery; theorems |
| `OccupancyGate.tla`, `OccupancyGateProofs.tla` | the gate to session files: readers, writers, families, uncertain releases; theorems |
| `LabMembership.tla`, `LabMembershipProofs.tla` | connections, heartbeats, reaper and requests of a Laboratory host; theorems |
| `MC*.tla`, `MC*.cfg` | instances of these for TLC; a cfg is named after its run |
| `PROJECT.json` | components, runs, mutants, source map, findings, hazards, theorems |

To check: `tlc -config MCEventLoopMixed.cfg MCEventLoop`,
`tlapm OccupancyGateProofs.tla`.

## 1. Inventory

### Modelled

**Agent event loop** (`core/event_inbox.py`, `core/agent/turn/`).
*State*: the inbox deque and its wake-up latch; the single consumer task and
the batch it has claimed; `_processing_lock`, the turn mutex; the primary event
and the controller task of the turn in progress; `_interrupt_requested`;
`_running`, `_paused`, `_consumer_resume`; one future per awaited envelope.
*Operations*: `_process_event` (drop, fold, buffer or wait), `put` of a
background completion, `run`/`run_stream`/`run_event`, `cancel_pending`,
`_withdraw_awaiting`, `interrupt`, and the consumer's own steps: park, settle
window, claim, segment, run a turn, fold mid-turn input, resolve.
*Hard*: the consumer re-checks `_running` and the gate after some awaits and
not after others; the interrupt flag is shared by successive turns; an envelope
may be in the deque, in the claimed batch or in the active turn when its caller
gives up; futures must be resolved on every path, crashes of a turn included.
*Correct when*: nobody waits for ever; a request gets exactly one turn of its
own, in order, and an answer that is true; a cancellation hits the turn it is
meant for and no other.

**Agent lifecycle** (`core/agent/startup.py`, `core/agent/lifecycle.py`).
`start`, `stop`, `pause`, `resume`.  `stop` cancels the controller task, waits
at most ten seconds for the turn mutex, cancels the consumer and gathers it.
*Hard*: a cancellation that is swallowed by the task it is delivered through.
*Correct when*: `stop` terminates and leaves no caller behind.

**Turn handlers** (`core/agent/turn/handlers.py`).  The decision whether an
event folds into the running turn, the reset of the interrupt flag, the end of
the controller loop.

**Drive delivery, manager and repository** (`terrarium/drive/`).
*State*: the Drive's record (status, revision) and assignment (epoch,
assignee), the delivery rows with status, attempts and reason, all in SQLite;
in memory the manager's readiness generation, the dispatcher's in-flight
creatures and consecutive-turn counters, and one settlement task per turn.
*Operations*: create, update, transition, assign, unassign, wake, retire,
replay of a dead letter; the dispatcher's round (scan, claim, consider,
deliver, mark admitted); settlement (acknowledge, retry, dead-letter, block,
pause); stop, start and crash of creatures, reconciliation.
*Hard*: every repository call is its own transaction, and decisions taken on
one are acted on by a later one, while five kinds of task do the same; a crash
leaves rows whose outcome is unknown; "at most once per logical key" must hold
although three tasks may write a row for the same key.
*Correct when*: a logical key reaches a creature once; a creature has one Drive
turn at a time; budgets hold; uncertain work is either left or replaced, never
lost or doubled; terminal Drives stay so; what is pending is eventually served.

**Direct and background jobs** (`core/jobs/backgroundify.py`,
`core/jobs/executor.py`, `core/agent/tools/`).
*State*: one asyncio task and one `BackgroundifyHandle` per job with
`_completed` and `_promoted`; the round's direct handles, their wait tasks and
the `wait_put` task; `_active_handles`, `_direct_job_meta`,
`_bg_controller_notify`; finalizers of interrupted jobs; `_turn_dispatched_bg`,
the jobs a turn owes; the tool messages of the conversation.
*Operations*: dispatch in three modes, wait, promotion by the user or by an
input, interruption of the turn or of one job, completion in the background,
termination, the stop of the agent.
*Hard*: a job can complete, be promoted, be cancelled and be collected in any
order, each noticed by a different task.
*Correct when*: each outcome reaches the model once, each call has its tool
message before the next round, and a deferred output has something to wait for.

**Context compaction, controller and conversation** (`core/compact/`,
`core/conversation/`, `core/controller/`, `core/agent/history/`, `llm/base.py`).
*State*: the list of messages, held by identity; the request made from it; the
single-flight lease (`_running`, `_token`) and the compaction task with the
conversation, boundary and prefix it captured.
*Operations*: everything a turn does to the list; trigger, veto, summary,
splice, elision, flush and persist; the overflow hook that waits for a
compaction; the emergency drop; rewind and branch switch; cancel.
*Hard*: the prefix is summarised during a model call while the list changes;
the summariser's own call can reach the hook that waits for it.
*Correct when*: nothing said is lost or misrepresented, tool rounds stay whole,
every compaction says how it ended, nobody waits for ever.

**Session occupancy gate** (`session/occupancy/`).
*State*: one record per file with counts of legacy occupants, waiting ones and
fast readers and two flags of uncertain release; one condition variable.
*Operations*: `acquire_legacy`, `acquire_family`, `try_fast`,
`read_metadata_candidate`, release proven or not.
*Hard*: threads, one notification for all files, waits that raise.
*Correct when*: a fast reader is alone, the counters are exact, an uncertain
release bars the file for good, nobody starves.

**Laboratory link** (`laboratory/_internal/`).
*State*: the host's registry of connections and its membership, pending
requests; each client's connector and connection; both ends of each connection.
*Operations*: connect, handshake with name conflict, heartbeat, reaper, request,
response and timeout, disconnection noticed by either side, stop of either.
*Hard*: an end notices a dead connection late or never, a client comes back
under its old name, and the reaper works through a list across awaits.
*Correct when*: registry and membership agree, a request never outlives the
connection it was sent on, a client that can come back does.

**Drive topology** (`terrarium/drive/topology.py`, `split_intent.py`,
`runtime.py`, `terrarium/graph/`).
*State*: which creature is in which graph, the repository of each graph,
the list of pending changes, the intent file of a split.
*Operations*: split, merge, drain (export, place, record, install, roll back,
publish), crash, recovery.
*Hard*: the topology changes at once and the rows follow, one await and one
file at a time, under no lock: callers stack their changes, are cancelled, and
intents are recovered meanwhile.
*Correct when*: no Drive is lost and each ends with one owner.

### Not modelled

| component | what it does, what is hard | why not, or when |
|---|---|---|
| session store and sync (`session/store/`, `session/sync.py`) | write-back cache and flush pipeline across threads | first of what is left in the plan |
| sub-agents (`modules/subagent/`) | jobs with a controller of their own | second in the plan; `DirectJobs` has tool jobs |
| triggers (`core/trigger_manager.py`, `modules/trigger/`) | run loops per trigger | their events are inputs of `EventLoop` |
| terrarium sessions (`terrarium/session/`) | merging and copying session stores | synchronous file work; `DriveTopology` has the point at which Drives are captured |
| creature host (`terrarium/creature/host.py`) | restoration barrier, pause | abstracted in `DriveDelivery` as whether a creature takes a delivery |
| session recovery (`session/run_state.py`, `job_reaper.py`, `resume/`) | classification by boot id | sequential |
| Drive service, tools, multi-node (`terrarium/drive/service/`, `tools/`, `multi_node/`) | wire forms of the manager's calls | no state of their own |
| channels (`core/channel.py`, `terrarium/channels/`) | named queues | every operation is atomic in the asyncio loop |
| budgets and termination (`core/`) | counters read by the controller loop | `EventLoop` and `DirectJobs` let any round be the last, or the one that ends the run |
| output router (`modules/output/`) | fan-out to sinks | only the turn's answer is kept |
| multi-node service (`terrarium/multi_node/`, `terrarium/service/`) | routing over the laboratory link | forwards calls; its hard part is the link |
| studio, API, CLI, built-ins, LLM and MCP adapters | front ends and I/O | no protocol of their own |

`PROJECT.json` lists forty hazards of this code, those that weigh most, each with
its line and the properties that cover it; the departures listed below name
further ones.

## 2. Plan

Done: 1 `EventLoop`, 2 `TurnService` with `EventLoopService`, 3 `EventLoopProofs`,
4 `DriveDelivery`, 5 `DirectJobs`, 6 `OccupancyGate`, 7 `LabMembership`,
8 `Compaction`, 9 `DriveTopology`, and the proofs of all of them.

Next: the session store (write-back cache against readers and the flush
thread); sub-agents as jobs of `DirectJobs`; the run loops of triggers; requests
of laboratory clients with their outbox, and streams; several Drives in
`DriveDelivery` for the claim limit; a `start()` that fails.

Theorem to add: `BudgetHolds` with stops and crashes.  No run checks it there and no
theorem states it.  TLC, given two crashes or one stop, ran out of time without a
violation; the invariant of section 4 does not hold in such executions, as a release
of claims may take an acknowledgement back.

## 3. The event loop

### How the model corresponds to the code

asyncio switches tasks only at an await, so an action is the code between two
awaits.  The consumer's location `con` names the await it is suspended at:
`waitTop` and `waitRun` (the resume gate, at the head of the loop and before a
run), `waitInbox` (the latch), `settle` (the yields before a claim), `begin`
(`_begin_batch`, the mutex held), `push` (events pushed to the controller, its
task not yet created), `loop` (the controller task runs), `final`
(finalisation).  `top` and `runs` are not awaits; `Yielded` keeps every other
task from acting there.

| model | code |
|---|---|
| `Event`, `Kind` | producers; the kind fixes stackability, whether the envelope has a future and which ingress is used |
| `place`, `ahead` | inbox deque, claimed batch, active turn or trigger stash; who is ahead of whom |
| `fut`, `caller` | the envelope's future and the task that awaits it |
| `gate`, `woken` | `_consumer_resume`, and whether the future the consumer parks on is done |
| `interrupted`, `cancelling`, `left` | `_interrupt_requested`, an undelivered cancellation, how the controller task ended |
| `ConsumerTop` ... `TurnBegins` | `_run_event_consumer`, `segment_stackable`, the head of `_run_turn_for_batch` |
| `CyclePrepared` ... `TurnFinishes` | `_process_batch_with_controller` and its finalisation, `_resolve_run` |
| `LastRound`, `Terminates`, `LoopInterrupted` | the three ends of the controller loop; `_check_termination` clears `_running` |
| `ProcessEvent`, `Submit`, `Withdraw` | `_process_event`, `_enqueue_awaiting`, `_withdraw_awaiting` |
| `StopBegins`, `StopGathered`, `StopReaps`, `StopEnds` | the four waits of `stop()` |

A producer has one event at a time and offers another when it is free again, so
no counter is needed and behaviours are unbounded in length.  The content of
events, rounds of the model, tool dispatch and output are left out; the last
round may be any round.  So may the one at which a termination condition holds or
the iteration budget is exhausted: `Terminates` clears `running` although nobody has
called `stop()`, the consumer rejects what is queued and leaves, and from then on
requests are refused while `life` is still "up".

`TurnService` is the abstract server of `run()`: first come first served, one
turn per request, each answered once, with "rejected" only for the unserved.
`EventLoopService` maps `EventLoop` to it; `ServesRequests` is the property.

### Runs

| run | instance | shows |
|---|---|---|
| Mixed | a background completion, a request, a Drive delivery | `TypeOK`; no caller is left behind (`NoCallerStranded`); "rejected" is true (`RejectedNeverRan`); a turn is cut on its own account only (`CutForItsOwnReason`); the refinement `ServesRequests`: requests get turns of their own in order, each is answered once, a withdrawn one starts nothing |
| Jobs | an input with a backlog, a request | liveness: `EventServed` (every caller is answered and every queued event claimed), `StopTerminates`, whatever pause, a termination condition, stop and restart do while events keep arriving |
| IntSays | as Mixed | a departure of the code, below |

Bounds.  Three producers suffice for what the code distinguishes: a
stackable run of two followed by a solo event, a request ahead of another awaited
event, one event in each of inbox, batch and active turn.  A startup event and a
rerun differ from a Drive delivery in having no caller of `run_event`, and a rerun
in being refused during a pause; no instance has them, the theorems cover them.
The code looks at envelopes only pairwise (leading ones, primary and others) and at
one turn at a time.

Fairness.  Weak fairness of the consumer (asyncio runs every ready task, and a
turn ends some time), of a caller whose future is done, of `StartConsumer` and
of the three later steps of `stop()`.  No fairness for producers, `pause`,
`resume`, `interrupt`: nobody is obliged to use them.  So `EventServed` excuses
a paused agent, nothing else, and `StopTerminates` one that somebody pauses during
`stop()`.

### Where code and documentation disagree

Run IntSays checks one documented statement and finds a behaviour of the code
that contradicts it: a dropped Drive delivery settles as user-interrupted
(`interrupt.py:37`), but `run_event` reads the event's context instead of the
future's result, so the dispatcher retries.

The model has these departures as well; no run is kept for them:

* `lifecycle.py:152`: the consumer swallows the cancellation that `stop()` sent
  through its controller task; if the agent is paused then, it parks and `stop()`
  waits for ever ("Consumer cancellation rejects pending futures so callers
  cannot hang on shutdown.", `lifecycle.py:144`).  `StopTerminates` states the
  exception.
* `event_loop.py:151`: after a resume, a pause that comes before the consumer is
  scheduled does not keep the run from starting ("a paused agent processes
  nothing until resume", `event_loop.py:123`).
* `handlers.py:206`: an interrupt during `_begin_batch` finds no task to cancel
  and its flag is then reset ("Cancel the active turn", `interrupt.py:32`).
* `interrupt.py:45`: a Drive delivery in the claimed batch is not dropped
  ("Queued Drive deliveries are dropped WITHOUT running", `interrupt.py:36`).
* `mid_turn.py:77`: the drain between rounds folds into a non-stackable turn
  ("so nothing folds into it", `event_loop.py:85`).
* `event_loop.py:218`: a turn whose controller `stop()` cancelled is answered
  "ok".

### Proofs (`EventLoopProofs.tla`)

Assumption: `KindAssumption` (each producer has a kind), nothing else; the set
of producers is arbitrary, infinite sets included.

* `TypeCorrect`: `Spec => []TypeOK`.  One lemma per helper that moves events
  or resolves futures (`MoveType`, `LeaveType`, `PutType`, `ExitType`, ...),
  one per group of actions.
* `NobodyStranded`: `Spec => []NoCallerStranded`.  That an unanswered future is
  held by a consumer is not inductive alone: whether there is a consumer
  depends on the lifecycle.  The inductive invariant is
  `TypeOK /\ LifeInv /\ ActiveInv /\ NoCallerStranded`; `LifeInv` ties
  `running`, `life` and the existence of the consumer (a terminated run leaves an
  agent that is up without one, but then nothing is accepted), `ActiveInv` says that
  an active event has a turn in progress, so that the steps which empty the loop
  (`ConsumerExits`, `StopReaps`) are seen to resolve all that is pending.  The
  place of a pending future is an invariant of its own (`Held`), proved first.
* `RejectedRanNothing`: `Spec => RejectedNeverRan`, an action property, from the
  same invariant: every step that answers "rejected" acts on events of the inbox
  or of the batch, or happens at a location where `ActiveInv` leaves no active
  event.

### Proofs of the service (`EventLoopServiceProofs.tla`)

* `CutsAreOwn`: `Spec => CutForItsOwnReason`, for any finite set of producers.
  With the invariants above, `CutInv` says that a cancellation under way finds the
  consumer waiting for its controller, and that from the moment a turn has reset
  the requests of the turns before it, a request to cut it has its reason: the
  user's interrupt of one of its events, the withdrawal of one, or the stop.
* `ImplementsService`: `Spec => ServesRequests`, for any producers.  The invariant
  is `LoopInv == IInv /\ OrderInv /\ RequestInv /\ OneServed /\ TurnInv`, `IInv`
  being that of `NobodyStranded`.  `OrderInv`: `ahead` strictly orders the events in
  the loop, the batch before the inbox, so that the mapped queue is served from its
  head.  `RequestInv`: a request in inbox or batch is pending and its caller
  waits, or it is in the batch, withdrawn and answered.  `OneServed`: at most one
  request is active.  `TurnInv`: a turn in progress has an active event.  Lemmas on
  the abstract state alone (`Stutters`, `Serves`, `Finishes`, `Drops`, `Closes`,
  `Accepts`, `TurnsAway`) say which abstract step a change of the mapped queue and
  answers is; one lemma for each group of the loop's actions applies them.

Only model-checked: liveness.

## 4. Durable delivery of a Drive

### How the model corresponds to the code

A task's progress is `th[p]`: the step it is at, the step to return to, and what
it has read (`seen`, `row`, `ids`, ...).  One step is one repository transaction
or the decision taken on one, so what a task read may be out of date when it
acts.  Tasks: the dispatcher `Disp`, the operator's call `Ctl`, and for each
creature a settlement, a reconciliation and a release of claims on stop.
Procedures several tasks run (`_maybe_enqueue`, `_reevaluate_readiness`,
`_on_failure`, the two status changes) are one action with the task as
parameter.

| model | code |
|---|---|
| `drive`, `rows` | the record with its assignment, the deliveries |
| `ScanWaiting`, `ScanActive`, `MaybeEnqueue`, `ReevaluateReadiness`, `Advance` | `manager/readiness.py` |
| `Claim` ... `EndRound` | `delivery/delivery.py`, one dispatcher round; `claim_deliveries` of `repository/ops.py` |
| `TurnEnds`, `Acknowledge`, `OnFailure`, `ReadToSuspend`, `Suspend` | `_settle`, `delivery/failure.py`, the callbacks of `manager/ops.py` |
| `ListClaims`, `Release` | `on_creature_stopped` (`lifecycle.py`) |
| `Rebuild`, `Look`, `Recover`, `Resume` | `manager/reconcile.py` |
| `Assign` ... `ReplayDeadLetter` | operators' calls in `manager/manager.py`, `manager/admit.py` |
| `Crash` | the process dies: rows and record survive, all else is lost |

Abstractions.  One Drive in one graph, so no claim limit, fairness between
Drives, or pending limit of the graph.  No drafts: the Drive starts active and
assigned.  The assignment is identified with its epoch.  One dispatcher, so a
lease never belongs to another owner.  Expiry, idempotency keys, audit and
outbox rows, topology validation, orphaning, purge, a pause of the creature and
its natural-idle start are left out.  A proposal with its verifiers appears as
the status change it ends in.  At most one operator's call that awaits readiness
runs at a time (`Ctl`), and no status change or unassignment during it; update
and replay, single transactions, come at any moment.  `batch.view` is read once per round,
where the code reads it per Drive: with one Drive that is the same.  `due` stands for the
not-before time and the dependencies, which once met stay met.

### Runs

| run | instance | shows |
|---|---|---|
| Crash | "auto" Drive with one turn, three crashes | `OneRecoveryPerEpoch`; `OneCommitmentPerKey`; `UncertainIsReplaced` |
| Interrupt | "auto" with two turns, user interrupts, failing turns and sink | `BudgetHolds`; `UserStopHolds` |
| Control | conditional Drive, two creatures; failing sink and projection; update, status changes, wake, unassign and assign, replay | `TypeOK`; `NoOverlappingTurns` across epochs; `TerminalStays` |
| Served | retries, a stop | liveness: `DeliveryServed` |

Bounds.  `MaxOps` bounds the environment's operations in one behaviour; the
program's own steps are not bounded but come to rest, because a generic or
manual Drive is offered once and an "auto" one has a budget.  Two turns
(Interrupt) are the least at which a generation is continued, so that settlement
and scan compete for it; in Crash one turn is what recovery may double.  Three
crashes interrupt an attempt, its recovery, and the start after that.
`MaxAttempts` is 1 or 2: the last attempt, and one retry before it.
`MaxConsecutive = 1` makes every second row of a creature meet the yield.  The
counter `consecutive` stays at the maximum because the code only compares it.
One creature suffices except where assignment is in question.
`DeliveryServed` speaks of the first three rows; its instance never has more.

Fairness.  Every task scheduled in the event loop runs on and a turn ends
(weak); a backoff passes, as infinitely many rounds claim every retry that waits
(strong, on `ClaimAll`).  None for the environment: nobody must operate, restart
or wait for the due time.  `DeliveryServed` excuses a stopped creature.

### Where code and documentation disagree

The model has these departures; no run is kept for them:

* `manager/reconcile.py:196`: reconciliation lists a claim, the dispatcher admits
  it, the user interrupts its turn, and reconciliation then writes the row back to
  pending ("Stop means stop: pursuit resumes only through an explicit resume or
  wake, never through the next readiness scan.", `manager/ops.py:116`).
* `manager/readiness.py:468`: a row superseded by an update counts as a delivery
  of the epoch, and a generic Drive stays active and undelivered ("admit
  undelivered active drives", `manager/readiness.py:427`).
* `lifecycle.py:79`: the release on stop writes "pending" over an admitted row
  in the same way ("Admitted work remains intact", `lifecycle.py:70`), or over a
  superseded recovery, so that an epoch has two.
* `manager/reconcile.py:192`: a deferred recovery is not reconsidered until the
  creature is started again ("retried ... once readiness, dependencies, and
  backpressure permit", `reconcile.py:188`).
* `delivery/failure.py:41`: a turn interrupted by a stop counts as a failed
  attempt ("must not consume the hard failure budget", `runtime.py:109`).
* `delivery/delivery.py:302`: a row superseded by a reassignment while it is in
  the hands of the sink is marked admitted ("fencing all deliveries from the
  prior epoch", `manager/manager.py:344`).
* `manager/ops.py:131`: an update at that moment makes the pause after a user
  interrupt conflict, which is only logged.
* `manager/manager.py:465`: a turn is acknowledged between a wake's check of the
  generation and its row, which is then superseded as a duplicate.
* `manager/readiness.py:255`: two tasks both write a row for a generation; an update,
  a pause and resume, or a reassignment in between gives them different keys, and the
  budget is exceeded by a turn.

`BudgetHolds` and `UserStopHolds` are therefore checked and proved for executions in
which no creature stops, nothing crashes and no operator updates, reassigns or reopens
the Drive or wakes it by hand (a wake is not subject to the budget).  What competes
there is the settlement callback and the readiness scan, each of which may decide to
continue the Drive.  Nothing is claimed of either property across a restart.

### Proofs (`DriveDeliveryProofs.tla`)

For any creatures, autonomy, budget, retry policy and number of operations
(`CreatureAssumption`, `PolicyAssumption`), and any set `Ops` of them:
`TypeCorrect`, `DeliversOnce` (`[]OneCommitmentPerKey`), `OneTurnAtATime`
(`[]NoOverlappingTurns`), `EndedDrivesStayEnded` (`TerminalStays`) and
`AdmittedWorkIsReplaced` (`UncertainIsReplaced`).  None of these properties is
inductive: each rests on what other tasks may hold.  The invariant `Inv` is

* `Returns`: only the dispatcher returns to a step of its own, only a settlement
  acknowledges;
* `Reads`: whoever has read the current revision has read the current record, so
  a status change that passes the revision check is decided on the truth;
* `Epochs`: an epoch has one assignee, so rows of one key are of one creature;
* `Holding`: the row a creature is being given, or in whose turn it is, keeps the
  creature busy, and no other row of its key is committed.  This is why a second
  row of the key cannot pass `_already_admitted` before the first is marked;
* `Batched`: what is claimed and not yet considered is not admitted.

`RecoversOnce` (`[]OneRecoveryPerEpoch`) has the hypothesis `"stop" \notin Ops`: no
creature is stopped while the process is up; crashes and operators are unrestricted.
The hypothesis is needed: with stops TLC finds an epoch with two recoveries, as the
release on stop writes a superseded one back (`lifecycle.py:79`, above).  The
invariant adds `RInv`: a superseded recovery stays superseded unless some task has
it in hand (`InPlay`, `OneInPlay`); no one but a turn, the dispatcher or a
reconciliation of the assignee has rows in hand (`Roles`, `Taken`,
`ReleasedByOwner`); and while the assignee may still write a recovery, none in
hand is superseded (`Fresh`), so that `_recovery_admitted_in_txn` sees every
recovery there is.

`BudgetKept` (`[]BudgetHolds`) and `UserStopKept` (`UserStopHolds`) have the
hypothesis `Undisturbed`: no stop, no crash, and no operator who updates, wakes,
reopens or reassigns the Drive; pausing, blocking, ending and retiring it, replaying
dead letters, and failing turns, sinks and projections are allowed.  The
hypothesis is as weak as the properties allow but for this: TLC finds `UserStopHolds`
violated with each of its items alone except unassigning, and `BudgetHolds` with an
update, a wake, a resume or a reassignment; whether stops, crashes and waiting
leave `BudgetHolds` alone is open (section 2).  The invariant
`Calm` says:

* `TaskFine`: whoever means to write a row finds it as it was, the dispatcher still
  claimed, a settlement still admitted, so that an acknowledgement is never undone;
* `Reached`: every generation before a row's own, before the manager's, and before the
  one a task is about to begin, was settled by a turn.  `ReachedCost`: so many
  turns were used, which makes `WithinBudget`, read before, still right at the write;
* `FirstRevision`, `RowFine`: what is admitted is of the first revision, so that rows
  of one generation are of one key.

A row admitted after the user's interrupt would be of the interrupted row's
key, or of a generation before or after it, and in each case two rows of one key
were committed (`NoneAfterInterrupt`).

Only model-checked: `DeliveryServed`, which is liveness.

## 5. Tool jobs of a turn

### How the model corresponds to the code

An action is again the code between two awaits.  `turn` names the await of the
turn: `llm` (the model's call), `round` (the calls are dispatched), `waiting`
(`asyncio.wait` in `_wait_handles`), `reaping` (the cancelled `wait_put` task is
awaited, after the set of finished waiters has been fixed), `final`.  `Reap` is
one pass of the loop body; its last pass continues without an await to the end of
`_collect_and_push_feedback`, and so does the model.

| model | code |
|---|---|
| `task`, `completed`, `promoted`, `callback` | the asyncio task of a job, the two flags of `BackgroundifyHandle`, the task its done-callback creates |
| `active`, `meta`, `noted` | `_active_handles`, `_direct_job_meta`, `_bg_controller_notify` |
| `waiter`, `finished`, `arrival` | the tasks of one round's wait |
| `failed`, `Tool`, `Same` | calls whose start raised; those of one tool share the job id `error_<tool>` |
| `handles`, `named` | the round's direct handles and `native_tool_call_ids`, both keyed by job id |
| `owed`, `paired`, `reports` | `_turn_dispatched_bg`, the calls that have a tool message, how the model heard of the outcome |
| `Announces`, `Vetoed`, `Dispatch` | the assistant message with its calls, `run_pre_tool_dispatch`, `_dispatch_tool_event` with `start_tool_task` |
| `RoundEnds`, `WokenByPut`, `WokenByWaiter`, `ReapsFinished` | `handlers.py`, `core/agent/tools/dispatch.py` |
| `TaskEnds`, `DoneCallback`, `BackgroundCompletes`, `FinalizerStarts`, `FinalizerEnds` | `executor.py`, `backgroundify.py`, `core/agent/tools/dispatch.py` |
| `Interrupt`, `CancelJob`, `PromoteJob`, `Terminates`, `Stop`, `StopCancelsTasks` | `interrupt.py`, `lifecycle.py` |

Abstractions.  The inbox holds interactive inputs and completions only: all of
them fold and start turns alike, the other kinds are `EventLoop`'s.  Native tool
calls; text mode has no message to pair.  Each call is made once and in a fixed order
(`Order`).  A job that starts has an id of its own; the calls of one tool whose start
fails share one, and each table keyed by it (`handles`, `named`, `_active_handles`,
`_direct_job_meta`, `_bg_controller_notify`) keeps only the last of them.  A start that
fails leaves a task that only returns the error, which neither `stop()` nor the
executor's cancellation knows.  `stop()` and a termination condition end the arrival
of inputs.
STATEFUL tools, the internals of sub-agents and the job store's records are left
out.  The TUI promotes from its own thread; `promote` sets one flag and one event,
so that is a promotion at the next await.

### Run and bounds

`DirectJobs`: two calls of one tool, each vetoed, failing to start or dispatched in any
of the three modes, two inputs, every intervention; `TypeOK`, `NotToldTwice`,
`WireNotStranded`, `NextRoundIsPaired` and the liveness property `JobHeard`.  Two jobs
are the least at which a wait ends in several passes, with one job collected while the
other is promoted, or cancelled, and two calls of one tool the least at which ids
collide; either none of the two fails to start or both do (`Failures`), as one failure
alone takes no other call's id.  Two inputs: one starts a turn and one meets it.
No tool is quiet (`Quiet = {}`), see below.  665,181 states.

Fairness (`EndingSpec`, weak fairness of `Progress`): something that is ready runs as
long as there is anything, ready tasks and callbacks alike, a cancelled task ends, and
a tool ends some time.  The last is an assumption about tools, used by `JobHeard`
only for the turn that waits for them; interventions have none.  Deadlock is not
checked because an agent whose turn has ended rests.  `JobHeard` excuses a job
whose outcome an interrupt found already there, one that shares its id with another
failing call, and an agent that stops or has terminated.

### Where code and documentation disagree

No run is kept for these:

* `core/tools/dispatch.py:122`: two calls of one tool in a round that both fail to start
  have one job id.  The second replaces the first in the round's tables
  (`handlers.py:384-425`), so the first call gets no tool message and the next request
  is malformed ("Native tool-call protocols require a result even when the real result
  will arrive in a later turn.", `core/agent/tools/dispatch.py:120`).
  `NextRoundIsPaired` excepts that call (`Displaced`), and no other.
* `interrupt.py:76`: a job cancelled alone is finalized while its round also
  collects it, and gets a second tool message ("we must NOT append a duplicate",
  `src/tests/unit/core/agent/tools/test_dispatch.py:722`).  `NextRoundIsPaired`
  asserts at least one.
* `core/agent/tools/dispatch.py:71`: an input put between the look at the inbox and
  the first step of the `wait_put` task wakes nobody and promotes nothing, so it
  waits for the job ("Interactive user input must not wait out a long direct job",
  `core/agent/tools/dispatch.py:53`).
* `handlers.py:627`: what a turn owes is read from `_bg_controller_notify`, whose
  entry the completion of a quiet tool may already have cleared; the default then
  is to owe it, and the output is held back for an event that never comes.
  `WireNotStranded` fails if a tool is quiet.

### Proofs (`DirectJobsProofs.tla`)

For any calls, tools, failing starts, inputs, interventions and (but for one theorem)
quiet tools, from `JobsAssumption` alone: `TypeCorrect`; `OutcomeToldOnce`
(`[]NotToldTwice`); `RoundsPaired` (`NextRoundIsPaired`, colliding ids included: only the
call whose id was taken over is excepted); and, assuming `Quiet = {}`,
`OutputNotStranded` (`[]WireNotStranded`).

The inductive invariant is `TypeOK /\ Apart /\ Paired /\ Expected`. That no outcome
is told twice depends on which tasks may still tell it: `Apart` says that results
told or collected are of completed jobs that were not promoted before, and that
callbacks and events are of promoted ones; promotion needs an incomplete job, which
is why the two stay apart. `Paired`: every call of the round is still to be
dispatched, has its message, has lost its id, or has a direct handle under an id
that names it and is waited for or collected. `Expected`: the completion of each job
that holds the output back is still to come. One lemma per action; the passes of the
wait share `PassSplits`.

## 6. Context compaction

### How the model corresponds to the code

A message is an identity (`body`, and `gen` for the object that carries it), a text
version, the calls it announces, the call it answers and, for a summary, what it
`covers`.  `StandsFor` is what a list of messages says, `live` what it should say.
The operators on lists are the code's pure functions: `Sanitized`
(`sanitize_orphan_tool_pairs`), `KeepMessages`, `TurnBoundary`, `PendingStart`,
`Boundaries` (`splice.py`), `Spliced`, `Elided`, `Dropped`
(`drop_last_tool_round`).

| model | code |
|---|---|
| `conv`, `room` | `controller.conversation`: its messages, and which object it is |
| `turn` | the request being answered, the round's calls, whether the provider tried a rescue |
| `running`, `token`, `active`, `flights` | `SingleFlightDispatch`, `_compact_task`, the tasks with what they captured |
| `UserSays` ... `TurnFails` | `controller.py`, `plugins.py`, `handlers.py` |
| `TriggerCompact`, `Capture` ... `Persisted`, `Cancelled` | `CompactManager` |
| `OverflowRescue`, `OverflowDrop`, `RescueReturns` | `BaseLLMProvider`'s recovery with `_compact_overflow_rescue` |
| `SwitchBranch`, `Rewind`, `Stop`, `StopReturns` | `/branch`, `rewind_to`, `cancel()` |

Abstractions.  The token budget chooses any boundary the code could choose.
Cooldown, the count of compactions, the stale window of elision, the text of a
summary and stored metadata are left out.  `/branch` comes while the agent is
idle (the code does not check it).  No compaction is triggered once `stop()` has
reached `cancel()`.  A tool announcement says nothing that must be kept; a
user's or assistant's text does.  The repair of a request whose content a provider
rejects (`llm/base.py:376-418`) changes the request, or drops a round as the emergency
drop does; only the overflow path is modelled.

### Run and bounds

`Compaction`: one turn kept, two calls in a round, three messages said, two
compactions, one branch switch, the summariser sharing the rescue hook.  The
properties are `TypeOK`, `NothingLost`, `RoundsStayWhole`, `OneTerminalUnlessCut`,
`CompleteMeansCompacted` and the liveness property `EveryWaitEnds`.
`MinCompactable` is 4 (8 in the code), so that three messages reach both sides of
it.  Two compactions are the least at which one summarises the other's summary or
outlives its lease; two calls the least at which a round is partly answered.

Fairness: the compaction task runs (a summary call answers or fails), a rescue and
`stop()` return once what they wait for is done.  None for the turn: the agent may
never be spoken to, which is why deadlock is not checked.

### Where code and documentation disagree

* `core/compact/manager.py:481`: a compaction cancelled between its completion and
  the end of the flush, or whose flush fails, closes twice, one cancelled before
  its first step not at all ("Every `compact_start` must be closed by exactly one
  terminal", `manager.py:245`).  `OneTerminalUnlessCut` is stated with that
  exception.

Beyond the model's abstractions, from reading the code: a plugin's rewrite that
lands after the splice edits a detached message (`plugins.py:62`); a branch switch
during the flush does not keep the captured conversation from being saved
(`manager.py:455`); the emergency drop replays the request that was refused, and
so undoes a splice that came in between, without loss (`llm/base.py:281`).

### Proofs (`CompactionProofs.tla`)

For any set of calls, policy and bounds: `TypeCorrect`, `WordsAreKept`
(`[]NothingLost`), `RoundsAreWhole` (`[]RoundsStayWhole`), `ClosedOnce`
(`[]OneTerminalUnlessCut`) and `CompletionIsReal` (`CompleteMeansCompacted`).  The
inductive invariant is `IInv == ListOK /\ TurnOK /\ ManagerOK /\ Uncaptured`.

* `ListOK`: the conversation opens with its system prompt and no round follows that
  at once, every tool message follows the reply that announced its call, and the
  whole stands for the live words.
* `TurnOK`: a request that an emergency drop may replay stands for the same words;
  a round waits for exactly what its announcement still lacks.
* `ManagerOK`: what a compaction has said fits the stage it is at.
* `Uncaptured`: no compaction under way has read the announcement of the round under
  way.  Without it a splice could take the announcement of a call whose result is
  yet to come.

What `Sanitized` and the boundaries return is proved for every list and without
induction over it: the k-th survivor is the k-th smallest index of a set (`InOrder`,
`SanitizedPicks`), a boundary the greatest (`LatestIs`), and wholeness speaks of
positions.  `EveryWaitEnds` is model-checked only.

## 7. Drives when graphs merge and split

### How the model corresponds to the code

| model | code |
|---|---|
| `graph`, `SplitGraph`, `MergeGraphs` | the engine's topology and its two changes, synchronous (`graph/topology.py`) |
| `drain[k]` for k in `Callers`, `DrainStarts`, `Abandons` | engine methods that change the topology, await a checkpoint, then `drain()` (`engine.py:488-541`, `channels.py:557-573`); one that is cancelled or whose checkpoint raises |
| `pending` | `_pending_drive_topology` |
| `PlansSplit`, `SkipsSplit`, `InstallsChild`, `InstallFails`, `RestoresChild`, `RestoreFails`, `SplitRaises`, `Publishes`, `CompletesSplit` | `_apply_split`, `_install_children_atomic` |
| `ExportFails`, `MergeRaises`, `ExportsNothing`, `ExportsSources`, `Imports`, `ImportFails`, `Detaches` | `_DriveSource.export`, `_combine`, `_apply_merge` |
| `rows`, `intent`, `managed` | repositories, intent files, `registry._managers` |
| `rec[r]` for r in `Recoverers`, `RecoversIntent`, `ReplaysChild`, `RecoveryStops`, `RecoveryCompletes` | `recover_split_intents`, run by `start()`, `bind_graph_store` and `_reconcile_when_ready` (`split_intent.py`, `runtime.py:266-373`) |
| `Crash`, `Restarts`, `UseManager` | death of the process, creatures attaching after it, `manager_for` |

A caller's change and its drain are separate, as a checkpoint is awaited between
them, and no lock is held: other callers' changes join the same list, a drain may
find nothing left of its own, and two drains may run at once.  `PlansSplit(k, journal)`
writes the split's intent or does not: the code does so only if the source is a
file and every live child has a session and a repository with a path
(`topology.py:239`), which neither the default `session_dir=None` (`engine.py:90`)
nor a durable provider without sessions gives.

Abstractions.  A repository is the set of Drives in it, each scoped to one
creature; contents and versions of rows, other placement policies, clones and the
blocking of orphans are left out.  The topology is as durable as the capture.  A split
has two parts and its place is any subset; which edges cause it is left out.  The
checkpoint is one suspension point, and export, plan and backup of an entry are one
step.  Not modelled: repositories that live in memory and go with the process,
intents discarded because their session files are gone, Drives created between
capture and drain, failures while bindings are published.  `trouble` is a history
variable: it records the cases, listed below, that nothing repairs.

### Run and bounds

`DriveTopology`: three creatures, two callers, two recoveries, three graph ids, three
faults (crashes, cancellations, failing calls); `TypeOK`, `NoDriveVanishes`,
`OneOwner`.  Three creatures are the least at which a part is split again; two callers
stack changes and overlap their drains, two recoveries replay one intent twice; three
faults let an installation fail, its rollback fail and the recovery be cut short.
`MaxGraphs` and `MaxFaults` bound the behaviours, so deadlock is not checked.
Creatures, callers and recoveries are interchangeable, hence symmetry.  The run does
not continue from a state in which a Drive may have been torn (`Tellable`): both
properties except that state and all that follow it.  271,935 states.

### Where code and documentation disagree

"Each Drive must remain owned by exactly one canonical graph repository"
(`topology.py:5`) does not hold in these cases, each with its mark in `trouble`.  In
the first four a Drive may be lost (`Torn`); `NoDriveVanishes` excepts these and no
other, and TLC finds a loss if any one of them is not excepted.

* `unrecorded`, `topology.py:239`: a split without an intent is cut short, or its
  rollback fails, after a child has been replaced.  A crash then loses the Drives
  that were to move.
* `overlap`, `topology.py:147`: two drains run at once.  A failing split restores
  backups over what the other drain has installed meanwhile.
* `stale`, `split_intent.py:27`: the topology changes, or a change is applied, while an
  intent is on disk or being replayed.  Recovery then replays rows that are out of
  date, and a second split overwrites the intent.
* `raced`, `runtime.py:357`: a recovery finds the intent of a split that is still
  running, replays it beside the drain, and removes it; the drain's rollback has then
  no journal.
* `merge`, `topology.py:160`: a merge has no journal.  A crash or a failing import after
  the topology has changed leaves the absorbed Drives in a repository that is retired.
* `move`, `topology.py:148`: the list of pending changes is emptied before they are
  applied.  What stands behind a failing one is dropped, and a split that stops
  before it touches a child leaves the moved creature's Drive with the parent.
* `stacked`, `engine.py:488-541`: a change captured before an earlier one has been
  drained (`tools/channel.py:267` drains not at all).  The earlier entry is applied to
  a topology it was not captured for, and a Drive can end in two repositories or in
  none that is live; it is in some repository still.
* `unmanaged`: a graph without a manager is not captured, and its rows stay where
  they are.
* `topology.py:211`: rows written between export and replacement are lost; the
  contents of rows are not modelled, so this has no mark.

`OneOwner` says what is left once nothing is in progress.  With no mark, each Drive
is owned by the live repository of its creature's graph and no other: through crashes
and failing rollbacks of recorded splits, and recoveries at start or later.  With
`move` alone it still has one owner, perhaps not its creature's graph; with `merge` it
has at most one.

### Proofs (`DriveTopologyProofs.tla`)

For any finite set of creatures, any callers and recoveries, graph ids and faults, from
`TopologyAssumption` alone: `TypeCorrect` and `DrivesAreKept` (`[]NoDriveVanishes`).
Neither assumes anything of the order of changes or of the time of recovery: stacked
changes, late recoveries and splits without an intent are all steps of `Spec`.

The inductive invariant is `TypeOK /\ (Good => Sorted /\ Stored)`, where `Good` says
that none of `Torn` has happened.

* `Sorted` concerns the entries that wait.  `Single`: one drain at a time has entries.
  `Order`: entries stand in the order of the graphs they make.  `Fresh`: a graph made by
  a split that is not planned yet has no rows and is in no plan.  This is needed because
  changes stack: the rows a plan replaces in a new graph must be nobody's.
* `Stored` concerns rows in motion.  `Exclusive`: a drain that moves rows is alone with
  its intent.  `Replays`: a recovery replays what is on disk, or what has been replayed
  already by another.  `Data`: replacing rows by the plan outstanding, or by the backup
  of a rollback, whole or in part, leaves every Drive in a repository (`Safe`,
  `Installed`, `InPlace`).  This is what a crash anywhere in a split leaves unchanged.

`OneOwner` is model-checked only.

## 8. The occupancy gate

### How the model corresponds to the code

The gate is used from threads, and every method of it works under one lock, so an
action is one critical section.  A thread's `pc` says where it is between them.

| model | code |
|---|---|
| `registered`, `rec` | `_records`, `_PathRecord` |
| `lease`, `pending`, `todo` | leases issued, whether a wait is counted, files of the family still to enroll in |
| `TryFast`, `FastDeclined` | `try_fast`, and `read_metadata_candidate` falling back |
| `Enrolls`, `Blocks`, `Raises`, `TimesOut`, `Interrupted`, `Unwinds` | `acquire_legacy` with its exception handler |
| `Begins`, `Finishes`, `Done` | `acquire_family`, `FamilyLease.finish`, `_finish` |

Abstractions.  A family is any of a given collection of sets of files; its files
are taken in any order, which includes the sorted order of the code.  How a store
or a mutation finds its family (`registry.py`, `mutation.py`) is left out.

### Run and bounds

`OccupancyGate`: three threads, a file and its sidecar, families of the file alone
and of both; `TypeOK`, `SoleOccupant`, `CountersExact`, `UncertainIsFinal`,
`EnrolmentEnds`.  Three threads let a fast reader, an occupant that waits and one
that is enrolled in the other file meet; deadlock is checked.  Fairness: a thread
inside the gate runs and one that has a file open closes it.  No wait is
required to time out, so `EnrolmentEnds` shows that no wakeup is lost.

### Proofs (`OccupancyGateProofs.tla`)

Every safety property of the run is proved for any finite set of threads, any
files and any families (`GateAssumption`): `TypeCorrect`, `FastReaderAlone`,
`RecordsExact`, `UnprovenReleaseIsFinal`.

The inductive invariant is `TypeOK /\ CountersExact /\ SoleOccupant /\ Bookkeeping`.
Exclusion follows from the counters, as the code admits by them, so exactness of
the counters is the core of the proof; it needs `Bookkeeping`, that a
thread holds and is counted only where its location allows, so that a
decrement meets a positive count and a record is retired only when nobody is in
it.  `OneFile` says that a step that changes one file and the matching leases
leaves the others as they are, and reduces each action to its own file;
cardinalities are handled by `CountOf`.  The action property is proved from the
same invariant by one lemma per action that writes a record (`BarStep`).

## 9. Membership of a Laboratory

### How the model corresponds to the code

Each name has a few connection slots; both ends of a connection see it as open,
cut (nothing passes and nobody was told) or shut (the next call raises).

| model | code |
|---|---|
| `client`, `link`, `joined` | the connector's main loop and its connection |
| `reg`, `alive`, `stale` | `_clients`, `Membership` |
| `lost`, `reaping` | what `_reaper_loop` has read and not yet acted on |
| `pending`, `target`, `via` | `_pending_requests`; `via`, a history variable, the connection used |
| `Connects`, `Welcomed`, `Rejected`, `LinkDrops`, `ClientStops` | `client.py` |
| `Handshake`, `ReadEnds`, `ReadCrashes`, `Scan`, `Reap`, `ReaperSleeps`, `HostRequest`, `Response`, `StopBegins`, `StopDisconnects`, `StopEnds` | `host.py` |
| `Cut`, `NearGivesUp`, `FarGivesUp` | the network and the operating systems |

Abstractions.  A handshake is one step: the only await between its check of the
name and the registration is the first send on a fresh connection, which suspends
in neither transport.  `StopBegins` closes every connection, as the server of
WebSockets does; that of the in-process transport closes none (`inproc.py:90`), and
`stop()` closes them when it disconnects each client, a difference no property sees.
A read loop that crashes on a frame disconnects its client like one that ends.
The keepalive of the WebSocket library, rejections other
than `name_conflict`, requests of clients, routing, streams and the bounded
outboxes are left out.  That the heartbeats of a healthy connection come too late
is a fault, as they are sent three times as often as required.

### Run and bounds

`LabMembership`: two names with two slots each, one request, two faults (cuts, late
heartbeats, crashed read loops);
`TypeOK`, `RegistryAgrees`, `NoRequestOutlivesItsLink`, `RequestEnds`, `Rejoins`.
Two names let the reaper have one in hand while it awaits the other; two slots hold
a dead connection and the one that replaces it; two faults let both names be lost
at once, or a new connection be lost too.  Deadlock is not checked: a host that has
stopped with its clients gone rests.  Fairness: the loops of both sides run, late
heartbeats become stale, a `close()` returns (it has a timeout) and the client's
system gives up a dead connection.  Nothing is assumed of the host's system, of
replies or of the timeouts of requests, so `RequestEnds` is the work of the reaper.

### Where code and documentation disagree

* `host.py:802`: a name in the reaper's list is disconnected although it has sent a
  heartbeat or reconnected since ("reaps clients that miss heartbeats",
  `host.py:4`).  `Rejoins` shows that the client comes back.

### Proofs (`LabMembershipProofs.tla`)

For any names, slots, requests and number of faults (`LabAssumption`):
`TypeCorrect`, `RegistryIsMembership` (`[]RegistryAgrees`) and
`NoRequestLeftBehind` (`[]NoRequestOutlivesItsLink`).

The inductive invariant is `TypeOK /\ RegistryAgrees /\ Sent /\ Linked`.  `Sent`
strengthens the second property: a pending request was sent on the registered
connection, and that is a connection, so a name whose registration is removed has
none left; `Linked` says that a connector at work has a connection, without which
the types of the links are not kept.  `DropInv` treats the disconnection that five
actions share.

## 10. Limits

Liveness, ENABLED and induction over data are out of the prover's reach and stay
with TLC: `EventServed`, `StopTerminates`, `DeliveryServed`, `JobHeard`,
`EveryWaitEnds`, `EnrolmentEnds`, `RequestEnds`, `Rejoins`.  Every safety property
and action property the passing runs check is also a theorem, except `OneOwner`, which
is only model-checked.  Three have a hypothesis on `Ops` stated above (`RecoversOnce`,
`BudgetKept`, `UserStopKept`), one is for finite sets of producers (`CutsAreOwn`), and
`OutputNotStranded` assumes that every tool notifies.  TLC's results
are for the instances above.  The asyncio models follow the code at await granularity; of
what runs in threads only the occupancy gate is modelled, and I/O errors are those
named as operations.

Every property of a passing run has a mutant in `PROJECT.json`: a changed
definition, the way a plausible bug would change it, under which that run finds
the property violated.
