----------------------------- MODULE DirectJobs ------------------------------
(***************************************************************************)
(* The tool jobs of one agent: a turn dispatches them, waits for the       *)
(* direct ones, and tells the model what became of each.  A direct job can *)
(* be promoted to the background while it runs, by the user or because an  *)
(* input arrived, and races with its own completion, with the interrupt of *)
(* the turn or of the job alone, and with stop().                          *)
(*                                                                         *)
(* Every action is the code between two awaits.  The inbox holds           *)
(* interactive inputs and completions of jobs only: all of it is one run,  *)
(* so a turn that starts claims everything and a drain between two rounds  *)
(* takes everything (EventLoop has the other kinds of events).             *)
(***************************************************************************)
EXTENDS Naturals

CONSTANTS Jobs,      \* tool calls the model may make, each once
          Order,     \* Order[j]: when, among them, the model makes call j
          Tool,      \* Tool[j]: the tool that call j names
          Failures,  \* the sets of calls that may be the ones that fail to start
          MaxInputs, \* how many interactive inputs may arrive
          Quiet,     \* jobs whose tool has notify_controller_on_background_complete off
          Ops        \* which interventions happen: see OpNames

\* direct   : executed directly and awaited by the turn
\* run_bg   : direct for the executor, promoted at once (run_in_background)
\* declared : a BACKGROUND tool, whose completion the executor publishes
Modes   == {"direct", "run_bg", "declared"}
OpNames == {"interrupt", "cancel", "promote", "terminate", "stop"}

ASSUME JobsAssumption ==
  /\ Quiet \subseteq Jobs /\ Ops \subseteq OpNames
  /\ MaxInputs \in Nat /\ "input" \notin Jobs
  /\ Order \in [Jobs -> Nat]
  /\ \A j, k \in Jobs : Tool[j] = Tool[k] => (j \in Quiet <=> k \in Quiet)

VARIABLES
  life,       \* _running, and how far stop() has come
  turn,       \* where the turn is suspended
  asked,      \* the tool calls of the round's assistant message
  calls,      \* those of them that have not been dispatched yet
  mode,       \* how each job was dispatched
  failed,     \* the calls whose start raised
  task,       \* the asyncio task of each job
  completed,  \* handles with _completed
  promoted,   \* handles with _promoted
  callback,   \* _on_backgroundify_complete tasks not yet run
  active,     \* _active_handles
  meta,       \* _direct_job_meta
  noted,      \* _bg_controller_notify: the entries that say no
  scheduled,  \* _finalize_interrupted_direct_job tasks not yet run
  finalizer,  \* those that wait: the job awaited and the call to be answered
  handles,    \* the round's direct handles
  named,      \* native_tool_call_ids of the round
  waiter,     \* the round's handle.wait() tasks
  finished,   \* what asyncio.wait returned as done
  results,    \* results _wait_handles has collected
  moved,      \* had_promotions
  arrival,    \* the wait_put() task of the round
  inbox,      \* the events in the inbox: completions of jobs, and "input"
  unsent,     \* how many inputs have not arrived yet
  owed,       \* _turn_dispatched_bg
  paired,     \* calls that have a tool message in the conversation
  reports,    \* how the outcome of each job went to the model
  cut         \* jobs whose outcome an interrupted or terminated turn dropped

jobVars    == <<mode, failed, task, completed, promoted, callback>>
trackVars  == <<active, meta, noted, scheduled, finalizer>>
waitVars   == <<asked, handles, named, waiter, finished, results, moved>>
modelVars  == <<owed, paired, reports, cut>>
vars == <<life, turn, calls, jobVars, trackVars, waitVars, arrival, inbox,
          unsent, modelVars>>

\* Every table is keyed by the id of the job.  A job that started has an id of
\* its own, but the calls of one tool that failed to start share error_<tool>:
\* a table holds at most one of them, the last one written.
Same(j, k) == j = k \/ ({j, k} \subseteq failed /\ Tool[j] = Tool[k])
Alias(S)   == {k \in Jobs : \E j \in S : Same(j, k)}

\* The wait tasks if promoted handles were not waited for.
WaitingUnpromoted == {j \in Jobs : waiter[j] # "none" /\ j \notin promoted}

Waiting == {j \in Jobs : waiter[j] # "none"}

TypeOK ==
  /\ life \in {"up", "ended", "stopping", "stopped"}
  /\ turn \in {"idle", "llm", "round", "waiting", "reaping", "final"}
  /\ asked \subseteq Jobs /\ calls \subseteq asked /\ failed \subseteq Jobs
  /\ mode \in [Jobs -> Modes \cup {"none"}]
  /\ task \in [Jobs -> {"none", "running", "cancelling", "done"}]
  /\ completed \subseteq Jobs /\ promoted \subseteq Jobs /\ callback \subseteq Jobs
  /\ active \subseteq Jobs /\ meta \subseteq Jobs /\ noted \subseteq Jobs
  /\ scheduled \subseteq Jobs /\ finalizer \subseteq Jobs \X Jobs
  /\ handles \subseteq Jobs /\ named \subseteq Jobs /\ finished \subseteq Jobs /\ results \subseteq Jobs
  /\ waiter \in [Jobs -> {"none", "on", "result", "promotion"}]
  /\ moved \in BOOLEAN
  /\ arrival \in {"none", "created", "parked", "fired"}
  /\ inbox \subseteq Jobs \cup {"input"} /\ unsent \in Nat
  /\ owed \subseteq Jobs /\ cut \subseteq Jobs
  /\ paired \subseteq Jobs
  /\ reports \in [Jobs -> SUBSET {"result", "cut", "event"}]
  /\ finished # {} => turn = "reaping"
  /\ Waiting # {} => turn \in {"waiting", "reaping"}

Init ==
  /\ life = "up" /\ turn = "idle" /\ asked = {} /\ calls = {} /\ failed = {}
  /\ mode = [j \in Jobs |-> "none"] /\ task = [j \in Jobs |-> "none"]
  /\ completed = {} /\ promoted = {} /\ callback = {}
  /\ active = {} /\ meta = {} /\ noted = {}
  /\ scheduled = {} /\ finalizer = {}
  /\ handles = {} /\ named = {} /\ waiter = [j \in Jobs |-> "none"] /\ finished = {}
  /\ results = {} /\ moved = FALSE /\ arrival = "none"
  /\ inbox = {} /\ unsent = MaxInputs
  /\ owed = {} /\ cut = {}
  /\ paired = {} /\ reports = [j \in Jobs |-> {}]

------------------------------------------------------------------------------
(* Helpers.                                                                  *)

Back     == {j \in Jobs : waiter[j] \in {"result", "promotion"}}
Live(j)  == task[j] \in {"running", "cancelling"}

\* EventInbox.put: only a wait_put() that has parked is woken.
PutArrival == IF arrival = "parked" THEN "fired" ELSE arrival

Put(x) == inbox' = inbox \cup {x} /\ arrival' = PutArrival

\* BackgroundifyHandle.promote(): the jobs of S that it promotes.
Promotable(S) == S \ completed

\* _clear_direct_job_tracking
ClearTracking(S) ==
  /\ active' = active \ Alias(S) /\ meta' = meta \ Alias(S) /\ noted' = noted \ Alias(S)

\* _should_notify_controller_on_background_complete: the default is to notify.
Notifies(j) == j \in Quiet => Alias({j}) \cap (meta \cup noted) = {}

\* _bg_controller_notify.get(jid, True) when the wait is over, before which
\* the tracking of D has been cleared.
OwedAfterWait(D) ==
  {j \in handles \cap promoted : j \in Quiet => Alias({j}) \cap (noted \ Alias(D)) = {}}

Told(S, how) == [j \in Jobs |-> IF j \in S THEN reports[j] \cup {how} ELSE reports[j]]

\* The calls that the messages about the jobs S answer: the ids name them.
Answered(S) == named \cap Alias(S)

\* The end of a wait that forgot what asyncio.wait had returned.
StaleWait ==
  /\ asked' = {} /\ handles' = {} /\ named' = {} /\ waiter' = [j \in Jobs |-> "none"] /\ UNCHANGED finished
  /\ results' = {} /\ moved' = FALSE

NoWait ==
  /\ asked' = {} /\ handles' = {} /\ named' = {} /\ waiter' = [j \in Jobs |-> "none"] /\ finished' = {}
  /\ results' = {} /\ moved' = FALSE

\* The jobs _interrupt_direct_job accepts.
Interruptible == {j \in active : Alias({j}) \cap meta # {} /\ j \notin promoted /\ Live(j)}

\* The interruption of jobs that schedules no finalizer.
CancelOnly(S) ==
  /\ task' = [j \in Jobs |-> IF j \in S THEN "cancelling" ELSE task[j]]
  /\ UNCHANGED scheduled

InterruptJobs(S) ==
  /\ task' = [j \in Jobs |-> IF j \in S THEN "cancelling" ELSE task[j]]
  /\ scheduled' = scheduled \cup S

\* A drain that released no deferred job.
NothingReleased(S) == S

\* The release of the output-wire defer by _drain_mid_turn_pending_inputs.
Released(S) == S \ Alias(inbox \cap Jobs)

------------------------------------------------------------------------------
(* The turn.                                                                 *)

InputArrives ==
  /\ life = "up" /\ unsent > 0
  /\ unsent' = unsent - 1
  /\ Put("input")
  /\ UNCHANGED <<life, turn, calls, jobVars, trackVars, waitVars, modelVars>>

\* The consumer claims the inbox and _prepare_processing_cycle resets the
\* jobs the previous turn owed.
TurnStarts ==
  /\ life = "up" /\ turn = "idle" /\ inbox # {}
  /\ turn' = "llm" /\ inbox' = {} /\ owed' = {}
  /\ UNCHANGED <<life, calls, jobVars, trackVars, waitVars, arrival, unsent, paired, reports, cut>>

\* The calls that have been dispatched or vetoed.
Made == {j \in Jobs : task[j] # "none"} \cup paired

\* The next call of the round in the order of the message.
IsNext(j) == turn = "round" /\ j \in calls /\ \A k \in calls : Order[j] <= Order[k]

\* _run_native_completion: the assistant message announces the calls.
Announces(C) ==
  /\ turn = "llm"
  /\ C \cap Made = {}
  /\ \A j \in C, k \in Jobs : Order[k] < Order[j] => k \in C \cup Made
  /\ turn' = "round" /\ calls' = C /\ asked' = C
  /\ UNCHANGED <<life, jobVars, trackVars, handles, named, waiter, finished, results, moved,
                 arrival, inbox, unsent, modelVars>>

\* run_pre_tool_dispatch: a plugin vetoes the call, which is answered at once.
Vetoed(j) ==
  /\ IsNext(j)
  /\ calls' = calls \ {j} /\ paired' = paired \cup {j}
  /\ UNCHANGED <<life, turn, jobVars, trackVars, waitVars, arrival, inbox, unsent,
                 owed, reports, cut>>

\* The earlier calls whose id a call that fails to start takes over.
Twins(j, fails) == {k \in failed : fails /\ Tool[k] = Tool[j]}

\* _dispatch_tool_event, with start_tool_task: a call that fails to start is
\* direct for the executor, has a task that only returns the error, and takes
\* the place of its twins in the tables.
Dispatch(j, m, fails) ==
  LET twins       == Twins(j, fails)
      Stored(ids) == (ids \ twins) \cup {j}
  IN /\ IsNext(j)
     /\ fails => m # "declared"
     /\ calls' = calls \ {j}
     /\ failed' = IF fails THEN failed \cup {j} ELSE failed
     /\ mode' = [mode EXCEPT ![j] = m]
     /\ \E F \in Failures : {k \in Jobs : mode'[k] # "none"} \cap F = failed'
     /\ task' = [task EXCEPT ![j] = "running"]
     /\ noted' = Stored(noted) \cap Quiet /\ named' = Stored(named)
     /\ active' = IF m = "declared" THEN active ELSE Stored(active)
     /\ \/ /\ m = "direct"
           /\ handles' = Stored(handles) /\ meta' = Stored(meta)
           /\ UNCHANGED <<promoted, owed, paired>>
        \/ /\ m # "direct"
           /\ promoted' = promoted \cup {j}
           /\ owed' = IF j \in Quiet THEN owed ELSE owed \cup {j}
           /\ paired' = paired \cup {j}
           /\ UNCHANGED <<handles, meta>>
     /\ UNCHANGED <<life, turn, asked, completed, callback, scheduled, finalizer, waiter,
                    finished, results, moved, arrival, inbox, unsent, reports, cut>>

\* The rest of _collect_and_push_feedback once _wait_handles has returned the
\* results R, after the promotions P were given a placeholder and the tracking
\* of D was cleared: all of it is one step with the last return of the wait.
Feedback(R, P, D, hadPromotions) ==
  /\ paired' = paired \cup Answered(R \cup P)
  /\ reports' = Told(R, "result")
  /\ owed' = Released(IF hadPromotions THEN owed \cup OwedAfterWait(D) ELSE owed)
  /\ inbox' = {}
  /\ turn' = IF R # {} \/ hadPromotions \/ inbox # {} THEN "llm" ELSE "final"
  /\ NoWait /\ arrival' = "none"

\* The top of the loop of _wait_handles for the handles still waited for: a
\* queued input promotes them, and a new wait_put() task is created.
WaitTop(S) ==
  /\ promoted' = IF "input" \in inbox THEN promoted \cup Promotable(S) ELSE promoted
  /\ arrival' = "created"
  /\ turn' = "waiting"

\* A round without direct handles has nothing to wait for.
RoundEndsWithoutJobs ==
  /\ turn = "round" /\ calls = {} /\ handles = {}
  /\ Feedback({}, {}, {}, FALSE)
  /\ UNCHANGED <<life, calls, jobVars, trackVars, unsent, cut>>

RoundEnds ==
  /\ turn = "round" /\ calls = {} /\ handles # {}
  /\ waiter' = [j \in Jobs |-> IF j \in handles THEN "on" ELSE "none"]
  /\ WaitTop(handles)
  /\ UNCHANGED <<life, calls, mode, failed, task, completed, callback, trackVars, asked,
                 handles, named, finished, results, moved, inbox, unsent, modelVars>>

\* _check_termination is true: the loop is left before the handles are awaited,
\* and no input is accepted any more.
Terminates ==
  /\ "terminate" \in Ops
  /\ life = "up" /\ turn = "round" /\ calls = {}
  /\ life' = "ended" /\ turn' = "final"
  /\ cut' = cut \cup handles
  /\ NoWait /\ unsent' = 0
  /\ UNCHANGED <<calls, jobVars, trackVars, arrival, inbox, owed, paired, reports>>

\* The wait_put() task runs for the first time and creates its future.
ArrivalParks ==
  /\ arrival = "created"
  /\ arrival' = "parked"
  /\ UNCHANGED <<life, turn, calls, jobVars, trackVars, waitVars, inbox, unsent, modelVars>>

\* wait() returning the result of a handle that was promoted too.
ResultOfPromoted(j) ==
  /\ waiter[j] = "on"
  /\ \/ /\ j \in promoted \ completed
        /\ waiter' = [waiter EXCEPT ![j] = "promotion"]
     \/ /\ j \in completed
        /\ waiter' = [waiter EXCEPT ![j] = "result"]
  /\ UNCHANGED <<life, turn, calls, jobVars, trackVars, asked, handles, named, finished,
                 results, moved, arrival, inbox, unsent, modelVars>>

\* BackgroundifyHandle.wait() returns.
WaiterReturns(j) ==
  /\ waiter[j] = "on"
  /\ \/ /\ j \in promoted
        /\ waiter' = [waiter EXCEPT ![j] = "promotion"]
     \/ /\ j \in completed \ promoted
        /\ waiter' = [waiter EXCEPT ![j] = "result"]
  /\ UNCHANGED <<life, turn, calls, jobVars, trackVars, asked, handles, named, finished,
                 results, moved, arrival, inbox, unsent, modelVars>>

\* The body of the loop of _wait_handles for the waiters in D.
Reap(D) ==
  LET P   == {j \in D : waiter[j] = "promotion"}
      R   == D \ P
      all == results \cup R
      had == moved \/ P # {}
  IN /\ active' = active \ Alias(R) /\ noted' = noted \ Alias(R) /\ meta' = meta \ Alias(D)
     /\ IF Waiting \subseteq D
        THEN /\ Feedback(all, P, R, had)
             /\ UNCHANGED promoted
        ELSE /\ WaitTop(Waiting \ D)
             /\ waiter' = [j \in Jobs |-> IF j \in D THEN "none" ELSE waiter[j]]
             /\ paired' = paired \cup Answered(P)
             /\ results' = all /\ moved' = had /\ finished' = {}
             /\ UNCHANGED <<asked, handles, named, inbox, owed, reports>>
     /\ UNCHANGED <<life, calls, mode, failed, task, completed, callback, scheduled,
                    finalizer, unsent, cut>>

\* asyncio.wait returns because of a put: the loop body follows at once.
WokenByPut ==
  /\ turn = "waiting" /\ arrival = "fired"
  /\ Reap(Back)

\* asyncio.wait returns because of waiters: which ones is fixed now, but the
\* wait_put() task is cancelled and awaited before they are looked at.
WokenByWaiter ==
  /\ turn = "waiting" /\ arrival # "fired" /\ Back # {}
  /\ turn' = "reaping" /\ finished' = Back /\ arrival' = "none"
  /\ UNCHANGED <<life, calls, jobVars, trackVars, asked, handles, named, waiter, results,
                 moved, inbox, unsent, modelVars>>

ReapsFinished ==
  /\ turn = "reaping"
  /\ Reap(finished)

\* _finalize_processing; the output wiring is emitted unless jobs are owed.  A
\* consumer that leaves after it rejects what is queued.
TurnEnds ==
  /\ turn = "final"
  /\ turn' = "idle"
  /\ inbox' = IF life = "up" THEN inbox ELSE {}
  /\ UNCHANGED <<life, calls, jobVars, trackVars, waitVars, arrival, unsent, modelVars>>

------------------------------------------------------------------------------
(* The jobs.                                                                 *)

\* The executor's task ends; the completion of a declared background tool is
\* published by _run_tool or _finalize_task itself.
TaskEnds(j) ==
  /\ Live(j)
  /\ task' = [task EXCEPT ![j] = "done"]
  /\ IF mode[j] = "declared" /\ life = "up" /\ Notifies(j)
     THEN Put(j) /\ reports' = Told({j}, "event")
     ELSE UNCHANGED <<inbox, arrival, reports>>
  /\ UNCHANGED <<life, turn, calls, mode, failed, completed, promoted, callback, trackVars,
                 waitVars, unsent, owed, paired, cut>>

\* BackgroundifyHandle._on_task_done, a callback of the task.
DoneCallback(j) ==
  /\ task[j] = "done" /\ j \notin completed
  /\ completed' = completed \cup {j}
  /\ callback' = IF j \in promoted /\ mode[j] # "declared" THEN callback \cup {j}
                                                           ELSE callback
  /\ UNCHANGED <<life, turn, calls, mode, failed, task, promoted, trackVars, waitVars,
                 arrival, inbox, unsent, modelVars>>

\* _on_backgroundify_complete, with _on_bg_complete.
BackgroundCompletes(j) ==
  /\ j \in callback
  /\ callback' = callback \ {j}
  /\ IF life = "up" /\ Notifies(j)
     THEN Put(j) /\ reports' = Told({j}, "event")
     ELSE UNCHANGED <<inbox, arrival, reports>>
  /\ ClearTracking({j})
  /\ UNCHANGED <<life, turn, calls, mode, failed, task, completed, promoted, scheduled,
                 finalizer, waitVars, unsent, owed, paired, cut>>

\* _finalize_interrupted_direct_job begins: it looks the handle and the call up
\* under its id, and returns if one is no longer tracked.
FinalizerStarts(j) ==
  /\ j \in scheduled
  /\ scheduled' = scheduled \ {j}
  /\ finalizer' = finalizer \cup ((active \cap Alias({j})) \X (meta \cap Alias({j})))
  /\ UNCHANGED <<life, turn, calls, jobVars, active, meta, noted, waitVars, arrival,
                 inbox, unsent, modelVars>>

\* ... and ends when the cancelled task has: a call k without a tool message is
\* answered (_append_interrupted_tool_message).
FinalizerEnds(j, k) ==
  /\ <<j, k>> \in finalizer /\ j \in completed
  /\ finalizer' = finalizer \ {<<j, k>>}
  /\ paired' = paired \cup {k}
  /\ reports' = IF k \in paired THEN reports ELSE Told({j}, "cut")
  /\ ClearTracking({j})
  /\ UNCHANGED <<life, turn, calls, jobVars, scheduled, waitVars, arrival, inbox, unsent,
                 owed, cut>>

------------------------------------------------------------------------------
(* Interventions.                                                            *)

InTurn == turn \in {"llm", "round", "waiting", "reaping"}

\* The controller task is cancelled wherever it is suspended.
Unwinds ==
  /\ turn' = (IF InTurn THEN "final" ELSE turn) /\ calls' = {}
  /\ NoWait /\ arrival' = "none"

\* interrupt(): what has been collected, or has ended, is not told to anyone.
Interrupt ==
  /\ "interrupt" \in Ops
  /\ life = "up" /\ InTurn
  /\ Unwinds
  /\ InterruptJobs(Interruptible)
  /\ cut' = cut \cup {j \in handles \ promoted : ~Live(j)}
  /\ UNCHANGED <<life, mode, failed, completed, promoted, callback, active, meta, noted,
                 finalizer, inbox, unsent, owed, paired, reports>>

\* _cancel_job and the stop_task tool, for one job; only a job that started is
\* among the executor's tasks.
CancelJob(j) ==
  /\ "cancel" \in Ops
  /\ life = "up" /\ task[j] = "running"
  /\ \/ j \in Interruptible /\ InterruptJobs({j})
     \/ /\ j \notin Interruptible \cup failed
        /\ task' = [task EXCEPT ![j] = "cancelling"] /\ UNCHANGED scheduled
  /\ UNCHANGED <<life, turn, calls, mode, failed, completed, promoted, callback, active,
                 meta, noted, finalizer, waitVars, arrival, inbox, unsent, modelVars>>

\* _promote_handle, from the TUI or the API.
PromoteJob(j) ==
  /\ "promote" \in Ops
  /\ j \in active \ promoted
  /\ promoted' = promoted \cup Promotable({j})
  /\ UNCHANGED <<life, turn, calls, mode, failed, task, completed, callback, trackVars,
                 waitVars, arrival, inbox, unsent, modelVars>>

\* stop() up to the cancellation of the turn: _finalize_inflight_jobs_for_stop
\* pairs the calls of the jobs that the job store shows as running.  It knows
\* nothing of the calls that failed to start, and cancel() on a task alone does
\* not tell it.
Stop ==
  LET uncancelled == scheduled \cup {k \in Jobs : \E i \in Jobs : <<k, i>> \in finalizer}
      running == {j \in meta \ failed : task[j] = "running" \/ (Live(j) /\ j \in uncancelled)}
  IN /\ "stop" \in Ops
     /\ life \in {"up", "ended"}
     /\ life' = "stopping"
     /\ paired' = paired \cup running
     /\ reports' = Told(running, "cut")
     /\ Unwinds
     /\ cut' = cut \cup {j \in handles \ promoted : ~Live(j)}
     /\ unsent' = 0
     /\ UNCHANGED <<jobVars, trackVars, inbox, owed>>

\* _cancel_executor_tasks, after the turn has ended.
StopCancelsTasks ==
  /\ life = "stopping" /\ turn = "idle"
  /\ life' = "stopped"
  /\ task' = [j \in Jobs |-> IF Live(j) /\ j \notin failed THEN "cancelling" ELSE task[j]]
  /\ UNCHANGED <<turn, calls, mode, failed, completed, promoted, callback, trackVars,
                 waitVars, arrival, inbox, unsent, modelVars>>

------------------------------------------------------------------------------
TurnStep ==
  \/ TurnStarts \/ RoundEndsWithoutJobs \/ RoundEnds \/ WokenByPut \/ WokenByWaiter
  \/ ReapsFinished \/ TurnEnds
  \/ \E C \in SUBSET Jobs : Announces(C)
  \/ \E j \in Jobs : Vetoed(j) \/ \E m \in Modes, fails \in BOOLEAN : Dispatch(j, m, fails)

\* Tasks and callbacks that are ready and that nothing can hold up.
LoopStep(j) ==
  \/ WaiterReturns(j) \/ DoneCallback(j) \/ BackgroundCompletes(j)
  \/ FinalizerStarts(j) \/ \E k \in Jobs : FinalizerEnds(j, k)

Intervention ==
  \/ InputArrives
  \/ \E j \in Jobs : CancelJob(j) \/ PromoteJob(j)
  \/ Interrupt \/ Terminates \/ Stop

\* What happens by itself: tasks and callbacks that are ready run, tools end.
Progress ==
  \/ TurnStep \/ ArrivalParks \/ StopCancelsTasks
  \/ \E j \in Jobs : LoopStep(j) \/ TaskEnds(j)

Next == Progress \/ Intervention

Spec == Init /\ [][Next]_vars

\* The event loop never rests while something is ready, and every tool ends.
EndingSpec == Spec /\ WF_vars(Progress)

------------------------------------------------------------------------------
(* Properties.                                                               *)

\* The outcome of a job reaches the model once: a job whose result the turn
\* collected never puts a completion event in the inbox too, however promotion,
\* completion and the wait interleave.
NotToldTwice == \A j \in Jobs : ~({"result", "event"} \subseteq reports[j])

\* A turn that has deferred its output because it owes background jobs has not
\* done so in vain: the completion of each is still to come, and starts a turn
\* that emits the output.
WireNotStranded ==
  turn = "idle" /\ life = "up" =>
    \A j \in owed : Live(j) \/ (mode[j] # "declared" /\ j \notin completed)
                    \/ j \in callback \cup inbox

\* The id of call j was taken over by a later call of its tool that failed too.
Displaced(j) == j \in failed \ named

\* The next model round of a turn never begins with a call of this one unpaired,
\* whichever of them were vetoed, started in the background, finished, failed,
\* were cancelled or promoted, in whatever order, unless two calls of one tool
\* failed to start and the later one took the id of the other.
NextRoundIsPaired ==
  [][turn' = "llm" => \A j \in asked : j \in paired' \/ Displaced(j)]_vars

\* The model hears of every job that ends, as a result, a completion event it
\* has consumed or an interruption, unless the agent stops, an interrupt found
\* the job already done, or another failing call has the same id.
JobHeard ==
  \A j \in Jobs \ Quiet :
    task[j] = "done" ~>
      \/ reports[j] # {} /\ j \notin inbox
      \/ j \in cut \/ Alias({j}) # {j} \/ life # "up"

==============================================================================
