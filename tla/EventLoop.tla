------------------------------ MODULE EventLoop ------------------------------
(***************************************************************************)
(* The event loop of one agent: the unbounded inbox, its single consumer,  *)
(* the turn the consumer drives, the callers that wait for a turn, and the *)
(* pause / resume / interrupt / stop / start operations that race with it. *)
(*                                                                         *)
(* asyncio runs one task at a time and switches only at an await, so every *)
(* action below is the code between two awaits.  The consumer locations    *)
(* "top" and "runs" are not awaits: no other task acts while the consumer  *)
(* is there (Yielded).                                                     *)
(*                                                                         *)
(* An element of Event is a producer with at most one event in the loop:   *)
(* when its event has left and its caller has returned it may offer        *)
(* another one.  The deque is represented by the place of each event and   *)
(* by the set of events queued ahead of it.                                *)
(***************************************************************************)
CONSTANTS Event,   \* the producers of events
          Kind     \* Kind[e]: what sort of event e is

(* input   : user input or a fired trigger, through _process_event         *)
(* extra   : the ready backlog a firing trigger admits behind its primary  *)
(* bg      : the completion of a background job, put without a future      *)
(* startup : a non-stackable event through _process_event                  *)
(* rerun   : a regeneration or edit turn through _process_event            *)
(* request : run() / run_stream(), one awaited turn of its own             *)
(* drive   : run_event() with a Drive delivery, awaited and non-stackable  *)
Kinds == {"input", "extra", "bg", "startup", "rerun", "request", "drive"}

ASSUME KindAssumption == Kind \in [Event -> Kinds]

Stackable(e) == Kind[e] \in {"input", "extra", "bg", "request"}
Awaited(e)   == Kind[e] \in {"request", "drive"}
\* Events that segment_stackable puts in a run of their own.
Solo(e)      == ~Stackable(e) \/ Awaited(e)

VARIABLES
  life,        \* the lifecycle of the agent object
  running,     \* _running
  paused,      \* _paused
  gate,        \* _consumer_resume is set
  con,         \* where the consumer is suspended
  woken,       \* the future the parked consumer waits on is done
  place,       \* where the event of each producer is
  ahead,       \* the events ahead of each event, among those in the loop
  fut,         \* state of the envelope's future
  caller,      \* what the caller that awaits the future is doing
  withdrawn,   \* envelopes with withdrawn = True
  byUser,      \* events whose context has interrupted_by_user
  interrupted, \* _interrupt_requested
  cancelling,  \* the controller task has a cancellation to deliver
  left         \* how the controller task of the current turn ended

lifeVars  == <<life, running, paused, gate>>
queueVars == <<place, ahead, fut>>
flagVars  == <<withdrawn, byUser>>
turnVars  == <<interrupted, cancelling, left>>
vars == <<lifeVars, con, woken, queueVars, caller, flagVars, turnVars>>

In(p)  == {e \in Event : place[e] = p}
Inbox  == In("inbox")
Batch  == In("batch")
Active == In("active")

Turning == con \in {"begin", "push", "loop", "final"}  \* holds the turn mutex
Yielded == con \notin {"top", "runs"}

\* The oldest events of S.  Backlog events flushed together are not ordered:
\* they are stackable and carry no future, so no code tells them apart.
Oldest(S) == {e \in S : ahead[e] \cap S = {}}
ActiveStackable == \A e \in Oldest(Active) : Stackable(e)

------------------------------------------------------------------------------
(* Helpers: futures, the inbox and the interrupt request.                   *)

\* Resolve the pending futures of S with status s; done futures are left.
Settle(S, s) ==
  fut' = [e \in Event |-> IF e \in S /\ fut[e] = "pending" THEN s ELSE fut[e]]

\* A future whose caller is gone is forgotten with its envelope.
Resolved(S, s) == [e \in Event |-> IF e \notin S THEN fut[e]
                                   ELSE IF caller[e] = "idle" THEN "none"
                                   ELSE IF fut[e] = "pending" THEN s ELSE fut[e]]

Move(S, p) == place' = [e \in Event |-> IF e \in S THEN p ELSE place[e]]

\* The events of S leave the loop; a caller may still look at its event.
Leave(S) ==
  /\ Move(S, "out")
  /\ ahead' = [e \in Event |-> IF e \in S THEN {} ELSE ahead[e] \ S]
  /\ withdrawn' = withdrawn \ S
  /\ byUser' = byUser \ {e \in S : caller[e] = "idle"}

\* Mutant of WakeInbox: put appends without resolving the latch.
WakeNobody == UNCHANGED woken

\* EventInbox.wake: resolve the latch of a consumer parked on the inbox.
WakeInbox == woken' = (woken \/ con = "waitInbox")

\* asyncio.Event.set on the resume gate, followed by EventInbox.wake.  A task
\* released from the gate goes on even if the gate is cleared before it runs.
WakeAll == woken' = (woken \/ con \in {"waitTop", "waitRun", "waitInbox"})

\* EventInbox.put of the events S behind everything in the loop, in this order:
\* the primary, if S has one, then the backlog.
Enqueue(S, primary) ==
  LET queue == Inbox \cup Batch \cup Active
  IN /\ Move(S \cup primary, "inbox")
     /\ ahead' = [e \in Event |-> IF e \in primary THEN queue
                                  ELSE IF e \in S THEN queue \cup primary ELSE ahead[e]]

\* put(e) with future state f and _flush_trigger_backlog_stash, backlog X included.
Put(e, f, X) ==
  /\ Enqueue(In("stash") \cup X, {e})
  /\ fut' = [fut EXCEPT ![e] = f]
  /\ WakeInbox

\* _interrupt_active_turn: the flag, and one cancellation of the controller task.
InterruptActiveTurn ==
  /\ interrupted' = TRUE
  /\ cancelling'  = (cancelling \/ (con = "loop" /\ ~interrupted))
  /\ UNCHANGED left

------------------------------------------------------------------------------
(* Ingress.                                                                 *)

Fresh(e) == Yielded /\ place[e] = "out" /\ caller[e] = "idle"

\* A trigger stashes its ready backlog just before its own event is offered.
Extras     == {x \in Event : Kind[x] = "extra"}
Backlog(e) == IF Kind[e] = "input" THEN SUBSET (Extras \cap In("out")) ELSE {{}}

\* _process_event while stopped: the event is dropped (or the call raises) and
\* the backlog stays stashed.
ProcessEventDropped(e, X) ==
  /\ Fresh(e) /\ Kind[e] \in {"input", "startup", "rerun"} /\ X \in Backlog(e)
  /\ ~running
  /\ Move(X, "stash")
  /\ UNCHANGED <<lifeVars, con, woken, ahead, fut, caller, flagVars, turnVars>>

\* A stackable event folds into a running stackable turn, without a future.
Folds(e) == /\ Kind[e] = "input" /\ ~paused
            /\ Turning /\ ActiveStackable

\* _process_event while running: fold, buffer during a pause (a rerun is refused
\* without a trace), or wait for the turn as its primary.
ProcessEvent(e, X) ==
  /\ Fresh(e) /\ Kind[e] \in {"input", "startup", "rerun"} /\ X \in Backlog(e)
  /\ running
  /\ \/ /\ Folds(e) \/ (paused /\ Kind[e] # "rerun")
        /\ Put(e, "none", X)
        /\ UNCHANGED caller
     \/ /\ ~Folds(e) /\ ~paused
        /\ Put(e, "pending", X)
        /\ caller' = [caller EXCEPT ![e] = "waiting"]
  /\ UNCHANGED <<lifeVars, con, flagVars, turnVars>>

\* A background job completes: its event is put, unless the agent is stopped.
BackgroundComplete(e) ==
  /\ Fresh(e) /\ Kind[e] = "bg" /\ running
  /\ Put(e, "none", {})
  /\ UNCHANGED <<lifeVars, con, caller, flagVars, turnVars>>

\* _enqueue_awaiting: a stopped or paused agent refuses the request at once.
Submit(e) ==
  /\ Fresh(e) /\ Awaited(e)
  /\ caller' = [caller EXCEPT ![e] = "waiting"]
  /\ \/ /\ running /\ ~paused
        /\ Put(e, "pending", {})
     \/ /\ ~running \/ paused
        /\ fut' = [fut EXCEPT ![e] = "rejected"]
        /\ UNCHANGED <<woken, place, ahead>>
  /\ UNCHANGED <<lifeVars, con, flagVars, turnVars>>

\* cancel_pending: drop a still-queued event, resolving its future.
CancelPending(e) ==
  /\ Yielded /\ place[e] = "inbox" /\ Kind[e] \in {"input", "bg"}
  /\ Leave({e})
  /\ fut' = Resolved({e}, "rejected")
  /\ UNCHANGED <<lifeVars, con, woken, caller, turnVars>>

------------------------------------------------------------------------------
(* The callers.                                                             *)

\* What the call reports of its turn.  run_event takes interrupted_by_user from
\* the context of the event, run from the outcome.
SaysUser(e) == IF Kind[e] = "drive" THEN e \in byUser ELSE fut[e] = "byuser"

\* The caller is back: what it was told is forgotten with its event.
Return(e) ==
  /\ caller' = [caller EXCEPT ![e] = "idle"]
  /\ fut'    = [fut EXCEPT ![e] = IF place[e] = "out" THEN "none" ELSE @]
  /\ byUser' = IF place[e] = "out" THEN byUser \ {e} ELSE byUser

\* The awaited future is done and the caller resumes.
CallReturns(e) ==
  /\ Yielded /\ caller[e] = "waiting" /\ fut[e] # "pending"
  /\ Return(e)
  /\ UNCHANGED <<lifeVars, con, woken, place, ahead, withdrawn, turnVars>>

\* The task awaiting _process_event is cancelled, and its future with it.
CallAbandoned(e) ==
  /\ Yielded /\ caller[e] = "waiting" /\ fut[e] = "pending" /\ ~Awaited(e)
  /\ caller' = [caller EXCEPT ![e] = "idle"]
  /\ fut'    = [fut EXCEPT ![e] = "cancelled"]
  /\ UNCHANGED <<lifeVars, con, woken, place, ahead, flagVars, turnVars>>

\* _withdraw_awaiting, after a timeout or a cancellation of the caller: a request
\* that has no turn yet is done with, an active one interrupts its turn.
Withdraw(e) ==
  /\ Yielded /\ caller[e] = "waiting" /\ fut[e] = "pending" /\ Awaited(e)
  /\ \/ /\ place[e] = "inbox"
        /\ Leave({e}) /\ Settle({e}, "interrupted")
        /\ UNCHANGED <<caller, turnVars>>
     \/ /\ place[e] = "batch"
        /\ withdrawn' = withdrawn \cup {e} /\ Settle({e}, "interrupted")
        /\ UNCHANGED <<caller, place, ahead, byUser, turnVars>>
     \/ /\ place[e] = "active"
        /\ withdrawn' = withdrawn \cup {e}
        /\ InterruptActiveTurn
        /\ caller' = [caller EXCEPT ![e] = "leaving"]
        /\ UNCHANGED <<queueVars, byUser>>
  /\ UNCHANGED <<lifeVars, con, woken>>

\* The owned cleanup ends: the turn settled, or the grace period ran out.
WithdrawEnds(e) ==
  /\ Yielded /\ caller[e] = "leaving"
  /\ Return(e)
  /\ UNCHANGED <<lifeVars, con, woken, place, ahead, withdrawn, turnVars>>

------------------------------------------------------------------------------
(* Operators of the agent: interrupt, pause, resume.                        *)

\* interrupt(): mark the primary, cancel the turn, drop the queued deliveries.
Interrupt ==
  /\ Yielded
  /\ InterruptActiveTurn
  /\ LET drives == {e \in Inbox : Kind[e] = "drive"}
     IN /\ Move(drives, "out")
        /\ ahead' = [e \in Event |-> IF e \in drives THEN {} ELSE ahead[e] \ drives]
        /\ Settle(drives, "byuser")
  /\ byUser' = byUser \cup Oldest(Active)
  /\ UNCHANGED <<lifeVars, con, woken, caller, withdrawn>>

Pause ==
  /\ Yielded /\ ~paused
  /\ paused' = TRUE /\ gate' = FALSE
  /\ UNCHANGED <<life, running, con, woken, queueVars, caller, flagVars, turnVars>>

Resume ==
  /\ Yielded /\ paused
  /\ paused' = FALSE /\ gate' = TRUE
  /\ WakeAll
  /\ UNCHANGED <<life, running, con, queueVars, caller, flagVars, turnVars>>

------------------------------------------------------------------------------
(* The consumer: claim the whole inbox, one turn per stackable run.         *)

Goto(c) == con' = c /\ woken' = FALSE

\* Mutants of ConsumerExits: the inbox is not drained, or everything the consumer
\* holds is rejected, the turn in progress included.
ExitsWithoutDraining(active) ==
  /\ Goto("down") /\ Leave(Batch \cup Active)
  /\ fut' = [e \in Event |-> Resolved(Batch \cup Active,
                                      IF e \in Active THEN active ELSE "rejected")[e]]
ExitsRejectingAll(active) ==
  /\ Goto("down") /\ Leave(Inbox \cup Batch \cup Active)
  /\ fut' = Resolved(Inbox \cup Batch \cup Active, "rejected")

\* The finally block of _run_event_consumer: nobody waits for a dead consumer.
ConsumerExits(active) ==
  LET all == Inbox \cup Batch \cup Active
  IN /\ Goto("down")
     /\ Leave(all)
     /\ fut' = [e \in Event |-> Resolved(all, IF e \in Active THEN active ELSE "rejected")[e]]

\* Mutants of ConsumerTop: parked without a look at the deque, or never left.
TopParksBlindly ==
  /\ con = "top" \/ (con = "waitTop" /\ woken)
  /\ \/ /\ ~running /\ ConsumerExits("rejected")
     \/ /\ running
        /\ IF con = "top" /\ ~gate THEN Goto("waitTop") ELSE Goto("waitInbox")
        /\ UNCHANGED <<queueVars, flagVars>>
  /\ UNCHANGED <<lifeVars, caller, turnVars>>
TopNeverLeaves ==
  /\ con = "top" \/ (con = "waitTop" /\ woken)
  /\ IF con = "top" /\ ~gate THEN Goto("waitTop")
     ELSE IF Inbox = {} THEN Goto("waitInbox") ELSE Goto("settle")
  /\ UNCHANGED <<lifeVars, queueVars, caller, flagVars, turnVars>>

\* The head of the loop: leave, park on the resume gate, park on the inbox, or
\* yield a few times so that simultaneous producers reach the inbox.
ConsumerTop ==
  /\ con = "top" \/ (con = "waitTop" /\ woken)
  /\ \/ /\ ~running /\ ConsumerExits("rejected")
     \/ /\ running
        /\ IF con = "top" /\ ~gate THEN Goto("waitTop")
           ELSE IF Inbox = {} THEN Goto("waitInbox") ELSE Goto("settle")
        /\ UNCHANGED <<queueVars, flagVars>>
  /\ UNCHANGED <<lifeVars, caller, turnVars>>

ConsumerWakes ==
  /\ con = "waitInbox" /\ woken
  /\ \/ ~running /\ ConsumerExits("rejected")
     \/ running /\ Goto("settle") /\ UNCHANGED <<queueVars, flagVars>>
  /\ UNCHANGED <<lifeVars, caller, turnVars>>

\* After the settle window: claim everything, unless stopped or paused since.
ConsumerClaims ==
  /\ con = "settle"
  /\ \/ ~running /\ ConsumerExits("rejected")
     \/ running /\ ~gate /\ Goto("top") /\ UNCHANGED <<queueVars, flagVars>>
     \/ running /\ gate /\ Goto("runs") /\ Move(Inbox, "batch")
        /\ UNCHANGED <<ahead, fut, flagVars>>
  /\ UNCHANGED <<lifeVars, caller, turnVars>>

\* Mutant of NextRun: a stackable request is not given a run of its own.
NextRunByStackable ==
  IF \E e \in Oldest(Batch) : ~Stackable(e) THEN Oldest(Batch)
  ELSE {e \in Batch : \A f \in Batch : ~Stackable(f) => e \in ahead[f]}

\* segment_stackable: the next run of the batch is its oldest event alone, or
\* the oldest events up to the first one that must have a turn of its own.
NextRun ==
  IF \E e \in Oldest(Batch) : Solo(e) THEN Oldest(Batch)
  ELSE {e \in Batch : \A f \in Batch : Solo(f) => e \in ahead[f]}

RunParks ==
  /\ con = "runs" /\ Batch # {} /\ ~gate
  /\ Goto("waitRun")
  /\ UNCHANGED <<lifeVars, queueVars, caller, flagVars, turnVars>>

BatchDone ==
  /\ con = "runs" /\ Batch = {}
  /\ Goto("top")
  /\ UNCHANGED <<lifeVars, queueVars, caller, flagVars, turnVars>>

PassesRunGate == \/ con = "runs" /\ Batch # {} /\ gate
                 \/ con = "waitRun" /\ woken

\* The agent stopped before the run's turn: its callers are rejected.
RunRejected ==
  /\ PassesRunGate /\ ~running
  /\ Goto("runs")
  /\ Leave(NextRun)
  /\ fut' = Resolved(NextRun, "rejected")
  /\ UNCHANGED <<lifeVars, caller, turnVars>>

\* _run_turn_for_batch leaves withdrawn envelopes out; here the run has no other.
RunWithdrawn ==
  /\ PassesRunGate /\ running /\ NextRun \subseteq withdrawn
  /\ Goto("runs")
  /\ Leave(NextRun)
  /\ fut' = Resolved(NextRun, "interrupted")
  /\ UNCHANGED <<lifeVars, caller, turnVars>>

\* Mutant of TurnBegins: withdrawn envelopes are not left out.
BeginsWithdrawn ==
  /\ PassesRunGate /\ running
  /\ Goto("begin") /\ Move(NextRun, "active")
  /\ UNCHANGED <<lifeVars, ahead, fut, caller, flagVars, turnVars>>

\* Only requests are withdrawn and each is a run of its own, so a run that is
\* not withdrawn has no withdrawn envelope to leave out.
TurnBegins ==
  /\ PassesRunGate /\ running /\ ~(NextRun \subseteq withdrawn)
  /\ Goto("begin")
  /\ Move(NextRun, "active")
  /\ UNCHANGED <<lifeVars, ahead, fut, caller, flagVars, turnVars>>

------------------------------------------------------------------------------
(* The turn.                                                                *)

\* Mutant of CyclePrepared: the interrupt request of an earlier turn is kept.
CycleKeepsInterrupt ==
  /\ con = "begin"
  /\ Goto("push")
  /\ UNCHANGED <<lifeVars, queueVars, caller, flagVars, turnVars>>

\* _begin_batch is over; _prepare_processing_cycle resets the interrupt request.
CyclePrepared ==
  /\ con = "begin"
  /\ Goto("push")
  /\ interrupted' = FALSE
  /\ UNCHANGED <<lifeVars, queueVars, caller, flagVars, cancelling, left>>

\* The controller task is created; a request withdrawn meanwhile interrupts it.
ControllerStarts ==
  /\ con = "push"
  /\ Goto("loop")
  /\ interrupted' = (interrupted \/ Active \cap withdrawn # {})
  /\ UNCHANGED <<lifeVars, queueVars, caller, flagVars, cancelling, left>>

\* drain_foldable: the leading envelopes without a future that may be stacked.
Foldable(e) == Stackable(e) /\ fut[e] = "none"
Folding == {e \in Inbox : Foldable(e) /\ \A f \in Inbox \cap ahead[e] : Foldable(f)}

\* The feedback of a controller round claims the foldable events into the turn.
RoundFolds ==
  /\ con = "loop" /\ ~interrupted /\ ~cancelling
  /\ Folding # {}
  /\ Move(Folding, "active")
  /\ UNCHANGED <<lifeVars, con, woken, ahead, fut, caller, flagVars, turnVars>>

\* The controller task is over, however it ended.
LeaveLoop(how) ==
  /\ Goto("final")
  /\ left' = how
  /\ cancelling' = FALSE
  /\ byUser' = IF interrupted /\ Active \cap withdrawn = {}
               THEN byUser \cup Oldest(Active) ELSE byUser
  /\ UNCHANGED <<life, paused, gate, queueVars, caller, withdrawn, interrupted>>

\* The last round: the model asks for nothing more, or the controller raises (a
\* processing_error of the turn).
LastRound ==
  /\ con = "loop" /\ ~interrupted /\ ~cancelling
  /\ \E how \in {"ended", "error"} : LeaveLoop(how)
  /\ UNCHANGED running

\* A termination condition holds or the iteration budget is exhausted: the turn
\* ends well and the agent runs no more, although nobody has called stop().
Terminates ==
  /\ con = "loop" /\ ~interrupted /\ ~cancelling
  /\ LeaveLoop("ended")
  /\ running' = FALSE

\* The loop sees the request between two rounds, or is cancelled inside one.
LoopInterrupted ==
  /\ con = "loop" /\ (interrupted \/ cancelling)
  /\ LeaveLoop("cut")
  /\ UNCHANGED running

\* Mutant of Outcome: the end of the controller task is reported as it is.
OutcomeOfTask == IF Oldest(Active) \cap byUser # {} THEN "byuser" ELSE left

\* How _resolve_run and the capture of the caller report the turn.
Outcome == IF Oldest(Active) \cap byUser # {} THEN "byuser"
           ELSE IF Active \cap withdrawn # {} THEN "interrupted"
           ELSE IF left = "error" THEN "failed" ELSE "ok"

\* The turn is finalized: release the mutex, flush the stash if the turn was
\* interrupted, and resolve every future of the run.
TurnFinishes ==
  /\ con = "final"
  /\ Goto("runs") /\ left' = "none"
  /\ fut' = Resolved(Active, Outcome)
  /\ LET tail == IF Outcome \in {"byuser", "interrupted"} THEN In("stash") ELSE {}
     IN /\ place' = [e \in Event |-> IF e \in Active THEN "out"
                                     ELSE IF e \in tail THEN "inbox" ELSE place[e]]
        /\ ahead' = [e \in Event |-> IF e \in Active THEN {}
                                     ELSE IF e \in tail THEN Inbox \cup Batch
                                     ELSE ahead[e] \ Active]
  /\ withdrawn' = withdrawn \ Active
  /\ byUser' = byUser \ {e \in Active : caller[e] = "idle"}
  /\ UNCHANGED <<lifeVars, caller, interrupted, cancelling>>

\* An exception outside the controller task: the run is rejected with an error.
TurnCrashes ==
  /\ con \in {"begin", "push", "final"}
  /\ Goto("runs") /\ left' = "none"
  /\ Leave(Active)
  /\ fut' = Resolved(Active, "error")
  /\ UNCHANGED <<lifeVars, caller, interrupted, cancelling>>

------------------------------------------------------------------------------
(* start() and stop().                                                      *)

\* start() up to _running = True; modules are still loading.
StartRuns ==
  /\ life = "off"
  /\ life' = "starting" /\ running' = TRUE /\ paused' = FALSE
  /\ UNCHANGED <<gate, con, woken, queueVars, caller, flagVars, turnVars>>

\* start() ends by opening the gate and creating the consumer task.
StartConsumer ==
  /\ life = "starting"
  /\ life' = "up" /\ gate' = TRUE
  /\ Goto("top")
  /\ UNCHANGED <<running, paused, queueVars, caller, flagVars, turnVars>>

\* stop(): refuse new work, wake the consumer, cancel the controller task.
StopBegins ==
  /\ Yielded /\ life = "up"
  /\ running' = FALSE /\ gate' = TRUE
  /\ WakeAll
  /\ life' = IF con = "loop" THEN "gathering" ELSE "joining"
  /\ cancelling' = (cancelling \/ con = "loop")
  /\ UNCHANGED <<paused, con, queueVars, caller, flagVars, interrupted, left>>

\* The cancelled controller task has ended.
StopGathered ==
  /\ Yielded /\ life = "gathering" /\ con # "loop"
  /\ life' = "joining"
  /\ UNCHANGED <<running, paused, gate, con, woken, queueVars, caller, flagVars, turnVars>>

\* The turn mutex was acquired, or ten seconds passed: cancel the consumer.  A
\* consumer that awaits its controller task passes the cancellation on to it.
StopReaps ==
  /\ Yielded /\ life = "joining" /\ con # "down"
  /\ life' = "reaping"
  /\ IF con = "loop"
     THEN cancelling' = TRUE /\ UNCHANGED <<con, woken, queueVars, flagVars, left>>
     ELSE ConsumerExits("interrupted") /\ left' = "none" /\ UNCHANGED cancelling
  /\ UNCHANGED <<running, paused, gate, caller, interrupted>>

StopEnds ==
  /\ life \in {"joining", "reaping"} /\ con = "down"
  /\ life' = "off"
  /\ UNCHANGED <<running, paused, gate, con, woken, queueVars, caller, flagVars, turnVars>>

------------------------------------------------------------------------------
Init ==
  /\ life = "off" /\ running = FALSE /\ paused = FALSE /\ gate = TRUE
  /\ con = "down" /\ woken = FALSE
  /\ place = [e \in Event |-> "out"] /\ ahead = [e \in Event |-> {}]
  /\ fut = [e \in Event |-> "none"] /\ caller = [e \in Event |-> "idle"]
  /\ withdrawn = {} /\ byUser = {}
  /\ interrupted = FALSE /\ cancelling = FALSE /\ left = "none"

Consumer == \/ ConsumerTop \/ ConsumerWakes \/ ConsumerClaims
            \/ RunParks \/ BatchDone \/ RunRejected \/ RunWithdrawn \/ TurnBegins
            \/ CyclePrepared \/ ControllerStarts
            \/ LastRound \/ Terminates \/ LoopInterrupted \/ TurnFinishes \/ TurnCrashes

Ingress == \E e \in Event :
             \/ \E X \in SUBSET Extras : ProcessEvent(e, X) \/ ProcessEventDropped(e, X)
             \/ BackgroundComplete(e) \/ Submit(e) \/ CancelPending(e)

Callers == \E e \in Event :
             CallReturns(e) \/ CallAbandoned(e) \/ Withdraw(e) \/ WithdrawEnds(e)

Control == \/ Interrupt \/ Pause \/ Resume
           \/ StartRuns \/ StartConsumer
           \/ StopBegins \/ StopGathered \/ StopReaps \/ StopEnds

Next == Consumer \/ RoundFolds \/ Ingress \/ Callers \/ Control

Spec == Init /\ [][Next]_vars

\* Tasks the event loop always gets back to: the consumer, whose controller
\* task ends some time (its rounds may fold events before, RoundFolds), the
\* callers whose awaited future is done, and start() and stop() once begun.
\* Nothing makes anybody resume a paused agent, interrupt it or submit to it.
Fairness ==
  /\ WF_vars(Consumer)
  /\ \A e \in Event : WF_vars(CallReturns(e)) /\ WF_vars(WithdrawEnds(e))
  /\ WF_vars(StartConsumer)
  /\ WF_vars(StopGathered) /\ WF_vars(StopReaps) /\ WF_vars(StopEnds)

FairSpec == Spec /\ Fairness

------------------------------------------------------------------------------
(* Properties.                                                              *)

Lives     == {"off", "starting", "up", "gathering", "joining", "reaping"}
Locations == {"down", "top", "waitTop", "waitInbox", "settle", "runs", "waitRun",
              "begin", "push", "loop", "final"}
Places    == {"out", "stash", "inbox", "batch", "active"}
Futures   == {"none", "pending", "ok", "failed", "interrupted", "byuser", "rejected",
              "error", "cancelled"}

\* The states of the loop: in particular a future holds one of the statuses of a
\* TurnResult, and nothing of how the controller task ended leaks into it.
TypeOK ==
  /\ life \in Lives /\ con \in Locations
  /\ running \in BOOLEAN /\ paused \in BOOLEAN /\ gate \in BOOLEAN /\ woken \in BOOLEAN
  /\ place \in [Event -> Places] /\ ahead \in [Event -> SUBSET Event]
  /\ fut \in [Event -> Futures] /\ caller \in [Event -> {"idle", "waiting", "leaving"}]
  /\ withdrawn \subseteq Event /\ byUser \subseteq Event
  /\ interrupted \in BOOLEAN /\ cancelling \in BOOLEAN
  /\ left \in {"none", "ended", "error", "cut"}

\* A caller of run(), run_event() or _process_event is never left waiting for a
\* future nobody will resolve: a pending future belongs to an envelope the
\* consumer still holds or will claim, and there is a consumer unless start()
\* is about to create it (_reject_run, _drain_and_reject_inbox).
NoCallerStranded ==
  \A e \in Event : fut[e] = "pending" =>
    /\ place[e] \in {"inbox", "batch", "active"}
    /\ con = "down" => life = "starting"

\* What NoCallerStranded and RejectedNeverRan rest on: the agent runs only
\* between start() and stop(), with a consumer once start() is over and as long
\* as no termination condition has ended the run, and an event is active only
\* while the consumer holds the turn mutex.
LifeInv == /\ running => life \in {"starting", "up"}
           /\ life = "starting" => running
           /\ life \in {"off", "starting"} => con = "down"
           /\ running /\ life = "up" => con # "down"
ActiveInv == Active # {} => Turning

\* Whoever is told "rejected" had no turn: TurnResult promises that the event
\* of a rejected call never ran, across stop, restart and crash of the turn.
RejectedNeverRan ==
  [][\A e \in Event : fut[e] = "pending" /\ fut'[e] = "rejected" => place[e] # "active"]_vars

\* A turn is cut short only for a reason of its own: the user interrupted it,
\* its own request was withdrawn, or the agent is stopping.  An interrupt meant
\* for a turn that is over never reaches the next one (_prepare_processing_cycle).
CutForItsOwnReason ==
  [][con = "loop" /\ con' = "final" /\ left' = "cut" =>
       \/ Oldest(Active) \cap byUser # {}
       \/ Active \cap withdrawn # {}
       \/ ~running]_vars

Outstanding(e) == fut[e] = "pending" \/ (fut[e] = "none" /\ place[e] = "inbox")

\* Every event is served unless the agent stays paused: a caller is answered,
\* and an event nobody awaits (a completion, a backlog, a buffered input) leaves
\* the inbox, by a turn or by the drain of a consumer that stops.  No wakeup of
\* the consumer is lost, and neither stop, a termination condition nor a crashed
\* turn leaves an event behind a dead consumer.
EventServed ==
  \A e \in Event : Outstanding(e) ~> (~Outstanding(e) \/ paused)

Stopping == life \in {"gathering", "joining", "reaping"}

\* stop() terminates, whatever the consumer was doing when it was called, as
\* long as nobody pauses the agent while it is being stopped.
StopTerminates == Stopping ~> (life = "off" \/ (paused /\ life = "reaping"))

------------------------------------------------------------------------------
(* Statements of the documentation and comments that the code departs from. *)

\* The docstring of interrupt(): a dropped delivery settles as user-interrupted,
\* so the call that delivered it reports interrupted_by_user.
DroppedDeliverySaysUser ==
  \A e \in Event : caller[e] = "waiting" /\ fut[e] = "byuser" => SaysUser(e)

==============================================================================
