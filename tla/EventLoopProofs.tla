-------------------------- MODULE EventLoopProofs ---------------------------
(***************************************************************************)
(* Theorems about EventLoop for any set of producers of any kinds.         *)
(***************************************************************************)
EXTENDS EventLoop, TLAPS

------------------------------------------------------------------------------
(* The helpers of EventLoop keep the types of what they assign.             *)

LEMMA MoveType ==
  ASSUME TypeOK, NEW S, NEW p \in Places, Move(S, p)
  PROVE  place' \in [Event -> Places]
  BY DEF TypeOK, Move

LEMMA SettleType ==
  ASSUME TypeOK, NEW S, NEW s \in Futures, Settle(S, s)
  PROVE  fut' \in [Event -> Futures]
  BY DEF TypeOK, Settle

LEMMA ResolvedType ==
  ASSUME TypeOK, NEW S, NEW s \in Futures
  PROVE  Resolved(S, s) \in [Event -> Futures]
  BY DEF TypeOK, Resolved, Futures

LEMMA LeaveType ==
  ASSUME TypeOK, NEW S, Leave(S)
  PROVE  /\ place' \in [Event -> Places] /\ ahead' \in [Event -> SUBSET Event]
         /\ withdrawn' \subseteq Event /\ byUser' \subseteq Event
  <1>1. place' \in [Event -> Places]
    BY MoveType DEF Leave, Places
  <1>2. ahead' \in [Event -> SUBSET Event]
    BY DEF TypeOK, Leave
  <1> QED BY <1>1, <1>2 DEF TypeOK, Leave

LEMMA PutType ==
  ASSUME TypeOK, NEW e \in Event, NEW f \in Futures, NEW X \in SUBSET Event, Put(e, f, X)
  PROVE  /\ place' \in [Event -> Places] /\ ahead' \in [Event -> SUBSET Event]
         /\ fut' \in [Event -> Futures] /\ woken' \in BOOLEAN
  <1>1. place' \in [Event -> Places]
    BY MoveType DEF Put, Enqueue, Places
  <1>2. ahead' \in [Event -> SUBSET Event]
    BY DEF TypeOK, Put, Enqueue, In, Inbox, Batch, Active
  <1>3. fut' \in [Event -> Futures]
    BY DEF TypeOK, Put
  <1>4. woken' \in BOOLEAN
    BY DEF TypeOK, Put, WakeInbox
  <1> QED BY <1>1, <1>2, <1>3, <1>4

LEMMA ExitType ==
  ASSUME TypeOK, NEW s \in Futures, ConsumerExits(s)
  PROVE  /\ place' \in [Event -> Places] /\ ahead' \in [Event -> SUBSET Event]
         /\ withdrawn' \subseteq Event /\ byUser' \subseteq Event
         /\ fut' \in [Event -> Futures]
         /\ con' \in Locations /\ woken' \in BOOLEAN
  <1>1. /\ place' \in [Event -> Places] /\ ahead' \in [Event -> SUBSET Event]
        /\ withdrawn' \subseteq Event /\ byUser' \subseteq Event
    BY LeaveType DEF ConsumerExits
  <1>2. fut' \in [Event -> Futures]
    BY ResolvedType DEF ConsumerExits, Futures
  <1> QED BY <1>1, <1>2 DEF ConsumerExits, Goto, Locations

------------------------------------------------------------------------------
(* Type correctness.                                                        *)

LEMMA InitType == Init => TypeOK
  BY DEF Init, TypeOK, Lives, Locations, Places, Futures

LEMMA ConsumerTypes ==
  ASSUME TypeOK, Consumer \/ RoundFolds
  PROVE  TypeOK'
  <1> USE DEF Locations, Places, Futures, Goto
  <1>1. CASE ConsumerTop
    BY <1>1, ExitType DEF TypeOK, ConsumerTop, lifeVars, queueVars, flagVars, turnVars
  <1>2. CASE ConsumerWakes
    BY <1>2, ExitType DEF TypeOK, ConsumerWakes, lifeVars, queueVars, flagVars, turnVars
  <1>3. CASE ConsumerClaims
    <2>1. CASE ConsumerExits("rejected")
      BY <1>3, <2>1, ExitType DEF TypeOK, ConsumerClaims, lifeVars, turnVars
    <2>2. CASE Goto("top") /\ UNCHANGED <<queueVars, flagVars>>
      BY <1>3, <2>2 DEF TypeOK, ConsumerClaims, lifeVars, queueVars, flagVars, turnVars
    <2>3. CASE Goto("runs") /\ Move(Inbox, "batch") /\ UNCHANGED <<ahead, fut, flagVars>>
      BY <1>3, <2>3, MoveType DEF TypeOK, ConsumerClaims, lifeVars, flagVars, turnVars
    <2> QED BY <1>3, <2>1, <2>2, <2>3 DEF ConsumerClaims
  <1>4. CASE RunParks \/ BatchDone
    BY <1>4 DEF TypeOK, RunParks, BatchDone, lifeVars, queueVars, flagVars, turnVars
  <1>5. CASE RunRejected
    BY <1>5, LeaveType, ResolvedType DEF TypeOK, RunRejected, lifeVars, turnVars
  <1>6. CASE RunWithdrawn
    BY <1>6, LeaveType, ResolvedType DEF TypeOK, RunWithdrawn, lifeVars, turnVars
  <1>7. CASE TurnBegins
    BY <1>7, MoveType DEF TypeOK, TurnBegins, lifeVars, flagVars, turnVars
  <1>8. CASE CyclePrepared \/ ControllerStarts
    BY <1>8 DEF TypeOK, CyclePrepared, ControllerStarts, lifeVars, queueVars, flagVars
  <1>9. CASE LastRound \/ Terminates \/ LoopInterrupted
    <2>1. PICK how \in {"ended", "error", "cut"} : LeaveLoop(how) /\ running' \in BOOLEAN
      BY <1>9 DEF TypeOK, LastRound, Terminates, LoopInterrupted
    <2> QED BY <2>1 DEF TypeOK, LeaveLoop, Oldest, Active, In, queueVars
  <1>10. CASE TurnFinishes
    <2>1. Outcome \in Futures
      BY DEF Outcome
    <2>2. fut' \in [Event -> Futures]
      BY <1>10, <2>1, ResolvedType DEF TurnFinishes
    <2>3. place' \in [Event -> Places] /\ ahead' \in [Event -> SUBSET Event]
      BY <1>10 DEF TypeOK, TurnFinishes, Inbox, Batch, In
    <2> QED BY <1>10, <2>2, <2>3 DEF TypeOK, TurnFinishes, lifeVars
  <1>11. CASE TurnCrashes
    BY <1>11, LeaveType, ResolvedType DEF TypeOK, TurnCrashes, lifeVars
  <1>12. CASE RoundFolds
    BY <1>12, MoveType DEF TypeOK, RoundFolds, lifeVars, flagVars, turnVars
  <1> QED BY <1>1, <1>2, <1>3, <1>4, <1>5, <1>6, <1>7, <1>8, <1>9, <1>10, <1>11, <1>12
             DEF Consumer

LEMMA IngressTypes ==
  ASSUME TypeOK, NEW e \in Event, NEW X \in Backlog(e),
         \/ ProcessEvent(e, X) \/ ProcessEventDropped(e, X)
         \/ BackgroundComplete(e) \/ Submit(e) \/ CancelPending(e)
  PROVE  TypeOK'
  <1> USE DEF Places, Futures
  <1>0. X \in SUBSET Event
    BY DEF Backlog, In
  <1>1. CASE ProcessEvent(e, X)
    <2>1. PICK f \in {"none", "pending"} : Put(e, f, X)
      BY <1>1 DEF ProcessEvent
    <2>2. caller' \in [Event -> {"idle", "waiting", "leaving"}]
      BY <1>1 DEF TypeOK, ProcessEvent
    <2> QED BY <1>0, <1>1, <2>1, <2>2, PutType DEF TypeOK, ProcessEvent, lifeVars, flagVars, turnVars
  <1>2. CASE ProcessEventDropped(e, X)
    BY <1>2, MoveType DEF TypeOK, ProcessEventDropped, lifeVars, flagVars, turnVars
  <1>3. CASE BackgroundComplete(e)
    BY <1>3, PutType DEF TypeOK, BackgroundComplete, lifeVars, flagVars, turnVars
  <1>4. CASE Submit(e)
    <2>1. CASE Put(e, "pending", {})
      BY <1>4, <2>1, PutType DEF TypeOK, Submit, lifeVars, flagVars, turnVars
    <2>2. CASE fut' = [fut EXCEPT ![e] = "rejected"] /\ UNCHANGED <<woken, place, ahead>>
      BY <1>4, <2>2 DEF TypeOK, Submit, lifeVars, flagVars, turnVars
    <2> QED BY <1>4, <2>1, <2>2 DEF Submit
  <1>5. CASE CancelPending(e)
    BY <1>5, LeaveType, ResolvedType DEF TypeOK, CancelPending, lifeVars, turnVars
  <1> QED BY <1>1, <1>2, <1>3, <1>4, <1>5

LEMMA CallerTypes ==
  ASSUME TypeOK, NEW e \in Event,
         CallReturns(e) \/ CallAbandoned(e) \/ Withdraw(e) \/ WithdrawEnds(e)
  PROVE  TypeOK'
  <1> USE DEF Places, Futures
  <1>1. CASE CallReturns(e) \/ WithdrawEnds(e)
    BY <1>1 DEF TypeOK, CallReturns, WithdrawEnds, Return, lifeVars, turnVars
  <1>2. CASE CallAbandoned(e)
    BY <1>2 DEF TypeOK, CallAbandoned, lifeVars, flagVars, turnVars
  <1>3. CASE Withdraw(e)
    <2>1. CASE Leave({e}) /\ Settle({e}, "interrupted") /\ UNCHANGED <<caller, turnVars>>
      BY <1>3, <2>1, LeaveType, SettleType DEF TypeOK, Withdraw, lifeVars, turnVars
    <2>2. CASE /\ withdrawn' = withdrawn \cup {e} /\ Settle({e}, "interrupted")
               /\ UNCHANGED <<caller, place, ahead, byUser, turnVars>>
      BY <1>3, <2>2, SettleType DEF TypeOK, Withdraw, lifeVars, turnVars
    <2>3. CASE /\ withdrawn' = withdrawn \cup {e} /\ InterruptActiveTurn
               /\ caller' = [caller EXCEPT ![e] = "leaving"]
               /\ UNCHANGED <<queueVars, byUser>>
      BY <1>3, <2>3 DEF TypeOK, Withdraw, InterruptActiveTurn, lifeVars, queueVars
    <2> QED BY <1>3, <2>1, <2>2, <2>3 DEF Withdraw
  <1> QED BY <1>1, <1>2, <1>3

LEMMA ControlTypes ==
  ASSUME TypeOK, Control
  PROVE  TypeOK'
  <1> USE DEF Lives, Locations, Places, Futures
  <1>1. CASE Interrupt
    <2>1. fut' \in [Event -> Futures]
      BY <1>1, SettleType DEF Interrupt
    <2>2. place' \in [Event -> Places]
      BY <1>1, MoveType DEF Interrupt
    <2> QED BY <1>1, <2>1, <2>2
            DEF TypeOK, Interrupt, InterruptActiveTurn, Oldest, Active, In, lifeVars
  <1>2. CASE Pause
    <2>1. paused' \in BOOLEAN /\ gate' \in BOOLEAN
      BY <1>2 DEF Pause
    <2> QED BY <1>2, <2>1 DEF TypeOK, Pause, queueVars, flagVars, turnVars
  <1>7. CASE Resume
    <2>1. woken' \in BOOLEAN
      BY <1>7 DEF Resume, WakeAll, TypeOK
    <2> QED BY <1>7, <2>1 DEF TypeOK, Resume, queueVars, flagVars, turnVars
  <1>3. CASE StartRuns \/ StartConsumer
    BY <1>3 DEF TypeOK, StartRuns, StartConsumer, Goto, queueVars, flagVars, turnVars
  <1>4. CASE StopBegins
    BY <1>4 DEF TypeOK, StopBegins, WakeAll, queueVars, flagVars
  <1>5. CASE StopGathered \/ StopEnds
    BY <1>5 DEF TypeOK, StopGathered, StopEnds, queueVars, flagVars, turnVars
  <1>6. CASE StopReaps
    <2>1. CASE con = "loop"
      BY <1>6, <2>1 DEF TypeOK, StopReaps, queueVars, flagVars
    <2>2. CASE con # "loop"
      BY <1>6, <2>2, ExitType DEF TypeOK, StopReaps
    <2> QED BY <2>1, <2>2
  <1> QED BY <1>1, <1>2, <1>3, <1>4, <1>5, <1>6, <1>7 DEF Control

LEMMA NextType == TypeOK /\ [Next]_vars => TypeOK'
  <1> SUFFICES ASSUME TypeOK, [Next]_vars PROVE TypeOK'
    OBVIOUS
  <1>1. CASE Consumer \/ RoundFolds
    BY <1>1, ConsumerTypes
  <1>2. CASE Ingress
    <2>1. PICK e \in Event :
            \/ \E X \in Backlog(e) : ProcessEvent(e, X) \/ ProcessEventDropped(e, X)
            \/ BackgroundComplete(e) \/ Submit(e) \/ CancelPending(e)
      BY <1>2 DEF Ingress, ProcessEvent, ProcessEventDropped
    <2>2. {} \in Backlog(e)
      BY DEF Backlog
    <2> QED BY <2>1, <2>2, IngressTypes
  <1>3. CASE Callers
    BY <1>3, CallerTypes DEF Callers
  <1>4. CASE Control
    BY <1>4, ControlTypes
  <1>5. CASE UNCHANGED vars
    BY <1>5 DEF TypeOK, vars, lifeVars, queueVars, flagVars, turnVars
  <1> QED BY <1>1, <1>2, <1>3, <1>4, <1>5 DEF Next

\* Every reachable state of the loop is well formed: no step of the consumer, of
\* a caller or of an operator leaves a future with something else than a status.
THEOREM TypeCorrect == Spec => []TypeOK
  <1> QED BY InitType, NextType, PTL DEF Spec

------------------------------------------------------------------------------
(* The life cycle and the turn mutex.                                       *)

LEMMA InitLife == Init => LifeInv /\ ActiveInv
  BY DEF Init, LifeInv, ActiveInv, Active, In

LEMMA StepLife ==
  ASSUME TypeOK, LifeInv, [Next]_vars
  PROVE  LifeInv'
  <1> USE DEF LifeInv, lifeVars, Goto
  <1>1. CASE Consumer
    <2>1. CASE ConsumerTop
      BY <1>1, <2>1 DEF TypeOK, Lives, ConsumerTop, ConsumerExits
    <2>2. CASE ConsumerWakes
      BY <1>1, <2>2 DEF TypeOK, Lives, ConsumerWakes, ConsumerExits
    <2>3. CASE ConsumerClaims
      BY <1>1, <2>3 DEF TypeOK, Lives, ConsumerClaims, ConsumerExits
    <2>4. CASE RunParks \/ BatchDone \/ RunRejected \/ RunWithdrawn \/ TurnBegins
      BY <2>4 DEF RunParks, BatchDone, RunRejected, RunWithdrawn, TurnBegins, PassesRunGate
    <2>5. CASE CyclePrepared \/ ControllerStarts \/ TurnFinishes \/ TurnCrashes
      BY <2>5 DEF CyclePrepared, ControllerStarts, TurnFinishes, TurnCrashes
    <2>6. CASE LastRound \/ Terminates \/ LoopInterrupted
      BY <2>6 DEF LastRound, Terminates, LoopInterrupted, LeaveLoop
    <2> QED BY <1>1, <2>1, <2>2, <2>3, <2>4, <2>5, <2>6 DEF Consumer
  <1>2. CASE RoundFolds \/ UNCHANGED vars
    BY <1>2 DEF RoundFolds, vars
  <1>3. CASE Ingress
    BY <1>3 DEF Ingress, ProcessEvent, ProcessEventDropped, BackgroundComplete, Submit,
                CancelPending
  <1>4. CASE Callers
    BY <1>4 DEF Callers, CallReturns, CallAbandoned, Withdraw, WithdrawEnds
  <1>5. CASE Control
    <2>1. CASE Interrupt \/ Pause \/ Resume
      BY <2>1 DEF Interrupt, Pause, Resume
    <2>2. CASE StartRuns \/ StartConsumer
      BY <2>2 DEF StartRuns, StartConsumer
    <2>3. CASE StopBegins \/ StopGathered \/ StopEnds
      BY <2>3 DEF StopBegins, StopGathered, StopEnds
    <2>4. CASE StopReaps
      BY <2>4 DEF StopReaps
    <2> QED BY <1>5, <2>1, <2>2, <2>3, <2>4 DEF Control
  <1> QED BY <1>1, <1>2, <1>3, <1>4, <1>5 DEF Next

\* No step makes an event active outside a turn, nor ends a turn that has some.
LEMMA StepActive ==
  ASSUME TypeOK, LifeInv, ActiveInv, [Next]_vars
  PROVE  ActiveInv'
  <1> USE DEF ActiveInv, Active, In, Turning, Goto, Places, Locations
  <1>1. CASE ConsumerTop \/ ConsumerWakes
    BY <1>1 DEF TypeOK, ConsumerTop, ConsumerWakes, ConsumerExits, Leave, Move, queueVars
  <1>2. CASE ConsumerClaims
    BY <1>2 DEF TypeOK, ConsumerClaims, ConsumerExits, Leave, Move, queueVars
  <1>3. CASE RunParks \/ BatchDone
    BY <1>3 DEF RunParks, BatchDone, queueVars
  <1>4. CASE RunRejected \/ RunWithdrawn
    BY <1>4 DEF TypeOK, RunRejected, RunWithdrawn, PassesRunGate, Leave, Move
  <1>5. CASE TurnBegins
    BY <1>5 DEF TurnBegins
  <1>6. CASE CyclePrepared \/ ControllerStarts
    BY <1>6 DEF CyclePrepared, ControllerStarts
  <1>7. CASE LastRound \/ Terminates \/ LoopInterrupted
    BY <1>7 DEF LastRound, Terminates, LoopInterrupted, LeaveLoop
  <1>8. CASE TurnFinishes
    BY <1>8 DEF TypeOK, TurnFinishes
  <1>9. CASE TurnCrashes
    BY <1>9 DEF TypeOK, TurnCrashes, Leave, Move
  <1>10. CASE RoundFolds
    BY <1>10 DEF RoundFolds
  <1>11. CASE Ingress
    <2>1. PICK e \in Event :
            \/ \E X \in Backlog(e) : ProcessEvent(e, X) \/ ProcessEventDropped(e, X)
            \/ BackgroundComplete(e) \/ Submit(e) \/ CancelPending(e)
      BY <1>11 DEF Ingress, ProcessEvent, ProcessEventDropped
    <2> QED BY <2>1 DEF TypeOK, ProcessEvent, ProcessEventDropped, BackgroundComplete, Submit,
                        CancelPending, Put, Enqueue, Leave, Move, lifeVars
  <1>12. CASE Callers
    BY <1>12 DEF TypeOK, Callers, CallReturns, CallAbandoned, Withdraw, WithdrawEnds,
                 Leave, Move, queueVars
  <1>13. CASE Interrupt \/ Pause \/ Resume
    BY <1>13 DEF TypeOK, Interrupt, Pause, Resume, Move, queueVars
  <1>14. CASE StartRuns \/ StartConsumer
    BY <1>14 DEF LifeInv, StartRuns, StartConsumer, queueVars
  <1>15. CASE StopBegins \/ StopGathered \/ StopEnds
    BY <1>15 DEF StopBegins, StopGathered, StopEnds, queueVars
  <1>16. CASE StopReaps
    BY <1>16 DEF TypeOK, StopReaps, ConsumerExits, Leave, Move, queueVars
  <1>17. CASE UNCHANGED vars
    BY <1>17 DEF vars, queueVars
  <1> QED BY <1>1, <1>2, <1>3, <1>4, <1>5, <1>6, <1>7, <1>8, <1>9, <1>10, <1>11, <1>12, <1>13,
             <1>14, <1>15, <1>16, <1>17 DEF Next, Consumer, Control

------------------------------------------------------------------------------
(* Callers.                                                                 *)

Held == \A e \in Event : fut[e] = "pending" => place[e] \in {"inbox", "batch", "active"}

\* Events that leave the loop leave with a future that is not pending.
LEMMA LeaveSettled ==
  ASSUME TypeOK, Held, NEW S, NEW s \in Futures, s # "pending",
         Leave(S), fut' = Resolved(S, s)
  PROVE  Held'
  BY DEF TypeOK, Held, Leave, Move, Resolved, Places

LEMMA PutHeld ==
  ASSUME TypeOK, Held, NEW e \in Event, NEW f, NEW X \in SUBSET In("out"), Put(e, f, X)
  PROVE  Held'
  BY DEF TypeOK, Held, Put, Enqueue, Move, In, Places

LEMMA ExitHeld ==
  ASSUME TypeOK, Held, NEW s \in Futures, s # "pending", ConsumerExits(s)
  PROVE  \A e \in Event : fut'[e] # "pending"
  BY DEF TypeOK, Held, ConsumerExits, Resolved, Inbox, Batch, Active, In

\* No step lets go of an event whose caller waits without answering it.
LEMMA StepHeld ==
  ASSUME TypeOK, Held, [Next]_vars
  PROVE  Held'
  <1> USE DEF Places, Futures
  <1>1. CASE \E s \in {"rejected", "interrupted"} : ConsumerExits(s)
    BY <1>1, ExitHeld DEF Held
  <1>2. CASE Consumer /\ ~\E s \in {"rejected", "interrupted"} : ConsumerExits(s)
    <2>1. CASE ConsumerTop \/ ConsumerWakes \/ ConsumerClaims
      BY <1>2, <2>1 DEF TypeOK, Held, ConsumerTop, ConsumerWakes, ConsumerClaims, Move, queueVars
    <2>2. CASE RunParks \/ BatchDone
      BY <2>2 DEF Held, RunParks, BatchDone, queueVars
    <2>3. CASE RunRejected \/ RunWithdrawn
      BY <2>3, LeaveSettled DEF RunRejected, RunWithdrawn
    <2>4. CASE TurnBegins
      BY <2>4 DEF TypeOK, Held, TurnBegins, Move
    <2>5. CASE CyclePrepared \/ ControllerStarts
      BY <2>5 DEF Held, CyclePrepared, ControllerStarts, queueVars
    <2>6. CASE LastRound \/ Terminates \/ LoopInterrupted
      BY <2>6 DEF Held, LastRound, Terminates, LoopInterrupted, LeaveLoop, queueVars
    <2>7. CASE TurnFinishes
      <3>1. Outcome # "pending"
        BY DEF Outcome
      <3> QED BY <2>7, <3>1 DEF TypeOK, Held, TurnFinishes, Resolved
    <2>8. CASE TurnCrashes
      BY <2>8, LeaveSettled DEF TurnCrashes
    <2> QED BY <1>2, <2>1, <2>2, <2>3, <2>4, <2>5, <2>6, <2>7, <2>8 DEF Consumer
  <1>3. CASE RoundFolds
    BY <1>3 DEF TypeOK, Held, RoundFolds, Move
  <1>4. CASE Ingress
    <2>1. PICK e \in Event :
            \/ \E X \in Backlog(e) : ProcessEvent(e, X) \/ ProcessEventDropped(e, X)
            \/ BackgroundComplete(e) \/ Submit(e) \/ CancelPending(e)
      BY <1>4 DEF Ingress, ProcessEvent, ProcessEventDropped
    <2>2. ASSUME NEW X \in Backlog(e), ProcessEvent(e, X)
          PROVE  Held'
      BY <2>2, PutHeld DEF ProcessEvent, Backlog
    <2>3. ASSUME NEW X \in Backlog(e), ProcessEventDropped(e, X)
          PROVE  Held'
      BY <2>3 DEF TypeOK, Held, ProcessEventDropped, Backlog, Move, In
    <2>4. CASE BackgroundComplete(e)
      BY <2>4, PutHeld DEF BackgroundComplete
    <2>5. CASE Submit(e)
      BY <2>5, PutHeld DEF TypeOK, Held, Submit
    <2>6. CASE CancelPending(e)
      BY <2>6, LeaveSettled DEF CancelPending
    <2> QED BY <2>1, <2>2, <2>3, <2>4, <2>5, <2>6
  <1>5. CASE Callers
    <2>1. PICK e \in Event : CallReturns(e) \/ CallAbandoned(e) \/ Withdraw(e) \/ WithdrawEnds(e)
      BY <1>5 DEF Callers
    <2>2. CASE CallReturns(e) \/ WithdrawEnds(e)
      BY <2>2 DEF TypeOK, Held, CallReturns, WithdrawEnds, Return
    <2>3. CASE CallAbandoned(e)
      BY <2>3 DEF TypeOK, Held, CallAbandoned
    <2>4. CASE Withdraw(e)
      BY <2>4 DEF TypeOK, Held, Withdraw, Leave, Move, Settle, queueVars
    <2> QED BY <2>1, <2>2, <2>3, <2>4
  <1>6. CASE Interrupt
    BY <1>6 DEF TypeOK, Held, Interrupt, Move, Settle
  <1>7. CASE Pause \/ Resume \/ StartRuns \/ StartConsumer
    BY <1>7 DEF Held, Pause, Resume, StartRuns, StartConsumer, queueVars
  <1>8. CASE StopBegins \/ StopGathered \/ StopEnds
    BY <1>8 DEF Held, StopBegins, StopGathered, StopEnds, queueVars
  <1>9. CASE StopReaps
    BY <1>1, <1>9 DEF Held, StopReaps, queueVars
  <1>10. CASE UNCHANGED vars
    BY <1>10 DEF Held, vars, queueVars
  <1> QED BY <1>1, <1>2, <1>3, <1>4, <1>5, <1>6, <1>7, <1>8, <1>9, <1>10 DEF Next, Control

\* The same for the second half of NoCallerStranded: a consumer that is gone has
\* answered everybody, and a stopped agent accepts nobody.
LEMMA StepAnswered ==
  ASSUME TypeOK, LifeInv, Held, NoCallerStranded, [Next]_vars
  PROVE  NoCallerStranded'
  <1>1. Held'
    BY StepHeld
  <1>2. SUFFICES ASSUME NEW e \in Event, fut'[e] = "pending", con' = "down", life' # "starting"
                 PROVE  FALSE
    BY <1>1 DEF NoCallerStranded, Held
  <1> USE DEF NoCallerStranded, LifeInv, Goto
  <1>3. CASE \E s \in {"rejected", "interrupted"} : ConsumerExits(s)
    BY <1>2, <1>3, ExitHeld DEF Futures
  <1>4. CASE (Consumer \/ RoundFolds) /\ ~\E s \in {"rejected", "interrupted"} : ConsumerExits(s)
    <2>1. con' # "down"
      BY <1>4 DEF Consumer, ConsumerTop, ConsumerWakes, ConsumerClaims, RunParks, BatchDone,
                  RunRejected, RunWithdrawn, TurnBegins, CyclePrepared, ControllerStarts,
                  LastRound, Terminates, LoopInterrupted, LeaveLoop, TurnFinishes, TurnCrashes, RoundFolds
    <2> QED BY <1>2, <2>1
  <1>5. CASE Ingress
    <2>1. ~running /\ life' = life /\ con' = con
      BY <1>2, <1>5 DEF Ingress, ProcessEvent, ProcessEventDropped, BackgroundComplete, Submit,
                        CancelPending, lifeVars
    <2>2. fut[e] # "pending"
      BY <1>2, <2>1
    <2> QED BY <1>2, <1>5, <2>1, <2>2
            DEF TypeOK, Ingress, ProcessEvent, ProcessEventDropped, BackgroundComplete, Submit,
                CancelPending, Put, Leave, Resolved
  <1>6. CASE Callers
    BY <1>2, <1>6 DEF TypeOK, Callers, CallReturns, CallAbandoned, Withdraw, WithdrawEnds,
                      Return, Settle, lifeVars, queueVars
  <1>7. CASE Interrupt \/ Pause \/ Resume
    BY <1>2, <1>7 DEF TypeOK, Interrupt, Pause, Resume, Settle, lifeVars, queueVars
  <1>8. CASE StartRuns \/ StartConsumer
    BY <1>2, <1>8 DEF StartRuns, StartConsumer
  <1>9. CASE StopBegins \/ StopGathered \/ StopEnds
    BY <1>2, <1>9 DEF StopBegins, StopGathered, StopEnds, queueVars
  <1>10. CASE StopReaps
    BY <1>2, <1>3, <1>10 DEF StopReaps
  <1>11. CASE UNCHANGED vars
    BY <1>2, <1>11 DEF vars, lifeVars, queueVars
  <1> QED BY <1>3, <1>4, <1>5, <1>6, <1>7, <1>8, <1>9, <1>10, <1>11 DEF Next, Control

IInv == TypeOK /\ LifeInv /\ ActiveInv /\ NoCallerStranded

LEMMA Inductive == Spec => []IInv
  <1>1. Init => IInv
    <2>1. Init => NoCallerStranded
      BY DEF Init, NoCallerStranded
    <2> QED BY <2>1, InitType, InitLife DEF IInv
  <1>2. IInv /\ [Next]_vars => IInv'
    <2> SUFFICES ASSUME IInv, [Next]_vars PROVE IInv'
      OBVIOUS
    <2>1. Held
      BY DEF IInv, NoCallerStranded, Held
    <2> QED BY <2>1, NextType, StepLife, StepActive, StepAnswered DEF IInv
  <1> QED BY <1>1, <1>2, PTL DEF Spec

\* Every caller that waits is held by a consumer that exists or is about to: for
\* any number of callers, whatever stop, crash and restart do between its await
\* and its turn.
THEOREM NobodyStranded == Spec => []NoCallerStranded
  <1>1. IInv => NoCallerStranded
    BY DEF IInv
  <1> QED BY <1>1, Inductive, PTL

------------------------------------------------------------------------------
(* What "rejected" tells a caller.                                          *)

LEMMA StepRejects ==
  ASSUME IInv, [Next]_vars, NEW e \in Event,
         fut[e] = "pending", fut'[e] = "rejected"
  PROVE  place[e] # "active"
  <1> USE DEF Goto
  <1>0. TypeOK /\ ActiveInv
    BY DEF IInv
  <1>1. SUFFICES ASSUME e \in Active PROVE FALSE
    BY DEF Active, In
  <1>2. Turning
    BY <1>0, <1>1 DEF ActiveInv
  <1>3. CASE ConsumerTop \/ ConsumerWakes \/ ConsumerClaims
    BY <1>2, <1>3 DEF ConsumerTop, ConsumerWakes, ConsumerClaims, Turning
  <1>4. CASE RunParks \/ BatchDone \/ RunRejected \/ RunWithdrawn \/ TurnBegins
    BY <1>2, <1>4 DEF RunParks, BatchDone, RunRejected, RunWithdrawn, TurnBegins,
                      PassesRunGate, Turning
  <1>5. CASE CyclePrepared \/ ControllerStarts \/ LastRound \/ Terminates \/ LoopInterrupted \/ RoundFolds
    BY <1>5 DEF CyclePrepared, ControllerStarts, LastRound, Terminates, LoopInterrupted, LeaveLoop,
                RoundFolds, queueVars
  <1>6. CASE TurnFinishes
    <2>1. Outcome # "rejected"
      BY DEF Outcome
    <2> QED BY <1>0, <1>1, <1>6, <2>1 DEF TurnFinishes, Resolved
  <1>7. CASE TurnCrashes
    BY <1>0, <1>1, <1>7 DEF TurnCrashes, Resolved
  <1>8. CASE Ingress
    <2>1. PICK f \in Event :
            \/ \E X \in Backlog(f) : ProcessEvent(f, X) \/ ProcessEventDropped(f, X)
            \/ BackgroundComplete(f) \/ Submit(f) \/ CancelPending(f)
      BY <1>8 DEF Ingress, ProcessEvent, ProcessEventDropped
    <2>2. f # e
      BY <1>1, <2>1 DEF ProcessEvent, ProcessEventDropped, BackgroundComplete, Submit,
                        CancelPending, Fresh, Active, In
    <2> QED BY <1>0, <2>1, <2>2
            DEF TypeOK, ProcessEvent, ProcessEventDropped, BackgroundComplete, Submit,
                CancelPending, Put, Resolved
  <1>9. CASE Callers
    BY <1>0, <1>9 DEF TypeOK, Callers, CallReturns, CallAbandoned, Withdraw, WithdrawEnds,
                      Return, Settle, queueVars
  <1>10. CASE Interrupt \/ Pause \/ Resume
    BY <1>0, <1>10 DEF TypeOK, Interrupt, Pause, Resume, Settle, queueVars
  <1>11. CASE StartRuns \/ StartConsumer \/ StopBegins \/ StopGathered \/ StopEnds
    BY <1>11 DEF StartRuns, StartConsumer, StopBegins, StopGathered, StopEnds, queueVars
  <1>12. CASE StopReaps
    BY <1>0, <1>1, <1>12 DEF TypeOK, StopReaps, ConsumerExits, Resolved, queueVars
  <1>13. CASE UNCHANGED vars
    BY <1>13 DEF vars, queueVars
  <1> QED BY <1>3, <1>4, <1>5, <1>6, <1>7, <1>8, <1>9, <1>10, <1>11, <1>12, <1>13
             DEF Next, Consumer, Control

\* "rejected" is the truth: whoever is told so had no turn, also when stop cuts
\* the consumer down in the middle of one or the turn crashes.
THEOREM RejectedRanNothing == Spec => RejectedNeverRan
  <1>1. IInv /\ [Next]_vars =>
          [\A e \in Event : fut[e] = "pending" /\ fut'[e] = "rejected" => place[e] # "active"]_vars
    BY StepRejects
  <1> QED BY <1>1, Inductive, PTL DEF Spec, RejectedNeverRan
==============================================================================
