----------------------- MODULE EventLoopServiceProofs -----------------------
(***************************************************************************)
(* EventLoop implements TurnService, and cuts a turn short only for a      *)
(* reason of its own, for any producers of any kinds.                      *)
(***************************************************************************)
EXTENDS EventLoopService, EventLoopProofs, FiniteSetTheorems, WellFoundedInduction

-----------------------------------------------------------------------------
(* The order of the events in the loop.                                    *)

Loop == {"inbox", "batch", "active"}

\* `ahead` orders the loop: strictly, any two events but those of a backlog
\* flushed together, the batch before the inbox.
OrderInv ==
  /\ \A e, f \in Event : f \in ahead[e] => f # e /\ place[e] \in Loop /\ place[f] \in Loop
  /\ \A e, f, g \in Event : f \in ahead[e] /\ g \in ahead[f] => g \in ahead[e]
  /\ \A e, f \in Event : place[e] \in Loop /\ place[f] \in Loop =>
        \/ e = f \/ e \in ahead[f] \/ f \in ahead[e]
        \/ Kind[e] = "extra" /\ Kind[f] = "extra"
  /\ \A e, f \in Event : place[e] = "inbox" /\ place[f] = "batch" => e \notin ahead[f]
  /\ \A e \in Event : place[e] = "stash" => Kind[e] = "extra"

LEMMA LeavesOrder ==
  ASSUME TypeOK, OrderInv, NEW S, Move(S, "out"),
         ahead' = [e \in Event |-> IF e \in S THEN {} ELSE ahead[e] \ S]
  PROVE  OrderInv'
  <1>1. \A e \in Event : /\ place'[e] = IF e \in S THEN "out" ELSE place[e]
                         /\ ahead'[e] = IF e \in S THEN {} ELSE ahead[e] \ S
    BY DEF Move
  <1> QED BY <1>1 DEF OrderInv, Loop

LEMMA PutOrder ==
  ASSUME TypeOK, OrderInv, NEW e \in Event, place[e] = "out", NEW X \in SUBSET (Extras \cap In("out")),
         Enqueue(In("stash") \cup X, {e})
  PROVE  OrderInv'
  <1>1. PICK S : S = In("stash") \cup X
    OBVIOUS
  <1>2. PICK queue : queue = Inbox \cup Batch \cup Active
    OBVIOUS
  <1>3. \A f \in Event : f \in queue <=> place[f] \in Loop
    BY <1>2 DEF Inbox, Batch, Active, In, Loop
  <1>4. \A f \in S : f \in Event /\ place[f] \in {"stash", "out"} /\ Kind[f] = "extra"
    BY <1>1 DEF In, Extras, OrderInv
  <1>5. \A f \in Event :
           /\ place'[f] = IF f \in S \/ f = e THEN "inbox" ELSE place[f]
           /\ ahead'[f] = IF f = e THEN queue
                          ELSE IF f \in S THEN queue \cup {e} ELSE ahead[f]
    BY <1>1, <1>2 DEF Enqueue, Move
  <1>6. queue \subseteq Event
    BY <1>2 DEF Inbox, Batch, Active, In
  <1>7. \A f, g \in Event : g \in ahead'[f] => g # f /\ place'[f] \in Loop /\ place'[g] \in Loop
    BY <1>3, <1>4, <1>5 DEF OrderInv, Loop
  <1>8. \A f, g, h \in Event : g \in ahead'[f] /\ h \in ahead'[g] => h \in ahead'[f]
    BY <1>3, <1>4, <1>5 DEF OrderInv, Loop
  <1>9. \A f, g \in Event : place'[f] \in Loop /\ place'[g] \in Loop =>
           \/ f = g \/ f \in ahead'[g] \/ g \in ahead'[f]
           \/ Kind[f] = "extra" /\ Kind[g] = "extra"
    BY <1>3, <1>4, <1>5 DEF OrderInv, Loop
  <1>10. \A f, g \in Event : place'[f] = "inbox" /\ place'[g] = "batch" => f \notin ahead'[g]
    BY <1>3, <1>4, <1>5 DEF OrderInv, Loop
  <1>11. \A f \in Event : place'[f] = "stash" => Kind[f] = "extra"
    BY <1>5 DEF OrderInv
  <1> QED BY <1>7, <1>8, <1>9, <1>10, <1>11 DEF OrderInv

LEMMA SameOrder ==
  ASSUME OrderInv, UNCHANGED <<place, ahead>>
  PROVE  OrderInv'
  BY DEF OrderInv

LEMMA FinishOrder ==
  ASSUME TypeOK, OrderInv, TurnFinishes
  PROVE  OrderInv'
  <1>1. PICK tail : tail \in {In("stash"), {}} /\
          /\ place' = [e \in Event |-> IF e \in Active THEN "out"
                                       ELSE IF e \in tail THEN "inbox" ELSE place[e]]
          /\ ahead' = [e \in Event |-> IF e \in Active THEN {}
                                       ELSE IF e \in tail THEN Inbox \cup Batch
                                       ELSE ahead[e] \ Active]
    BY DEF TurnFinishes
  <1>2. \A e \in tail : e \in Event /\ place[e] = "stash" /\ Kind[e] = "extra"
    BY <1>1 DEF In, OrderInv
  <1>3. \A e \in Event : e \in Active <=> place[e] = "active"
    BY DEF Active, In
  <1>4. PICK queue : queue = Inbox \cup Batch
    OBVIOUS
  <1>5. \A e \in Event : e \in queue <=> place[e] \in {"inbox", "batch"}
    BY <1>4 DEF Inbox, Batch, In
  <1>6. \A e \in Event :
          /\ place'[e] = IF place[e] = "active" THEN "out"
                         ELSE IF e \in tail THEN "inbox" ELSE place[e]
          /\ ahead'[e] = IF place[e] = "active" THEN {}
                         ELSE IF e \in tail THEN queue ELSE ahead[e] \ Active
    BY <1>1, <1>3, <1>4
  <1>7. \A e \in Event : e \in tail => e \notin queue /\ place[e] # "active"
    BY <1>2, <1>5
  <1>8. \A e \in Event : place'[e] \in Loop <=> e \in queue \/ e \in tail
    <2> TAKE e \in Event
    <2>1. CASE e \in tail
      BY <1>6, <1>7, <2>1 DEF Loop
    <2>2. CASE e \notin tail
      BY <1>5, <1>6, <2>2 DEF Loop
    <2> QED BY <2>1, <2>2
  <1>9. \A e, f \in Event :
          f \in ahead'[e] <=> (\/ e \in tail /\ f \in queue
                               \/ e \in queue /\ f \in queue /\ f \in ahead[e])
    <2> TAKE e, f \in Event
    <2>1. CASE e \in tail
      BY <1>6, <1>7, <2>1
    <2>2. CASE e \in queue
      <3>1. ahead'[e] = ahead[e] \ Active
        BY <1>5, <1>6, <1>7, <2>2
      <3>2. f \in ahead[e] => place[f] \in Loop
        BY DEF OrderInv
      <3>3. f \in ahead[e] => (f \in queue <=> f \notin Active)
        BY <1>3, <1>5, <3>2 DEF Loop
      <3> QED BY <1>7, <2>2, <3>1, <3>3
    <2>3. CASE e \notin tail /\ e \notin queue
      <3>1. f \in ahead[e] => place[e] = "active"
        BY <1>5, <2>3 DEF OrderInv, Loop
      <3> QED BY <1>6, <2>3, <3>1
    <2> QED BY <2>1, <2>2, <2>3
  <1>10. \A e, f \in Event :
           f \in ahead'[e] => f # e /\ place'[e] \in Loop /\ place'[f] \in Loop
    BY <1>7, <1>8, <1>9 DEF OrderInv
  <1>11. \A e, f, g \in Event : f \in ahead'[e] /\ g \in ahead'[f] => g \in ahead'[e]
    BY <1>7, <1>9 DEF OrderInv
  <1>12. \A e, f \in Event : place'[e] \in Loop /\ place'[f] \in Loop =>
           \/ e = f \/ e \in ahead'[f] \/ f \in ahead'[e]
           \/ Kind[e] = "extra" /\ Kind[f] = "extra"
    <2> TAKE e, f \in Event
    <2> HAVE place'[e] \in Loop /\ place'[f] \in Loop
    <2>1. CASE e \in queue /\ f \in queue
      <3>1. place[e] \in Loop /\ place[f] \in Loop
        BY <1>5, <2>1 DEF Loop
      <3> QED BY <1>9, <2>1, <3>1 DEF OrderInv
    <2>2. CASE e \in tail \/ f \in tail
      BY <1>2, <1>8, <1>9, <2>2
    <2> QED BY <1>8, <2>1, <2>2
  <1>13. \A e, f \in Event : place'[e] = "inbox" /\ place'[f] = "batch" => e \notin ahead'[f]
    <2> TAKE e, f \in Event
    <2> HAVE place'[e] = "inbox" /\ place'[f] = "batch"
    <2>1. place[f] = "batch" /\ f \notin tail
      BY <1>6
    <2>2. place[e] = "inbox" \/ e \in tail
      BY <1>6
    <2> QED BY <1>7, <1>9, <2>1, <2>2 DEF OrderInv
  <1>14. \A f \in Event : place'[f] = "stash" => Kind[f] = "extra"
    BY <1>6 DEF OrderInv
  <1> QED BY <1>10, <1>11, <1>12, <1>13, <1>14 DEF OrderInv

\* The events that leave with a consumer that exits, a run that is left out, a
\* turn that crashes or a backlog that is cancelled keep the order of the rest.
LEMMA StepOrder ==
  ASSUME TypeOK, OrderInv, [Next]_vars
  PROVE  OrderInv'
  <1>1. CASE \E S : Leave(S)
    BY <1>1, LeavesOrder DEF Leave
  <1>2. CASE UNCHANGED <<place, ahead>>
    BY <1>2, SameOrder
  <1>3. CASE Consumer
    <2>1. CASE ConsumerTop \/ ConsumerWakes
      BY <1>1, <1>2, <2>1 DEF ConsumerTop, ConsumerWakes, ConsumerExits, queueVars
    <2>2. CASE ConsumerClaims
      <3>1. CASE Move(Inbox, "batch") /\ UNCHANGED ahead
        <4>1. \A e \in Event : place'[e] = IF place[e] = "inbox" THEN "batch" ELSE place[e]
          BY <3>1 DEF Move, Inbox, In
        <4> QED BY <3>1, <4>1 DEF OrderInv, Loop
      <3> QED BY <1>1, <1>2, <2>2, <3>1 DEF ConsumerClaims, ConsumerExits, queueVars
    <2>3. CASE RunParks \/ BatchDone \/ CyclePrepared \/ ControllerStarts
      BY <1>2, <2>3 DEF RunParks, BatchDone, CyclePrepared, ControllerStarts, queueVars
    <2>4. CASE RunRejected \/ RunWithdrawn \/ TurnCrashes
      BY <1>1, <2>4 DEF RunRejected, RunWithdrawn, TurnCrashes
    <2>5. CASE TurnBegins
      <3>1. UNCHANGED ahead /\ \A e \in Event :
              place'[e] = place[e] \/ (place[e] = "batch" /\ place'[e] = "active")
        BY <2>5 DEF TurnBegins, Move, NextRun, Oldest, Batch, In
      <3> QED BY <3>1 DEF OrderInv, Loop
    <2>6. CASE LastRound \/ Terminates \/ LoopInterrupted
      BY <1>2, <2>6 DEF LastRound, Terminates, LoopInterrupted, LeaveLoop, queueVars
    <2>7. CASE TurnFinishes
      BY <2>7, FinishOrder
    <2> QED BY <1>3, <2>1, <2>2, <2>3, <2>4, <2>5, <2>6, <2>7 DEF Consumer
  <1>4. CASE RoundFolds
    <2>1. UNCHANGED ahead /\ \A e \in Event :
            place'[e] = place[e] \/ (place[e] = "inbox" /\ place'[e] = "active")
      BY <1>4 DEF RoundFolds, Move, Folding, Inbox, In
    <2> QED BY <2>1 DEF OrderInv, Loop
  <1>5. CASE Ingress
    <2>1. PICK e \in Event :
            \/ \E X \in Backlog(e) : ProcessEvent(e, X) \/ ProcessEventDropped(e, X)
            \/ BackgroundComplete(e) \/ Submit(e) \/ CancelPending(e)
      BY <1>5 DEF Ingress, ProcessEvent, ProcessEventDropped
    <2>2. \A X \in Backlog(e) : X \in SUBSET (Extras \cap In("out"))
      BY DEF Backlog
    <2>3. ASSUME NEW X \in Backlog(e), ProcessEvent(e, X)
          PROVE  OrderInv'
      <3>1. place[e] = "out" /\ Enqueue(In("stash") \cup X, {e})
        BY <2>3 DEF ProcessEvent, Fresh, Put
      <3> QED BY <2>2, <3>1, PutOrder
    <2>4. ASSUME NEW X \in Backlog(e), ProcessEventDropped(e, X)
          PROVE  OrderInv'
      <3>1. UNCHANGED ahead /\ \A f \in Event :
              place'[f] = place[f] \/ (place[f] = "out" /\ place'[f] = "stash" /\ Kind[f] = "extra")
        BY <2>2, <2>4 DEF ProcessEventDropped, Move, Extras, In
      <3> QED BY <3>1 DEF OrderInv, Loop
    <2>5. CASE BackgroundComplete(e) \/ (Submit(e) /\ ~UNCHANGED <<place, ahead>>)
      <3>1. place[e] = "out" /\ Enqueue(In("stash") \cup {}, {e})
        BY <2>5 DEF BackgroundComplete, Submit, Fresh, Put
      <3> QED BY <3>1, PutOrder
    <2>6. CASE CancelPending(e)
      BY <1>1, <2>6 DEF CancelPending
    <2> QED BY <1>2, <2>1, <2>3, <2>4, <2>5, <2>6
  <1>6. CASE Callers
    BY <1>1, <1>2, <1>6 DEF Callers, CallReturns, CallAbandoned, Withdraw, WithdrawEnds, queueVars
  <1>7. CASE Interrupt
    BY <1>7, LeavesOrder DEF Interrupt
  <1>8. CASE Pause \/ Resume \/ StartRuns \/ StartConsumer \/ StopBegins \/ StopGathered \/ StopEnds
    BY <1>2, <1>8 DEF Pause, Resume, StartRuns, StartConsumer, StopBegins, StopGathered, StopEnds,
                      queueVars
  <1>9. CASE StopReaps
    BY <1>1, <1>2, <1>9 DEF StopReaps, ConsumerExits, queueVars
  <1>10. CASE UNCHANGED vars
    BY <1>2, <1>10 DEF vars, queueVars
  <1> QED BY <1>3, <1>4, <1>5, <1>6, <1>7, <1>8, <1>9, <1>10 DEF Next, Control

-----------------------------------------------------------------------------
(* The requests in the loop, and the turn in progress.                      *)

\* In line: its caller waits and nobody gave it up.
InLine(r) == fut[r] = "pending" /\ caller[r] = "waiting" /\ r \notin withdrawn

\* A withdrawn request may stay in the batch in hand, already answered.
RequestInv ==
  \A r \in Requests :
    /\ place[r] = "inbox" => InLine(r)
    /\ place[r] = "batch" =>
         InLine(r) \/ (fut[r] = "interrupted" /\ caller[r] # "leaving" /\ r \in withdrawn)
    /\ place[r] = "active" => fut[r] = "pending" /\ (r \in withdrawn \/ caller[r] = "waiting")
    /\ place[r] = "out" => r \notin withdrawn

OneServed == \A r, s \in Requests : place[r] = "active" /\ place[s] = "active" => r = s

TurnInv == Turning => Active # {}

\* A run with a request is that request, the first of the batch.
LEMMA RequestRun ==
  ASSUME TypeOK, OrderInv, NEW r \in Requests, r \in NextRun
  PROVE  NextRun = {r} /\ place[r] = "batch" /\ \A f \in Event : place[f] = "batch" => f \notin ahead[r]
  <1> USE DEF Requests, Batch, In
  <1>1. r \in Event /\ Solo(r) /\ Kind[r] # "extra"
    BY DEF Solo, Awaited
  <1>2. r \in Batch
    BY DEF NextRun, Oldest
  <1>3. r \in Oldest(Batch)
    <2> SUFFICES ASSUME r \notin Oldest(Batch)
                 PROVE  FALSE
      OBVIOUS
    <2>1. \A f \in Batch : Solo(f) => r \in ahead[f]
      BY DEF NextRun
    <2>2. r \in ahead[r]
      BY <1>1, <1>2, <2>1
    <2> QED BY <1>1, <2>2 DEF OrderInv
  <1>4. NextRun = Oldest(Batch)
    BY <1>1, <1>3 DEF NextRun
  <1>5. \A f \in Batch : f \notin ahead[r]
    BY <1>3 DEF Oldest
  <1>6. ASSUME NEW f \in Oldest(Batch)
        PROVE  f = r
    <2>1. f \in Batch /\ f \in Event /\ r \notin ahead[f]
      BY <1>2, <1>6 DEF Oldest
    <2> QED BY <1>1, <1>2, <1>5, <2>1 DEF OrderInv, Loop
  <1>7. \A f \in Event : place[f] = "batch" => f \in Batch
    OBVIOUS
  <1> QED BY <1>2, <1>3, <1>4, <1>5, <1>6, <1>7

LEMMA NoneFolded ==
  ASSUME TypeOK, RequestInv, NEW r \in Requests
  PROVE  r \notin Folding
  BY DEF RequestInv, InLine, Folding, Foldable, Inbox, In

\* The events of S leave the loop; the others keep everything RequestInv reads.
LEMMA LeaveRequests ==
  ASSUME TypeOK, RequestInv, NEW S, Leave(S), UNCHANGED caller,
         \A e \in Event : e \notin S => fut'[e] = fut[e]
  PROVE  RequestInv'
  <1>1. \A e \in Event : /\ place'[e] = IF e \in S THEN "out" ELSE place[e]
                         /\ e \in withdrawn' <=> e \in withdrawn /\ e \notin S
    BY DEF Leave, Move, TypeOK
  <1> QED BY <1>1 DEF RequestInv, InLine, Requests

\* Steps that leave every request alone but for what happens to events of no request.
LEMMA SameRequests ==
  ASSUME RequestInv,
         \A r \in Requests : /\ place'[r] = place[r] /\ caller'[r] = caller[r]
                             /\ fut'[r] = fut[r]
                             /\ r \in withdrawn' <=> r \in withdrawn
  PROVE  RequestInv'
  BY DEF RequestInv, InLine, Requests

LEMMA ExitRequests ==
  ASSUME TypeOK, RequestInv, NEW s \in Futures, ConsumerExits(s), UNCHANGED caller
  PROVE  RequestInv'
  <1>1. \A e \in Event : e \notin Inbox \cup Batch \cup Active => fut'[e] = fut[e]
    BY DEF ConsumerExits, Resolved
  <1> QED BY <1>1, LeaveRequests DEF ConsumerExits

LEMMA StepRequests ==
  ASSUME TypeOK, OrderInv, RequestInv, [Next]_vars
  PROVE  RequestInv'
  <1>0. \A r \in Requests : r \in Event /\ Kind[r] \in {"request", "drive"} /\ Awaited(r)
    BY DEF Requests, Awaited
  <1>1. CASE \E s \in {"rejected", "interrupted"} : ConsumerExits(s) /\ UNCHANGED caller
    BY <1>1, ExitRequests DEF Futures
  <1>2. CASE UNCHANGED <<queueVars, caller, withdrawn>>
    BY <1>2, SameRequests DEF queueVars
  <1>3. CASE Consumer
    <2>1. CASE ConsumerTop \/ ConsumerWakes
      BY <1>1, <1>2, <2>1 DEF ConsumerTop, ConsumerWakes, flagVars
    <2>2. CASE ConsumerClaims
      <3>1. CASE Move(Inbox, "batch") /\ UNCHANGED <<ahead, fut, flagVars>>
        <4>1. \A e \in Event : place'[e] = IF place[e] = "inbox" THEN "batch" ELSE place[e]
          BY <3>1 DEF Move, Inbox, In
        <4>2. UNCHANGED <<fut, caller, withdrawn>>
          BY <2>2, <3>1 DEF ConsumerClaims, flagVars
        <4> QED BY <4>1, <4>2 DEF RequestInv, InLine, Requests
      <3> QED BY <1>1, <1>2, <2>2, <3>1 DEF ConsumerClaims, flagVars
    <2>3. CASE RunParks \/ BatchDone \/ CyclePrepared \/ ControllerStarts
      BY <1>2, <2>3 DEF RunParks, BatchDone, CyclePrepared, ControllerStarts, flagVars
    <2>4. CASE RunRejected \/ RunWithdrawn
      BY <2>4, LeaveRequests DEF RunRejected, RunWithdrawn, Resolved
    <2>5. CASE TurnCrashes
      BY <2>5, LeaveRequests DEF TurnCrashes, Resolved
    <2>6. CASE TurnBegins
      <3>1. ASSUME NEW r \in Requests, r \in NextRun
            PROVE  place[r] = "batch" /\ r \notin withdrawn
        BY <2>6, <3>1, RequestRun DEF TurnBegins
      <3>2. \A r \in Event : place'[r] = IF r \in NextRun THEN "active" ELSE place[r]
        BY <2>6 DEF TurnBegins, Move
      <3>3. UNCHANGED <<fut, caller, withdrawn>>
        BY <2>6 DEF TurnBegins, flagVars
      <3> QED BY <1>0, <3>1, <3>2, <3>3 DEF RequestInv, InLine
    <2>7. CASE LastRound \/ Terminates \/ LoopInterrupted
      BY <1>2, <2>7 DEF LastRound, Terminates, LoopInterrupted, LeaveLoop
    <2>8. CASE TurnFinishes
      <3>1. PICK tail : /\ tail \in {In("stash"), {}}
                        /\ \A e \in Event :
                             place'[e] = IF e \in Active THEN "out"
                                         ELSE IF e \in tail THEN "inbox" ELSE place[e]
        BY <2>8 DEF TurnFinishes
      <3>2. \A r \in Requests : r \notin tail
        BY <1>0, <3>1 DEF In, OrderInv
      <3>3. \A e \in Event : /\ e \notin Active => fut'[e] = fut[e]
                             /\ e \in withdrawn' <=> e \in withdrawn /\ e \notin Active
        BY <2>8 DEF TurnFinishes, Resolved
      <3>4. UNCHANGED caller
        BY <2>8 DEF TurnFinishes
      <3> QED BY <1>0, <3>1, <3>2, <3>3, <3>4 DEF RequestInv, InLine
    <2> QED BY <1>3, <2>1, <2>2, <2>3, <2>4, <2>5, <2>6, <2>7, <2>8 DEF Consumer
  <1>4. CASE RoundFolds
    <2>1. \A r \in Requests : r \notin Folding
      BY NoneFolded
    <2>2. \A r \in Requests : place'[r] = place[r]
      BY <1>0, <1>4, <2>1 DEF RoundFolds, Move
    <2> QED BY <1>4, <2>2, SameRequests DEF RoundFolds, flagVars
  <1>5. CASE Ingress
    <2>1. PICK e \in Event :
            \/ \E X \in Backlog(e) : ProcessEvent(e, X) \/ ProcessEventDropped(e, X)
            \/ BackgroundComplete(e) \/ Submit(e) \/ CancelPending(e)
      BY <1>5 DEF Ingress, ProcessEvent, ProcessEventDropped
    <2>2. \A X \in Backlog(e) : \A r \in Requests : r \notin X
      BY <1>0 DEF Backlog, Extras
    <2>3. \A r \in Requests : r \notin In("stash")
      BY <1>0 DEF In, OrderInv
    <2>4. ASSUME NEW X \in Backlog(e), ProcessEvent(e, X)
          PROVE  RequestInv'
      <3>1. \A r \in Requests : r # e
        BY <1>0, <2>4 DEF ProcessEvent
      <3>2. \A r \in Requests : place'[r] = place[r] /\ fut'[r] = fut[r] /\ caller'[r] = caller[r]
        BY <1>0, <2>2, <2>3, <2>4, <3>1 DEF ProcessEvent, Put, Enqueue, Move, TypeOK
      <3> QED BY <2>4, <3>2, SameRequests DEF ProcessEvent, flagVars
    <2>5. ASSUME NEW X \in Backlog(e), ProcessEventDropped(e, X)
          PROVE  RequestInv'
      <3>1. \A r \in Requests : place'[r] = place[r]
        BY <1>0, <2>2, <2>5 DEF ProcessEventDropped, Move
      <3> QED BY <2>5, <3>1, SameRequests DEF ProcessEventDropped, flagVars
    <2>6. CASE BackgroundComplete(e)
      <3>1. \A r \in Requests : r # e
        BY <1>0, <2>6 DEF BackgroundComplete
      <3>2. \A r \in Requests : place'[r] = place[r] /\ fut'[r] = fut[r]
        BY <1>0, <2>3, <2>6, <3>1 DEF BackgroundComplete, Put, Enqueue, Move
      <3> QED BY <2>6, <3>2, SameRequests DEF BackgroundComplete, flagVars
    <2>7. CASE Submit(e)
      <3>0. place[e] = "out" /\ caller'[e] = "waiting" /\ withdrawn' = withdrawn
        BY <2>7 DEF Submit, Fresh, TypeOK, flagVars
      <3>1. CASE Put(e, "pending", {})
        <4>1. place'[e] = "inbox" /\ fut'[e] = "pending"
          BY <3>1 DEF Put, Enqueue, Move, TypeOK
        <4>2. \A r \in Requests : r # e => place'[r] = place[r] /\ fut'[r] = fut[r] /\ caller'[r] = caller[r]
          BY <1>0, <2>3, <2>7, <3>1 DEF Submit, Put, Enqueue, Move
        <4> QED BY <1>0, <3>0, <4>1, <4>2 DEF RequestInv, InLine
      <3>2. CASE UNCHANGED <<place, ahead>>
        <4>1. \A r \in Requests : r # e => fut'[r] = fut[r] /\ caller'[r] = caller[r]
          BY <1>0, <2>7 DEF Submit, Put, TypeOK
        <4> QED BY <1>0, <3>0, <3>2, <4>1 DEF RequestInv, InLine
      <3> QED BY <2>7, <3>1, <3>2 DEF Submit
    <2>8. CASE CancelPending(e)
      BY <2>8, LeaveRequests DEF CancelPending, Resolved
    <2> QED BY <2>1, <2>4, <2>5, <2>6, <2>7, <2>8
  <1>6. CASE Callers
    <2>1. PICK e \in Event : CallReturns(e) \/ CallAbandoned(e) \/ Withdraw(e) \/ WithdrawEnds(e)
      BY <1>6 DEF Callers
    <2>2. CASE CallReturns(e) \/ WithdrawEnds(e)
      <3>1. /\ UNCHANGED <<place, withdrawn>> /\ caller'[e] = "idle"
            /\ fut'[e] = fut[e] \/ place[e] = "out"
            /\ \A r \in Event : r # e => fut'[r] = fut[r] /\ caller'[r] = caller[r]
        BY <2>2 DEF CallReturns, WithdrawEnds, Return, TypeOK
      <3>2. caller[e] = "leaving" \/ fut[e] # "pending"
        BY <2>2 DEF CallReturns, WithdrawEnds
      <3> QED BY <1>0, <3>1, <3>2 DEF RequestInv, InLine
    <2>3. CASE CallAbandoned(e)
      <3>1. \A r \in Requests : r # e
        BY <1>0, <2>3 DEF CallAbandoned
      <3>2. \A r \in Requests : fut'[r] = fut[r] /\ caller'[r] = caller[r]
        BY <1>0, <2>3, <3>1 DEF CallAbandoned
      <3> QED BY <2>3, <3>2, SameRequests DEF CallAbandoned, flagVars
    <2>4. CASE Withdraw(e)
      <3>1. CASE place[e] = "inbox"
        BY <2>4, <3>1, LeaveRequests DEF Withdraw, Settle
      <3>2. CASE place[e] = "batch"
        <4>1. /\ UNCHANGED <<place, caller>> /\ withdrawn' = withdrawn \cup {e}
              /\ fut'[e] = "interrupted" /\ caller[e] = "waiting"
              /\ \A r \in Event : r # e => fut'[r] = fut[r]
          BY <2>4, <3>2 DEF Withdraw, Settle
        <4> QED BY <1>0, <3>2, <4>1 DEF RequestInv, InLine
      <3>3. CASE place[e] = "active"
        <4>1. /\ UNCHANGED <<place, fut>> /\ withdrawn' = withdrawn \cup {e}
              /\ \A r \in Event : r # e => caller'[r] = caller[r]
          BY <2>4, <3>3 DEF Withdraw, queueVars, TypeOK
        <4> QED BY <1>0, <3>3, <4>1 DEF RequestInv, InLine
      <3> QED BY <2>4, <3>1, <3>2, <3>3 DEF Withdraw
    <2> QED BY <2>1, <2>2, <2>3, <2>4
  <1>7. CASE Interrupt
    <2>1. \A r \in Event : \/ place'[r] = place[r] /\ fut'[r] = fut[r]
                           \/ place[r] = "inbox" /\ place'[r] = "out"
      BY <1>7 DEF Interrupt, Move, Settle, Inbox, In
    <2>2. UNCHANGED <<caller, withdrawn>>
      BY <1>7 DEF Interrupt
    <2> QED BY <1>0, <2>1, <2>2 DEF RequestInv, InLine
  <1>8. CASE Pause \/ Resume \/ StartRuns \/ StartConsumer \/ StopBegins \/ StopGathered \/ StopEnds
    BY <1>2, <1>8 DEF Pause, Resume, StartRuns, StartConsumer, StopBegins, StopGathered, StopEnds,
                      flagVars
  <1>9. CASE StopReaps
    BY <1>1, <1>2, <1>9 DEF StopReaps, flagVars
  <1>10. CASE UNCHANGED vars
    BY <1>2, <1>10 DEF vars, flagVars
  <1> QED BY <1>3, <1>4, <1>5, <1>6, <1>7, <1>8, <1>9, <1>10 DEF Next, Control

\* Only the beginning of its turn makes a request active.
LEMMA ServedByTurn ==
  ASSUME TypeOK, OrderInv, RequestInv, [Next]_vars,
         NEW r \in Requests, place[r] # "active", place'[r] = "active"
  PROVE  TurnBegins /\ r \in NextRun
  <1>0. r \in Event /\ Kind[r] \in {"request", "drive"}
    BY DEF Requests, Awaited
  <1>1. ~UNCHANGED place
    OBVIOUS
  <1>2. ~\E S : Leave(S)
    BY <1>0 DEF Leave, Move
  <1>3. ~\E s : ConsumerExits(s)
    BY <1>2 DEF ConsumerExits
  <1>4. CASE Consumer
    <2>1. ~(ConsumerTop \/ ConsumerWakes)
      BY <1>1, <1>3 DEF ConsumerTop, ConsumerWakes, queueVars
    <2>2. ~ConsumerClaims
      BY <1>0, <1>1, <1>3 DEF ConsumerClaims, Move, queueVars
    <2>3. ~(RunParks \/ BatchDone \/ CyclePrepared \/ ControllerStarts)
      BY <1>1 DEF RunParks, BatchDone, CyclePrepared, ControllerStarts, queueVars
    <2>4. ~(RunRejected \/ RunWithdrawn \/ TurnCrashes)
      BY <1>2 DEF RunRejected, RunWithdrawn, TurnCrashes
    <2>5. ~(LastRound \/ Terminates \/ LoopInterrupted)
      BY <1>1 DEF LastRound, Terminates, LoopInterrupted, LeaveLoop, queueVars
    <2>6. ~TurnFinishes
      BY <1>0 DEF TurnFinishes
    <2>7. TurnBegins
      BY <1>4, <2>1, <2>2, <2>3, <2>4, <2>5, <2>6 DEF Consumer
    <2> QED BY <1>0, <2>7 DEF TurnBegins, Move
  <1>5. ~RoundFolds
    BY <1>0, NoneFolded DEF RoundFolds, Move
  <1>6. ~Ingress
    <2> SUFFICES ASSUME Ingress PROVE FALSE
      OBVIOUS
    <2>1. PICK e \in Event :
            \/ \E X \in Backlog(e) : ProcessEvent(e, X) \/ ProcessEventDropped(e, X)
            \/ BackgroundComplete(e) \/ Submit(e) \/ CancelPending(e)
      BY DEF Ingress, ProcessEvent, ProcessEventDropped
    <2> QED BY <1>0, <1>1, <1>2, <2>1
            DEF ProcessEvent, ProcessEventDropped, BackgroundComplete, Submit, CancelPending,
                Put, Enqueue, Move
  <1>7. ~Callers
    BY <1>1, <1>2 DEF Callers, CallReturns, CallAbandoned, Withdraw, WithdrawEnds, queueVars
  <1>8. ~Interrupt
    BY <1>0 DEF Interrupt, Move
  <1>9. ~(Pause \/ Resume \/ StartRuns \/ StartConsumer \/ StopBegins \/ StopGathered \/ StopEnds)
    BY <1>1 DEF Pause, Resume, StartRuns, StartConsumer, StopBegins, StopGathered, StopEnds,
                queueVars
  <1>10. ~StopReaps
    BY <1>1, <1>3 DEF StopReaps, queueVars
  <1> QED BY <1>1, <1>4, <1>5, <1>6, <1>7, <1>8, <1>9, <1>10 DEF Next, Control, vars, queueVars

LEMMA StepServed ==
  ASSUME TypeOK, OrderInv, ActiveInv, RequestInv, OneServed, [Next]_vars
  PROVE  OneServed'
  <1> SUFFICES ASSUME NEW r \in Requests, NEW s \in Requests,
                      place'[r] = "active", place'[s] = "active"
               PROVE  r = s
    BY DEF OneServed, Requests
  <1>1. CASE place[r] = "active" /\ place[s] = "active"
    BY <1>1 DEF OneServed
  <1>2. ASSUME NEW u \in Requests, NEW v \in Requests, place'[u] = "active",
               place'[v] = "active", place[u] # "active"
        PROVE  u = v
    <2>1. TurnBegins /\ NextRun = {u}
      BY <1>2, ServedByTurn, RequestRun
    <2>2. ~Turning
      BY <2>1 DEF TurnBegins, PassesRunGate, Turning
    <2>3. place[v] # "active"
      BY <2>2 DEF ActiveInv, Active, In, Requests
    <2>4. v \in NextRun
      BY <1>2, <2>3, ServedByTurn
    <2> QED BY <2>1, <2>4
  <1> QED BY <1>1, <1>2

-----------------------------------------------------------------------------
(* Why a turn is cut.                                                       *)

\* While a turn goes on, and nothing folds into it, what it is made of, its order
\* and its marks stay, and nobody starts the agent.
LEMMA TurnStays ==
  ASSUME TypeOK, LifeInv, OrderInv, [Next]_vars, ~RoundFolds,
         Turning, Turning',
         NEW e \in Event
  PROVE  /\ place'[e] = "active" <=> place[e] = "active"
         /\ place[e] = "active" =>
              /\ ahead'[e] \subseteq ahead[e]
              /\ e \in byUser => e \in byUser'
              /\ e \in withdrawn => e \in withdrawn'
         /\ running' => running
  <1> USE DEF Turning
  <1>1. CASE UNCHANGED <<place, ahead, flagVars, running>>
    BY <1>1 DEF flagVars
  <1>2. CASE Consumer
    <2>1. CASE CyclePrepared \/ ControllerStarts
      BY <1>1, <2>1 DEF CyclePrepared, ControllerStarts, lifeVars, queueVars
    <2>2. ~(ConsumerTop \/ ConsumerWakes \/ ConsumerClaims \/ RunParks \/ BatchDone)
      BY DEF ConsumerTop, ConsumerWakes, ConsumerClaims, RunParks, BatchDone
    <2>3. ~(RunRejected \/ RunWithdrawn \/ TurnBegins)
      BY DEF RunRejected, RunWithdrawn, TurnBegins, PassesRunGate
    <2>4. CASE LastRound \/ Terminates \/ LoopInterrupted
      BY <2>4 DEF LastRound, Terminates, LoopInterrupted, LeaveLoop, lifeVars, queueVars
    <2>5. ~(TurnFinishes \/ TurnCrashes)
      BY DEF TurnFinishes, TurnCrashes, Goto
    <2> QED BY <1>2, <2>1, <2>2, <2>3, <2>4, <2>5 DEF Consumer
  <1>3. ASSUME NEW f \in Event, Leave({f}), place[f] # "active", UNCHANGED running
        PROVE  /\ place'[e] = "active" <=> place[e] = "active"
               /\ place[e] = "active" =>
                    /\ ahead'[e] \subseteq ahead[e]
                    /\ e \in byUser => e \in byUser'
                    /\ e \in withdrawn => e \in withdrawn'
               /\ running' => running
    BY <1>3 DEF Leave, Move
  <1>4. CASE Ingress
    <2>1. PICK f \in Event :
            \/ \E X \in Backlog(f) : ProcessEvent(f, X) \/ ProcessEventDropped(f, X)
            \/ BackgroundComplete(f) \/ Submit(f) \/ CancelPending(f)
      BY <1>4 DEF Ingress, ProcessEvent, ProcessEventDropped
    <2>2. ASSUME NEW S, \A g \in S : place[g] # "active", place[f] = "out", Enqueue(S, {f}),
                 UNCHANGED <<flagVars, running>>
          PROVE  /\ place'[e] = "active" <=> place[e] = "active"
                 /\ place[e] = "active" =>
                      /\ ahead'[e] \subseteq ahead[e]
                      /\ e \in byUser => e \in byUser'
                      /\ e \in withdrawn => e \in withdrawn'
                 /\ running' => running
      BY <2>2 DEF Enqueue, Move, flagVars
    <2>3. \A X \in Backlog(f) : X \in SUBSET In("out")
      BY DEF Backlog
    <2>9. \A X \in Backlog(f) : \A g \in In("stash") \cup X : place[g] # "active"
      BY <2>3 DEF In
    <2>4. ASSUME NEW X \in Backlog(f), ProcessEvent(f, X)
          PROVE  place[f] = "out" /\ Enqueue(In("stash") \cup X, {f}) /\ UNCHANGED <<flagVars, running>>
      BY <2>4 DEF ProcessEvent, Put, Fresh, lifeVars
    <2>5. ASSUME NEW X \in Backlog(f), ProcessEventDropped(f, X)
          PROVE  /\ place'[e] = "active" <=> place[e] = "active"
                 /\ UNCHANGED <<ahead, flagVars, running>>
      BY <2>3, <2>5 DEF ProcessEventDropped, Move, In, lifeVars
    <2>6. CASE BackgroundComplete(f) \/ (Submit(f) /\ ~UNCHANGED <<place, ahead>>)
      <3>1. PICK S : /\ place[f] = "out" /\ UNCHANGED <<flagVars, running>>
                     /\ S = In("stash") \cup {} /\ Enqueue(S, {f})
        BY <2>6 DEF BackgroundComplete, Submit, Put, Fresh, lifeVars
      <3>2. \A g \in S : place[g] # "active"
        BY <3>1 DEF In
      <3> QED BY <2>2, <3>1, <3>2
    <2>7. CASE Submit(f) /\ UNCHANGED <<place, ahead>>
      BY <1>1, <2>7 DEF Submit, lifeVars
    <2>8. CASE CancelPending(f)
      BY <1>3, <2>8 DEF CancelPending, lifeVars
    <2> QED BY <2>1, <2>2, <2>4, <2>5, <2>6, <2>7, <2>8, <2>9 DEF flagVars
  <1>5. CASE Callers
    <2>1. PICK f \in Event : CallReturns(f) \/ CallAbandoned(f) \/ Withdraw(f) \/ WithdrawEnds(f)
      BY <1>5 DEF Callers
    <2>2. CASE CallReturns(f) \/ WithdrawEnds(f)
      <3>1. UNCHANGED <<place, ahead, withdrawn, running>>
        BY <2>2 DEF CallReturns, WithdrawEnds, lifeVars
      <3>2. e \in byUser /\ place[e] = "active" => e \in byUser'
        BY <2>2 DEF CallReturns, WithdrawEnds, Return
      <3> QED BY <3>1, <3>2
    <2>3. CASE CallAbandoned(f)
      BY <1>1, <2>3 DEF CallAbandoned, lifeVars
    <2>4. CASE Withdraw(f)
      BY <1>3, <2>4 DEF Withdraw, queueVars, lifeVars
    <2> QED BY <2>1, <2>2, <2>3, <2>4
  <1>6. CASE Interrupt
    BY <1>6 DEF Interrupt, Move, Inbox, In, lifeVars
  <1>7. CASE Pause \/ Resume
    BY <1>1, <1>7 DEF Pause, Resume, queueVars
  <1>8. ~(StartRuns \/ StartConsumer)
    BY DEF StartRuns, StartConsumer, LifeInv
  <1>9. CASE StopBegins \/ StopGathered \/ StopEnds
    BY <1>9 DEF StopBegins, StopGathered, StopEnds, queueVars, flagVars
  <1>10. CASE StopReaps
    BY <1>1, <1>10 DEF StopReaps, ConsumerExits, Goto, queueVars
  <1>11. CASE UNCHANGED vars
    BY <1>1, <1>11 DEF vars, lifeVars, queueVars
  <1> QED BY <1>2, <1>4, <1>5, <1>6, <1>7, <1>8, <1>9, <1>10, <1>11 DEF Next, Control

LEMMA StepTurn ==
  ASSUME TypeOK, LifeInv, OrderInv, TurnInv, [Next]_vars
  PROVE  TurnInv'
  <1> SUFFICES ASSUME Turning' PROVE \E e \in Event : place'[e] = "active"
    BY DEF TurnInv, Active, In
  <1>1. CASE Turning
    <2>1. PICK e \in Event : place[e] = "active"
      BY <1>1 DEF TurnInv, Active, In
    <2>2. CASE RoundFolds
      BY <2>1, <2>2 DEF RoundFolds, Move
    <2> QED BY <1>1, <2>1, <2>2, TurnStays
  <1>2. CASE ~Turning
    <2>1. TurnBegins
      <3> USE DEF Turning, Goto
      <3>1. CASE Consumer
        <4>1. ~(ConsumerTop \/ ConsumerWakes \/ ConsumerClaims \/ RunParks \/ BatchDone)
          BY DEF ConsumerTop, ConsumerWakes, ConsumerClaims, RunParks, BatchDone, ConsumerExits
        <4>2. ~(RunRejected \/ RunWithdrawn \/ CyclePrepared \/ ControllerStarts)
          BY <1>2 DEF RunRejected, RunWithdrawn, CyclePrepared, ControllerStarts
        <4>3. ~(LastRound \/ Terminates \/ LoopInterrupted \/ TurnFinishes \/ TurnCrashes)
          BY <1>2 DEF LastRound, Terminates, LoopInterrupted, TurnFinishes, TurnCrashes
        <4> QED BY <3>1, <4>1, <4>2, <4>3 DEF Consumer
      <3>2. ~RoundFolds
        BY <1>2 DEF RoundFolds
      <3>3. ~(Ingress \/ Callers \/ Interrupt \/ Pause \/ Resume)
        BY <1>2 DEF Ingress, ProcessEvent, ProcessEventDropped, BackgroundComplete, Submit,
                    CancelPending, Callers, CallReturns, CallAbandoned, Withdraw, WithdrawEnds,
                    Interrupt, Pause, Resume
      <3>4. ~(StartRuns \/ StartConsumer \/ StopBegins \/ StopGathered \/ StopReaps \/ StopEnds)
        BY <1>2 DEF StartRuns, StartConsumer, StopBegins, StopGathered, StopReaps, StopEnds,
                    ConsumerExits
      <3>5. ~UNCHANGED vars
        BY <1>2 DEF vars
      <3> QED BY <3>1, <3>2, <3>3, <3>4, <3>5 DEF Next, Control
    <2>2. PICK e : e \in NextRun
      BY <2>1 DEF TurnBegins
    <2>3. e \in Event
      BY <2>2 DEF NextRun, Oldest, Batch, In
    <2> QED BY <2>1, <2>2, <2>3 DEF TurnBegins, Move
  <1> QED BY <1>1, <1>2

\* Every nonempty set of natural numbers has a least element.
LEMMA LeastNat ==
  ASSUME NEW T, T \subseteq Nat, T # {}
  PROVE  \E x \in T : \A y \in T : x <= y
  <1>1. OpToRel(<, Nat) = {ss \in Nat \X Nat : ss[1] < ss[2]}
    BY Zenon DEF OpToRel
  <1>2. PICK R : R = {ss \in Nat \X Nat : ss[1] < ss[2]}
    OBVIOUS
  <1>3. IsWellFoundedOn(R, Nat)
    BY <1>1, <1>2, NatLessThanWellFounded
  <1>4. PICK x \in T : \A y \in T : ~(<<y, x>> \in R)
    BY <1>3, WFMin
  <1>5. ASSUME NEW y \in T
        PROVE  x <= y
    <2>1. ~(y < x)
      BY <1>2, <1>4
    <2> QED BY <2>1
  <1> QED BY <1>5

\* A turn has a primary event: the one with the fewest of the turn ahead of it.
LEMMA PrimaryExists ==
  ASSUME IsFiniteSet(Event), TypeOK, OrderInv, Active # {}
  PROVE  Oldest(Active) # {}
  <1>1. PICK A : A = Active /\ A \subseteq Event /\ A # {}
    BY DEF Active, In
  <1>2. \A e \in A : IsFiniteSet(ahead[e] \cap A) /\ Cardinality(ahead[e] \cap A) \in Nat
    <2> TAKE e \in A
    <2>1. ahead[e] \cap A \subseteq Event
      BY <1>1
    <2>2. IsFiniteSet(ahead[e] \cap A)
      BY <2>1, FS_Subset
    <2> QED BY <2>2, FS_CardinalityType
  <1>3. PICK T : T = {Cardinality(ahead[e] \cap A) : e \in A}
    OBVIOUS
  <1>4. T \subseteq Nat /\ T # {}
    BY <1>1, <1>2, <1>3
  <1>5. PICK n \in T : \A m \in T : n <= m
    BY <1>4, LeastNat
  <1>6. PICK e \in A : Cardinality(ahead[e] \cap A) = n
    BY <1>3, <1>5
  <1>7. ASSUME NEW f \in ahead[e] \cap A
        PROVE  FALSE
    <2>1. /\ \A g \in Event : g \in ahead[f] => g \in ahead[e]
          /\ f \notin ahead[f]
      BY <1>1, <1>6, <1>7 DEF OrderInv
    <2>2. ahead[f] \cap A \subseteq ahead[e] \cap A /\ ahead[f] \cap A # ahead[e] \cap A
      BY <1>1, <1>7, <2>1
    <2>3. Cardinality(ahead[f] \cap A) < Cardinality(ahead[e] \cap A)
      BY <1>2, <1>6, <1>7, <2>2, FS_Subset
    <2>4. n <= Cardinality(ahead[f] \cap A)
      BY <1>3, <1>5, <1>7
    <2>5. n \in Nat /\ Cardinality(ahead[f] \cap A) \in Nat
      BY <1>2, <1>4, <1>5, <1>7
    <2> QED BY <1>6, <2>3, <2>4, <2>5
  <1> QED BY <1>1, <1>6, <1>7 DEF Oldest

Reason == \/ Oldest(Active) \cap byUser # {}
          \/ Active \cap withdrawn # {}
          \/ ~running

\* A request to cut the turn, or a cancellation of its task, has its reason from
\* the moment the turn has reset the requests of the turns before it.
CutInv ==
  /\ cancelling => con = "loop"
  /\ con \in {"push", "loop"} /\ (interrupted \/ cancelling) => Reason

LEMMA ReasonStays ==
  ASSUME TypeOK, LifeInv, OrderInv, TurnInv, [Next]_vars, ~RoundFolds, Turning, Turning', Reason
  PROVE  Reason'
  <1>1. \A e \in Event : e \in Active' <=> e \in Active
    BY TurnStays DEF Active, In
  <1>2. Active' = Active /\ Active \subseteq Event
    BY <1>1 DEF Active, In
  <1>3. \A e \in Active : /\ ahead'[e] \subseteq ahead[e]
                          /\ e \in byUser => e \in byUser'
                          /\ e \in withdrawn => e \in withdrawn'
                          /\ running' => running
    BY TurnStays DEF Active, In
  <1>4. CASE ~running
    <2>1. Active # {}
      BY DEF TurnInv
    <2> QED BY <1>3, <1>4, <2>1 DEF Reason
  <1>5. CASE Active \cap withdrawn # {}
    BY <1>2, <1>3, <1>5 DEF Reason
  <1>6. ASSUME NEW e \in Oldest(Active) \cap byUser
        PROVE  Reason'
    <2>1. e \in Active /\ ahead[e] \cap Active = {} /\ e \in byUser
      BY <1>6 DEF Oldest
    <2>2. e \in Active' /\ ahead'[e] \cap Active' = {} /\ e \in byUser'
      BY <1>2, <1>3, <2>1
    <2>3. Reason' <=> \/ \E f \in Active' : ahead'[f] \cap Active' = {} /\ f \in byUser'
                      \/ Active' \cap withdrawn' # {}
                      \/ ~running'
      BY DEF Reason, Oldest
    <2> QED BY <2>2, <2>3
  <1> QED BY <1>4, <1>5, <1>6 DEF Reason

\* A step makes a turn to be cut only with a reason.
LEMMA CutsWithReason ==
  ASSUME IsFiniteSet(Event), TypeOK, LifeInv, OrderInv, TurnInv, CutInv, [Next]_vars,
         con' \in {"push", "loop"}, interrupted' \/ cancelling'
  PROVE  Reason'
  <1> USE DEF Goto
  <1>0. \/ con \in {"push", "loop"}
        \/ CyclePrepared
    <2> SUFFICES ASSUME con \notin {"push", "loop"} PROVE CyclePrepared
      OBVIOUS
    <2>1. CASE Consumer
      <3>1. ~(ConsumerTop \/ ConsumerWakes \/ ConsumerClaims \/ RunParks \/ BatchDone)
        BY DEF ConsumerTop, ConsumerWakes, ConsumerClaims, RunParks, BatchDone, ConsumerExits
      <3>2. ~(RunRejected \/ RunWithdrawn \/ TurnBegins \/ ControllerStarts)
        BY DEF RunRejected, RunWithdrawn, TurnBegins, ControllerStarts
      <3>3. ~(LastRound \/ Terminates \/ LoopInterrupted \/ TurnFinishes \/ TurnCrashes)
        BY DEF LastRound, Terminates, LoopInterrupted, LeaveLoop, TurnFinishes, TurnCrashes
      <3> QED BY <2>1, <3>1, <3>2, <3>3 DEF Consumer
    <2>2. ~RoundFolds
      BY DEF RoundFolds
    <2>3. ~(Ingress \/ Callers \/ Interrupt \/ Pause \/ Resume)
      BY DEF Ingress, ProcessEvent, ProcessEventDropped, BackgroundComplete, Submit,
             CancelPending, Callers, CallReturns, CallAbandoned, Withdraw, WithdrawEnds,
             Interrupt, Pause, Resume
    <2>4. ~(StartRuns \/ StartConsumer \/ StopBegins \/ StopGathered \/ StopReaps \/ StopEnds)
      BY DEF StartRuns, StartConsumer, StopBegins, StopGathered, StopReaps, StopEnds, ConsumerExits
    <2>5. ~UNCHANGED vars
      BY DEF vars
    <2> QED BY <2>1, <2>2, <2>3, <2>4, <2>5 DEF Next, Control
  <1>1. ~CyclePrepared
    BY DEF CyclePrepared, CutInv, TypeOK
  <1>2. con \in {"push", "loop"} /\ Turning /\ Turning'
    BY <1>0, <1>1 DEF Turning
  <1>3. CASE interrupted \/ cancelling
    <2>1. Reason
      BY <1>2, <1>3 DEF CutInv
    <2>2. ~RoundFolds
      BY <1>3 DEF RoundFolds
    <2> QED BY <1>2, <2>1, <2>2, ReasonStays
  <1>4. CASE ~interrupted /\ ~cancelling
    <2>1. CASE UNCHANGED <<interrupted, cancelling>>
      BY <1>4, <2>1
    <2>2. CASE Consumer
      <3>1. CASE ControllerStarts
        <4>1. Active \cap withdrawn # {}
          BY <1>4, <3>1 DEF ControllerStarts, TypeOK
        <4>2. ~RoundFolds
          BY <3>1 DEF ControllerStarts, RoundFolds
        <4> QED BY <1>2, <4>1, <4>2, ReasonStays DEF Reason
      <3>2. ~(ConsumerTop \/ ConsumerWakes \/ ConsumerClaims \/ RunParks \/ BatchDone)
        BY <1>2 DEF ConsumerTop, ConsumerWakes, ConsumerClaims, RunParks, BatchDone
      <3>3. ~(RunRejected \/ RunWithdrawn \/ TurnBegins \/ CyclePrepared)
        BY <1>1, <1>2 DEF RunRejected, RunWithdrawn, TurnBegins, PassesRunGate
      <3>4. ~(LastRound \/ Terminates \/ LoopInterrupted \/ TurnFinishes \/ TurnCrashes)
        BY DEF LastRound, Terminates, LoopInterrupted, LeaveLoop, TurnFinishes, TurnCrashes
      <3> QED BY <2>2, <3>1, <3>2, <3>3, <3>4 DEF Consumer
    <2>3. CASE RoundFolds \/ UNCHANGED vars
      BY <2>1, <2>3 DEF RoundFolds, vars, turnVars
    <2>4. CASE Ingress
      BY <2>1, <2>4 DEF Ingress, ProcessEvent, ProcessEventDropped, BackgroundComplete, Submit,
                        CancelPending, turnVars
    <2>5. CASE Callers
      <3>1. PICK e \in Event : CallReturns(e) \/ CallAbandoned(e) \/ Withdraw(e) \/ WithdrawEnds(e)
        BY <2>5 DEF Callers
      <3>2. CASE CallReturns(e) \/ CallAbandoned(e) \/ WithdrawEnds(e)
        BY <2>1, <3>2 DEF CallReturns, CallAbandoned, WithdrawEnds, turnVars
      <3>3. CASE Withdraw(e) /\ place[e] = "active"
        <4>1. place'[e] = "active" /\ e \in withdrawn'
          BY <3>3 DEF Withdraw, queueVars
        <4> QED BY <4>1 DEF Reason, Active, In
      <3>4. CASE Withdraw(e) /\ place[e] # "active"
        BY <2>1, <3>4 DEF Withdraw, turnVars
      <3> QED BY <3>1, <3>2, <3>3, <3>4
    <2>6. CASE Interrupt
      <3>1. PICK e : e \in Oldest(Active)
        BY <1>2, PrimaryExists DEF TurnInv
      <3>2. ~RoundFolds
        BY <1>4, <2>6 DEF Interrupt, InterruptActiveTurn, RoundFolds, turnVars
      <3>3. \A f \in Event : f \in Active' <=> f \in Active
        BY <1>2, <3>2, TurnStays DEF Active, In
      <3>4. e \in Event /\ e \in Active /\ ahead[e] \cap Active = {}
        BY <3>1 DEF Oldest, Active, In
      <3>5. ahead'[e] \subseteq ahead[e]
        BY <1>2, <3>2, <3>4, TurnStays DEF Active, In
      <3>6. e \in Active' /\ ahead'[e] \cap Active' = {} /\ e \in byUser'
        <4>1. Active' \subseteq Event
          BY DEF Active, In
        <4>2. e \in byUser'
          BY <2>6, <3>1 DEF Interrupt
        <4> QED BY <3>3, <3>4, <3>5, <4>1, <4>2
      <3> QED BY <3>6 DEF Reason, Oldest
    <2>7. CASE Pause \/ Resume \/ StartRuns \/ StartConsumer \/ StopGathered \/ StopEnds
      BY <2>1, <2>7 DEF Pause, Resume, StartRuns, StartConsumer, StopGathered, StopEnds, turnVars
    <2>8. CASE StopBegins
      BY <2>8 DEF StopBegins, Reason
    <2>9. CASE StopReaps
      BY <2>9 DEF StopReaps, Reason, LifeInv
    <2> QED BY <2>2, <2>3, <2>4, <2>5, <2>6, <2>7, <2>8, <2>9 DEF Next, Control
  <1> QED BY <1>3, <1>4 DEF TypeOK

\* Only the task of a turn that runs has a cancellation to deliver.
LEMMA StepCancelling ==
  ASSUME TypeOK, LifeInv, cancelling => con = "loop", [Next]_vars, cancelling'
  PROVE  con' = "loop"
  <1> USE DEF Goto
  <1>1. CASE UNCHANGED <<con, cancelling>>
    BY <1>1
  <1>2. CASE Consumer
    <2>1. CASE ConsumerTop \/ ConsumerWakes \/ ConsumerClaims \/ RunParks \/ BatchDone
      BY <2>1 DEF ConsumerTop, ConsumerWakes, ConsumerClaims, RunParks, BatchDone, turnVars
    <2>2. CASE RunRejected \/ RunWithdrawn \/ TurnBegins \/ CyclePrepared \/ ControllerStarts
      BY <2>2 DEF RunRejected, RunWithdrawn, TurnBegins, CyclePrepared, ControllerStarts,
                  PassesRunGate, turnVars
    <2>3. CASE LastRound \/ Terminates \/ LoopInterrupted \/ TurnFinishes \/ TurnCrashes
      BY <2>3 DEF LastRound, Terminates, LoopInterrupted, LeaveLoop, TurnFinishes, TurnCrashes
    <2> QED BY <1>2, <2>1, <2>2, <2>3 DEF Consumer
  <1>3. CASE RoundFolds \/ UNCHANGED vars
    BY <1>3 DEF RoundFolds, vars, turnVars
  <1>4. CASE Ingress
    BY <1>4 DEF Ingress, ProcessEvent, ProcessEventDropped, BackgroundComplete, Submit,
                CancelPending, turnVars
  <1>5. CASE Callers
    BY <1>5 DEF Callers, CallReturns, CallAbandoned, Withdraw, WithdrawEnds, InterruptActiveTurn,
                turnVars
  <1>6. CASE Interrupt \/ Pause \/ Resume
    BY <1>6 DEF Interrupt, InterruptActiveTurn, Pause, Resume, turnVars
  <1>7. CASE StartRuns \/ StartConsumer \/ StopBegins \/ StopGathered \/ StopReaps \/ StopEnds
    BY <1>7 DEF StartRuns, StartConsumer, StopBegins, StopGathered, StopReaps, StopEnds, turnVars,
                LifeInv
  <1> QED BY <1>2, <1>3, <1>4, <1>5, <1>6, <1>7 DEF Next, Control

LEMMA StepCut ==
  ASSUME IsFiniteSet(Event), TypeOK, LifeInv, OrderInv, TurnInv, CutInv, [Next]_vars
  PROVE  CutInv'
  <1>1. cancelling' => con' = "loop"
    BY StepCancelling DEF CutInv
  <1>2. con' \in {"push", "loop"} /\ (interrupted' \/ cancelling') => Reason'
    BY CutsWithReason
  <1> QED BY <1>1, <1>2 DEF CutInv

\* A turn leaves its loop cut short with the marks its reason is read from: those
\* it had when the request to cut it was made.
LEMMA StepReason ==
  ASSUME TypeOK, CutInv, [Next]_vars, con = "loop", con' = "final", left' = "cut"
  PROVE  \/ Oldest(Active) \cap byUser # {}
         \/ Active \cap withdrawn # {}
         \/ ~running
  <1> USE DEF Goto
  <1>1. LoopInterrupted
    <2>1. CASE Consumer
      <3>1. ~(ConsumerTop \/ ConsumerWakes \/ ConsumerClaims \/ RunParks \/ BatchDone)
        BY DEF ConsumerTop, ConsumerWakes, ConsumerClaims, RunParks, BatchDone
      <3>2. ~(RunRejected \/ RunWithdrawn \/ TurnBegins \/ CyclePrepared \/ ControllerStarts)
        BY DEF RunRejected, RunWithdrawn, TurnBegins, PassesRunGate, CyclePrepared, ControllerStarts
      <3>3. ~(LastRound \/ Terminates \/ TurnFinishes \/ TurnCrashes)
        BY DEF LastRound, Terminates, LeaveLoop, TurnFinishes, TurnCrashes
      <3> QED BY <2>1, <3>1, <3>2, <3>3 DEF Consumer
    <2>2. con' # con
      OBVIOUS
    <2>3. ~(RoundFolds \/ UNCHANGED vars)
      BY <2>2 DEF RoundFolds, vars
    <2>4. ~(Ingress \/ Callers \/ Interrupt \/ Pause \/ Resume)
      BY <2>2 DEF Ingress, ProcessEvent, ProcessEventDropped, BackgroundComplete, Submit,
                  CancelPending, Callers, CallReturns, CallAbandoned, Withdraw, WithdrawEnds,
                  Interrupt, Pause, Resume
    <2>5. ~(StartRuns \/ StartConsumer \/ StopBegins \/ StopGathered \/ StopReaps \/ StopEnds)
      BY <2>2 DEF StartRuns, StartConsumer, StopBegins, StopGathered, StopReaps, StopEnds,
                  ConsumerExits
    <2> QED BY <2>1, <2>3, <2>4, <2>5 DEF Next, Control
  <1> QED BY <1>1 DEF LoopInterrupted, CutInv, Reason

-----------------------------------------------------------------------------
(* The inductive invariant.                                                 *)

LoopInv == IInv /\ OrderInv /\ RequestInv /\ OneServed /\ TurnInv

LEMMA LoopInductive == Spec => []LoopInv
  <1>1. Init => LoopInv
    <2> SUFFICES ASSUME Init PROVE LoopInv
      OBVIOUS
    <2>1. IInv
      BY InitType, InitLife DEF Init, IInv, NoCallerStranded
    <2>2. OrderInv
      BY DEF Init, OrderInv, Loop
    <2>3. RequestInv /\ OneServed
      BY DEF Init, RequestInv, InLine, OneServed, Requests
    <2>4. TurnInv
      BY DEF Init, TurnInv, Turning
    <2> QED BY <2>1, <2>2, <2>3, <2>4 DEF LoopInv
  <1>2. LoopInv /\ [Next]_vars => LoopInv'
    <2> SUFFICES ASSUME LoopInv, [Next]_vars PROVE LoopInv'
      OBVIOUS
    <2>1. TypeOK /\ LifeInv /\ ActiveInv /\ NoCallerStranded /\ Held
      BY DEF LoopInv, IInv, NoCallerStranded, Held
    <2>2. IInv'
      BY <2>1, NextType, StepLife, StepActive, StepAnswered DEF IInv
    <2>3. OrderInv /\ RequestInv /\ OneServed /\ TurnInv
      BY DEF LoopInv
    <2>4. OrderInv' /\ RequestInv' /\ OneServed' /\ TurnInv'
      BY <2>1, <2>3, StepOrder, StepRequests, StepServed, StepTurn
    <2> QED BY <2>2, <2>4 DEF LoopInv
  <1> QED BY <1>1, <1>2, PTL DEF Spec

\* The reason of a cut is one of this turn, for any finite set of producers: an
\* interrupt that meant an earlier turn is forgotten when the next one prepares.
THEOREM CutsAreOwn ==
  ASSUME IsFiniteSet(Event)
  PROVE  Spec => CutForItsOwnReason
  <1>1. Init => CutInv
    BY DEF Init, CutInv
  <1>2. LoopInv /\ CutInv /\ [Next]_vars => CutInv'
    BY StepCut DEF LoopInv, IInv
  <1>3. LoopInv /\ CutInv /\ [Next]_vars =>
          [con = "loop" /\ con' = "final" /\ left' = "cut" =>
             \/ Oldest(Active) \cap byUser # {}
             \/ Active \cap withdrawn # {}
             \/ ~running]_vars
    BY StepReason DEF LoopInv, IInv
  <1> QED BY <1>1, <1>2, <1>3, LoopInductive, PTL DEF Spec, CutForItsOwnReason

-----------------------------------------------------------------------------
(* The state of the service, and what it takes for a step to be one of its  *)
(* steps.                                                                   *)

LEMMA StateIs ==
  \A r \in Requests :
    ServiceState[r] = IF place[r] = "active" THEN "serving"
                      ELSE IF fut[r] = "pending" THEN "waiting"
                      ELSE IF caller[r] # "idle" THEN "answered" ELSE "idle"
  BY DEF ServiceState, Requests

LEMMA StateBecomes ==
  \A r \in Requests :
    ServiceState'[r] = IF place'[r] = "active" THEN "serving"
                       ELSE IF fut'[r] = "pending" THEN "waiting"
                       ELSE IF caller'[r] # "idle" THEN "answered" ELSE "idle"
  BY DEF ServiceState, Requests

LEMMA StateTypes ==
  /\ ServiceState = [r \in Requests |-> ServiceState[r]]
  /\ ServiceState' = [r \in Requests |-> ServiceState'[r]]
  /\ ServiceAnswer = [r \in Requests |-> ServiceAnswer[r]]
  /\ ServiceAnswer' = [r \in Requests |-> ServiceAnswer'[r]]
  /\ ServiceBefore = [r \in Requests |-> ServiceBefore[r]]
  /\ ServiceBefore' = [r \in Requests |-> ServiceBefore'[r]]
  BY DEF ServiceState, ServiceAnswer, ServiceBefore, Requests

LEMMA AnswerIs ==
  \A r \in Requests :
    /\ ServiceAnswer[r] = IF ServiceState[r] = "answered" THEN fut[r] ELSE "none"
    /\ ServiceAnswer'[r] = IF ServiceState'[r] = "answered" THEN fut'[r] ELSE "none"
  BY DEF ServiceAnswer, Requests

LEMMA BeforeIs ==
  \A r \in Requests :
    /\ ServiceBefore[r] = IF ServiceState[r] # "waiting" THEN {}
                          ELSE {f \in ahead[r] \cap Requests : ServiceState[f] = "waiting"}
    /\ ServiceBefore'[r] = IF ServiceState'[r] # "waiting" THEN {}
                           ELSE {f \in ahead'[r] \cap Requests : ServiceState'[f] = "waiting"}
  BY DEF ServiceBefore, Requests

\* The requests of S stop waiting, and the others keep their order.
LEMMA LineShrinks ==
  ASSUME NEW S,
         \A r \in Requests : ServiceState'[r] = "waiting" <=> ServiceState[r] = "waiting" /\ r \notin S,
         \A r, s \in Requests : ServiceState'[r] = "waiting" /\ ServiceState'[s] = "waiting" =>
                                  (s \in ahead'[r] <=> s \in ahead[r])
  PROVE  \A r \in Requests : ServiceBefore'[r] = IF r \in S THEN {} ELSE ServiceBefore[r] \ S
  <1>1. ASSUME NEW r \in Requests
        PROVE  ServiceBefore'[r] = IF r \in S THEN {} ELSE ServiceBefore[r] \ S
    <2>1. CASE ServiceState'[r] # "waiting"
      BY <2>1, BeforeIs
    <2>2. CASE ServiceState'[r] = "waiting"
      <3>1. ServiceState[r] = "waiting" /\ r \notin S
        BY <2>2
      <3>2. ServiceBefore[r] = {f \in ahead[r] \cap Requests : ServiceState[f] = "waiting"}
        BY <3>1, BeforeIs
      <3>3. ServiceBefore'[r] = {f \in ahead'[r] \cap Requests : ServiceState'[f] = "waiting"}
        BY <2>2, BeforeIs
      <3>4. \A s \in Requests : s \in ServiceBefore'[r] <=> s \in ServiceBefore[r] /\ s \notin S
        BY <2>2, <3>2, <3>3
      <3>5. ServiceBefore[r] \subseteq Requests /\ ServiceBefore'[r] \subseteq Requests
        BY <3>2, <3>3
      <3>6. ServiceBefore'[r] = ServiceBefore[r] \ S
        BY <3>4, <3>5
      <3> QED BY <3>1, <3>6
    <2> QED BY <2>1, <2>2
  <1> QED BY <1>1

\* The same requests wait, in the same order.
LEMMA LineStays ==
  ASSUME \A r \in Requests : ServiceState'[r] = "waiting" <=> ServiceState[r] = "waiting",
         \A r, s \in Requests : ServiceState'[r] = "waiting" /\ ServiceState'[s] = "waiting" =>
                                  (s \in ahead'[r] <=> s \in ahead[r])
  PROVE  ServiceBefore' = ServiceBefore
  <1>1. PICK S : S = {}
    OBVIOUS
  <1>2. \A r \in Requests : ServiceBefore'[r] = IF r \in S THEN {} ELSE ServiceBefore[r] \ S
    BY <1>1, LineShrinks
  <1> QED BY <1>1, <1>2, StateTypes

\* Nothing happens to the service.
LEMMA Stutters ==
  ASSUME \A r \in Requests : /\ ServiceState'[r] = ServiceState[r]
                             /\ ServiceState[r] = "answered" => fut'[r] = fut[r],
         \A r, s \in Requests : ServiceState[r] = "waiting" /\ ServiceState[s] = "waiting" =>
                                  (s \in ahead'[r] <=> s \in ahead[r])
  PROVE  UNCHANGED Service!vars
  <1>1. ServiceState' = ServiceState
    BY StateTypes
  <1>2. ServiceAnswer' = ServiceAnswer
    BY <1>1, StateTypes, AnswerIs
  <1>3. ServiceBefore' = ServiceBefore
    BY <1>1, LineStays
  <1> QED BY <1>1, <1>2, <1>3 DEF Service!vars

\* The waiting requests S are answered with a.
LEMMA Drops ==
  ASSUME NEW S \in SUBSET Requests, NEW a \in {"rejected", "interrupted", "byuser"},
         \A r \in S : ServiceState[r] = "waiting" /\ ServiceState'[r] = "answered" /\ fut'[r] = a,
         \A r \in Requests : r \notin S =>
           /\ ServiceState'[r] = ServiceState[r]
           /\ ServiceState[r] = "answered" => fut'[r] = fut[r],
         \A r, s \in Requests : ServiceState'[r] = "waiting" /\ ServiceState'[s] = "waiting" =>
                                  (s \in ahead'[r] <=> s \in ahead[r])
  PROVE  Service!Next
  <1>1. \A r \in Requests : ServiceBefore'[r] = IF r \in S THEN {} ELSE ServiceBefore[r] \ S
    BY LineShrinks
  <1>2. \A r \in Requests : ServiceState'[r] = IF r \in S THEN "answered" ELSE ServiceState[r]
    OBVIOUS
  <1>3. \A r \in Requests : ServiceAnswer'[r] = IF r \in S THEN a ELSE ServiceAnswer[r]
    BY <1>2, AnswerIs
  <1>4. Service!Drop(S, a)
    BY <1>1, <1>2, <1>3, StateTypes DEF Service!Drop, Service!Answer, Service!LeaveLine
  <1>5. S \in SUBSET Service!Waiting /\ a \in Service!Unserved
    BY DEF Service!Waiting, Service!Unserved
  <1> QED BY <1>4, <1>5 DEF Service!Next

\* Everybody who waits is rejected and the request that is served, if any, is cut.
LEMMA Closes ==
  ASSUME \A r \in Requests :
           /\ ServiceState[r] = "waiting" => ServiceState'[r] = "answered" /\ fut'[r] = "rejected"
           /\ ServiceState[r] = "serving" =>
                \/ ServiceState'[r] = "idle"
                \/ ServiceState'[r] = "answered" /\ fut'[r] = "interrupted"
           /\ ServiceState[r] \notin {"waiting", "serving"} =>
                /\ ServiceState'[r] = ServiceState[r]
                /\ ServiceState[r] = "answered" => fut'[r] = fut[r]
  PROVE  Service!Next
  <1>1. PICK W : W = {r \in Requests : ServiceState[r] = "waiting"}
    OBVIOUS
  <1>2. PICK told : told = {r \in Requests : ServiceState[r] = "serving" /\ ServiceState'[r] = "answered"}
    OBVIOUS
  <1>3. W = Service!Waiting /\ told \in SUBSET Service!Serving
    BY <1>1, <1>2 DEF Service!Waiting, Service!Serving
  <1>4. \A r \in Requests : ServiceState'[r] # "waiting"
    <2> TAKE r \in Requests
    <2>1. CASE ServiceState[r] = "waiting"
      BY <2>1
    <2>2. CASE ServiceState[r] = "serving"
      BY <2>2
    <2>3. CASE ServiceState[r] \notin {"waiting", "serving"}
      BY <2>3
    <2> QED BY <2>1, <2>2, <2>3
  <1>5. \A r \in Requests : ServiceBefore'[r] = IF r \in W THEN {} ELSE ServiceBefore[r] \ W
    <2>1. \A r \in Requests : ServiceBefore'[r] = {}
      BY <1>4, BeforeIs
    <2>2. \A r \in Requests : r \notin W => ServiceBefore[r] = {}
      BY <1>1, BeforeIs
    <2> QED BY <2>1, <2>2
  <1>6. \A r \in Requests :
          ServiceState'[r] = IF r \in W \cup told THEN "answered"
                             ELSE IF r \in Service!Serving THEN "idle" ELSE ServiceState[r]
    <2> TAKE r \in Requests
    <2>1. CASE ServiceState[r] = "waiting"
      BY <1>1, <2>1
    <2>2. CASE ServiceState[r] = "serving"
      BY <1>1, <1>2, <2>2 DEF Service!Serving
    <2>3. CASE ServiceState[r] \notin {"waiting", "serving"}
      BY <1>1, <1>2, <2>3 DEF Service!Serving
    <2> QED BY <2>1, <2>2, <2>3
  <1>7. \A r \in Requests :
          ServiceAnswer'[r] = IF r \in W THEN "rejected"
                              ELSE IF r \in told THEN "interrupted" ELSE ServiceAnswer[r]
    <2> TAKE r \in Requests
    <2>1. CASE ServiceState[r] = "waiting"
      BY <1>1, <2>1, AnswerIs
    <2>2. CASE ServiceState[r] = "serving"
      BY <1>1, <1>2, <2>2, AnswerIs
    <2>3. CASE ServiceState[r] \notin {"waiting", "serving"}
      BY <1>1, <1>2, <2>3, AnswerIs
    <2> QED BY <2>1, <2>2, <2>3
  <1>8. Service!Close(told)
    BY <1>3, <1>5, <1>6, <1>7, StateTypes DEF Service!Close, Service!LeaveLine
  <1> QED BY <1>3, <1>8 DEF Service!Next

\* The request r that is served is done with.
LEMMA Finishes ==
  ASSUME NEW r \in Requests, NEW a \in {"ok", "failed", "interrupted", "byuser", "error"},
         ServiceState[r] = "serving",
         ServiceState'[r] = "idle" \/ (ServiceState'[r] = "answered" /\ fut'[r] = a),
         \A s \in Requests : s # r =>
           /\ ServiceState'[s] = ServiceState[s]
           /\ ServiceState[s] = "answered" => fut'[s] = fut[s],
         \A s, u \in Requests : ServiceState'[s] = "waiting" /\ ServiceState'[u] = "waiting" =>
                                  (u \in ahead'[s] <=> u \in ahead[s])
  PROVE  Service!Next
  <1>1. ServiceBefore' = ServiceBefore
    BY LineStays
  <1>2. \A s \in Requests : s # r => ServiceAnswer'[s] = ServiceAnswer[s]
    BY AnswerIs
  <1>3. Service!Finish(r, a)
    <2>1. CASE ServiceState'[r] = "idle"
      <3>1. ServiceState' = [ServiceState EXCEPT ![r] = "idle"]
        BY <2>1, StateTypes
      <3>2. ServiceAnswer'[r] = ServiceAnswer[r]
        BY <2>1, AnswerIs
      <3>3. ServiceAnswer' = ServiceAnswer
        BY <1>2, <3>2, StateTypes
      <3> QED BY <1>1, <3>1, <3>3 DEF Service!Finish
    <2>2. CASE ServiceState'[r] = "answered" /\ fut'[r] = a
      <3>1. \A s \in Requests : ServiceState'[s] = IF s \in {r} THEN "answered" ELSE ServiceState[s]
        BY <2>2
      <3>2. \A s \in Requests : ServiceAnswer'[s] = IF s \in {r} THEN a ELSE ServiceAnswer[s]
        BY <1>2, <2>2, AnswerIs
      <3>3. Service!Answer({r}, a)
        BY <3>1, <3>2, StateTypes DEF Service!Answer
      <3> QED BY <1>1, <3>3 DEF Service!Finish
    <2> QED BY <2>1, <2>2
  <1>4. a \in Service!Served
    BY DEF Service!Served
  <1> QED BY <1>3, <1>4 DEF Service!Next

\* The request r is served: it is the first in line, and nobody is served.
LEMMA Serves ==
  ASSUME NEW r \in Requests,
         ServiceState[r] = "waiting", ServiceState'[r] = "serving",
         \A s \in Requests : s \in ahead[r] => ServiceState[s] # "waiting",
         \A s \in Requests : ServiceState[s] # "serving",
         \A s \in Requests : s # r =>
           /\ ServiceState'[s] = ServiceState[s]
           /\ ServiceState[s] = "answered" => fut'[s] = fut[s],
         \A s, u \in Requests : ServiceState'[s] = "waiting" /\ ServiceState'[u] = "waiting" =>
                                  (u \in ahead'[s] <=> u \in ahead[s])
  PROVE  Service!Next
  <1>1. \A s \in Requests : ServiceBefore'[s] = IF s \in {r} THEN {} ELSE ServiceBefore[s] \ {r}
    <2> PICK S : S = {r}
      OBVIOUS
    <2>1. \A s \in Requests : ServiceState'[s] = "waiting" <=> ServiceState[s] = "waiting" /\ s \notin S
      OBVIOUS
    <2>2. \A s \in Requests : ServiceBefore'[s] = IF s \in S THEN {} ELSE ServiceBefore[s] \ S
      BY <2>1, LineShrinks
    <2> QED BY <2>2
  <1>2. ServiceBefore[r] = {}
    BY BeforeIs
  <1>3. ServiceAnswer' = ServiceAnswer
    BY StateTypes, AnswerIs
  <1>4. ServiceState' = [ServiceState EXCEPT ![r] = "serving"]
    BY StateTypes
  <1>5. Service!LeaveLine({r})
    BY <1>1, StateTypes DEF Service!LeaveLine
  <1>6. Service!Serving = {}
    BY DEF Service!Serving
  <1>7. Service!Serve(r)
    BY <1>2, <1>3, <1>4, <1>5, <1>6 DEF Service!Serve
  <1> QED BY <1>7 DEF Service!Next

\* The request r joins the line behind everybody who waits.
LEMMA Accepts ==
  ASSUME NEW r \in Requests,
         ServiceState[r] = "idle", ServiceState'[r] = "waiting",
         \A s \in Requests : s # r =>
           /\ ServiceState'[s] = ServiceState[s]
           /\ ServiceState[s] = "answered" => fut'[s] = fut[s],
         \A s \in Requests : s # r /\ ServiceState[s] = "waiting" =>
                               s \in ahead'[r] /\ r \notin ahead'[s],
         r \notin ahead'[r],
         \A s, u \in Requests : s # r /\ u # r => (u \in ahead'[s] <=> u \in ahead[s])
  PROVE  Service!Next
  <1>1. ServiceAnswer' = ServiceAnswer
    BY StateTypes, AnswerIs
  <1>2. ServiceState' = [ServiceState EXCEPT ![r] = "waiting"]
    BY StateTypes
  <1>3. ServiceBefore'[r] = Service!Waiting
    <2>1. ServiceBefore'[r] = {s \in ahead'[r] \cap Requests : ServiceState'[s] = "waiting"}
      BY BeforeIs
    <2>2. \A s \in Requests : s \in ahead'[r] /\ ServiceState'[s] = "waiting"
                                <=> ServiceState[s] = "waiting"
      OBVIOUS
    <2> QED BY <2>1, <2>2 DEF Service!Waiting
  <1>4. ASSUME NEW s \in Requests, s # r
        PROVE  ServiceBefore'[s] = ServiceBefore[s]
    <2>1. CASE ServiceState[s] # "waiting"
      BY <1>4, <2>1, BeforeIs
    <2>2. CASE ServiceState[s] = "waiting"
      <3>1. /\ ServiceBefore[s] = {u \in ahead[s] \cap Requests : ServiceState[u] = "waiting"}
            /\ ServiceBefore'[s] = {u \in ahead'[s] \cap Requests : ServiceState'[u] = "waiting"}
        BY <1>4, <2>2, BeforeIs
      <3>2. \A u \in Requests : u \in ahead'[s] /\ ServiceState'[u] = "waiting"
                                  <=> u \in ahead[s] /\ ServiceState[u] = "waiting"
        BY <1>4, <2>2
      <3> QED BY <3>1, <3>2
    <2> QED BY <2>1, <2>2
  <1>5. ServiceBefore' = [ServiceBefore EXCEPT ![r] = Service!Waiting]
    BY <1>3, <1>4, StateTypes
  <1>6. Service!Accept(r)
    BY <1>1, <1>2, <1>5 DEF Service!Accept
  <1> QED BY <1>6 DEF Service!Next

\* The request r is refused, or its caller leaves with its answer.
LEMMA TurnsAway ==
  ASSUME NEW r \in Requests,
         \/ ServiceState[r] = "idle" /\ ServiceState'[r] = "answered" /\ fut'[r] = "rejected"
         \/ ServiceState[r] = "answered" /\ ServiceState'[r] = "idle",
         \A s \in Requests : s # r =>
           /\ ServiceState'[s] = ServiceState[s]
           /\ ServiceState[s] = "answered" => fut'[s] = fut[s],
         UNCHANGED ahead
  PROVE  Service!Next
  <1>1. ServiceBefore' = ServiceBefore
    BY LineStays
  <1>2. \A s \in Requests : s # r => ServiceAnswer'[s] = ServiceAnswer[s]
    BY AnswerIs
  <1>3. CASE ServiceState'[r] = "answered" /\ ServiceState[r] = "idle"
    <2>1. ServiceState' = [ServiceState EXCEPT ![r] = "answered"]
      BY <1>3, StateTypes
    <2>2. ServiceAnswer'[r] = "rejected"
      BY <1>3, AnswerIs
    <2>3. ServiceAnswer' = [ServiceAnswer EXCEPT ![r] = "rejected"]
      BY <1>2, <2>2, StateTypes
    <2>4. Service!Refuse(r)
      BY <1>1, <1>3, <2>1, <2>3 DEF Service!Refuse
    <2> QED BY <2>4 DEF Service!Next
  <1>4. CASE ServiceState[r] = "answered" /\ ServiceState'[r] = "idle"
    <2>1. ServiceState' = [ServiceState EXCEPT ![r] = "idle"]
      BY <1>4, StateTypes
    <2>2. ServiceAnswer'[r] = "none"
      BY <1>4, AnswerIs
    <2>3. ServiceAnswer' = [ServiceAnswer EXCEPT ![r] = "none"]
      BY <1>2, <2>2, StateTypes
    <2>4. Service!Return(r)
      BY <1>1, <1>4, <2>1, <2>3 DEF Service!Return
    <2> QED BY <2>4 DEF Service!Next
  <1> QED BY <1>3, <1>4

-----------------------------------------------------------------------------
(* The steps of the loop, as steps of the service.                          *)

\* A request that waits is in line, and one out of the loop has no future to wait
\* for.
LEMMA WhereWaiting ==
  ASSUME LoopInv, NEW r \in Requests
  PROVE  /\ r \in Event
         /\ place[r] \in {"out", "inbox", "batch", "active"}
         /\ ServiceState[r] = "waiting" => place[r] \in {"inbox", "batch"} /\ InLine(r)
         /\ ServiceState[r] = "serving" <=> place[r] = "active"
         /\ place[r] = "inbox" => ServiceState[r] = "waiting"
         /\ place[r] = "out" => fut[r] # "pending"
  <1>1. r \in Event /\ Kind[r] # "extra"
    BY DEF Requests, Awaited
  <1>2. place[r] \in {"out", "inbox", "batch", "active"}
    BY <1>1 DEF LoopInv, IInv, TypeOK, Places, OrderInv
  <1>3. place[r] = "out" => fut[r] # "pending"
    BY <1>1 DEF LoopInv, IInv, NoCallerStranded
  <1>4. ServiceState[r] = IF place[r] = "active" THEN "serving"
                          ELSE IF fut[r] = "pending" THEN "waiting"
                          ELSE IF caller[r] # "idle" THEN "answered" ELSE "idle"
    BY StateIs
  <1> QED BY <1>1, <1>2, <1>3, <1>4 DEF LoopInv, RequestInv, InLine

\* What the requests and their order are read from stays.
LEMMA StutterIfSame ==
  ASSUME UNCHANGED ahead,
         \A r \in Requests : place'[r] = place[r] /\ fut'[r] = fut[r] /\ caller'[r] = caller[r]
  PROVE  UNCHANGED Service!vars
  <1>1. \A r \in Requests : ServiceState'[r] = ServiceState[r]
    BY StateIs, StateBecomes
  <1> QED BY <1>1, Stutters

LEMMA ExitCloses ==
  ASSUME LoopInv, NEW a \in {"rejected", "interrupted"}, ConsumerExits(a), UNCHANGED caller,
         a = "interrupted" \/ Active = {}
  PROVE  Service!Next
  <1>1. ASSUME NEW r \in Requests
        PROVE  /\ place'[r] = "out"
               /\ fut'[r] = IF place[r] = "out" THEN fut[r]
                            ELSE IF caller[r] = "idle" THEN "none"
                            ELSE IF fut[r] # "pending" THEN fut[r]
                            ELSE IF place[r] = "active" THEN a ELSE "rejected"
    <2>1. r \in Event /\ place[r] \in {"out", "inbox", "batch", "active"}
      BY WhereWaiting
    <2>2. r \in Inbox \cup Batch \cup Active <=> place[r] # "out"
      BY <2>1 DEF Inbox, Batch, Active, In
    <2>3. r \in Active <=> place[r] = "active"
      BY <2>1 DEF Active, In
    <2>4. place'[r] = IF r \in Inbox \cup Batch \cup Active THEN "out" ELSE place[r]
      BY <2>1 DEF ConsumerExits, Leave, Move
    <2>5. fut'[r] = IF r \notin Inbox \cup Batch \cup Active THEN fut[r]
                    ELSE IF caller[r] = "idle" THEN "none"
                    ELSE IF fut[r] # "pending" THEN fut[r]
                    ELSE IF r \in Active THEN a ELSE "rejected"
      BY <2>1 DEF ConsumerExits, Resolved
    <2> QED BY <2>2, <2>3, <2>4, <2>5
  <1>2. ASSUME NEW r \in Requests
        PROVE  /\ ServiceState[r] = "waiting" => ServiceState'[r] = "answered" /\ fut'[r] = "rejected"
               /\ ServiceState[r] = "serving" =>
                    \/ ServiceState'[r] = "idle"
                    \/ ServiceState'[r] = "answered" /\ fut'[r] = "interrupted"
               /\ ServiceState[r] \notin {"waiting", "serving"} =>
                    /\ ServiceState'[r] = ServiceState[r]
                    /\ ServiceState[r] = "answered" => fut'[r] = fut[r]
    <2>1. CASE ServiceState[r] = "waiting"
      <3>1. place[r] \in {"inbox", "batch"} /\ fut[r] = "pending" /\ caller[r] = "waiting"
        BY <2>1, WhereWaiting DEF InLine
      <3> QED BY <1>1, <2>1, <3>1, StateBecomes
    <2>2. CASE ServiceState[r] = "serving"
      <3>1. place[r] = "active" /\ fut[r] = "pending"
        BY <2>2, WhereWaiting DEF LoopInv, RequestInv
      <3>2. a = "interrupted"
        BY <3>1, WhereWaiting DEF Active, In
      <3> QED BY <1>1, <2>2, <3>1, <3>2, StateBecomes
    <2>3. CASE ServiceState[r] \notin {"waiting", "serving"}
      <3>1. fut[r] # "pending" /\ place[r] # "active"
        BY <2>3, StateIs
      <3> QED BY <1>1, <2>3, <3>1, StateIs, StateBecomes
    <2> QED BY <2>1, <2>2, <2>3
  <1> QED BY <1>2, Closes

\* The events of N leave the loop, none of them in a turn: those that wait are
\* dropped with the answer a.
LEMMA LeaveDrops ==
  ASSUME LoopInv, NEW N, NEW a \in {"rejected", "interrupted", "byuser"}, UNCHANGED caller,
         \A r \in Requests : r \in N =>
           /\ place[r] # "active" /\ place'[r] = "out"
           /\ IF ServiceState[r] = "waiting" THEN fut'[r] = a
              ELSE fut'[r] # "pending" /\ (caller[r] = "idle" \/ fut'[r] = fut[r]),
         \A r \in Requests : r \notin N => place'[r] = place[r] /\ fut'[r] = fut[r],
         \A r, s \in Requests : r \notin N /\ s \notin N => (s \in ahead'[r] <=> s \in ahead[r])
  PROVE  Service!Next
  <1>1. PICK S : S = {r \in Requests : r \in N /\ ServiceState[r] = "waiting"}
    OBVIOUS
  <1>2. ASSUME NEW r \in S
        PROVE  ServiceState[r] = "waiting" /\ ServiceState'[r] = "answered" /\ fut'[r] = a
    <2>1. r \in Requests /\ r \in N /\ ServiceState[r] = "waiting"
      BY <1>1
    <2>2. caller'[r] = "waiting"
      BY <2>1, WhereWaiting DEF InLine
    <2> QED BY <2>1, <2>2, StateBecomes
  <1>3. ASSUME NEW r \in Requests, r \notin S
        PROVE  /\ ServiceState'[r] = ServiceState[r]
               /\ ServiceState[r] = "answered" => fut'[r] = fut[r]
    <2>1. CASE r \notin N
      BY <2>1, StateIs, StateBecomes
    <2>2. CASE r \in N
      <3>1. ServiceState[r] # "waiting"
        BY <1>1, <1>3, <2>2
      <3> QED BY <2>2, <3>1, StateIs, StateBecomes
    <2> QED BY <2>1, <2>2
  <1>4. ASSUME NEW r \in Requests, ServiceState'[r] = "waiting"
        PROVE  r \notin N
    <2> SUFFICES ASSUME r \in N PROVE FALSE
      OBVIOUS
    <2>1. place'[r] # "active" /\ fut'[r] = "pending"
      BY <1>4, StateBecomes
    <2> QED BY <2>1
  <1>5. S \in SUBSET Requests
    BY <1>1
  <1>6. \A r, s \in Requests : ServiceState'[r] = "waiting" /\ ServiceState'[s] = "waiting" =>
                                 (s \in ahead'[r] <=> s \in ahead[r])
    BY <1>4
  <1> QED BY <1>2, <1>3, <1>5, <1>6, Drops

\* The turn is over with the outcome a.
LEMMA TurnOver ==
  ASSUME LoopInv, NEW a \in {"ok", "failed", "interrupted", "byuser", "error"}, UNCHANGED caller,
         \A r \in Requests :
           IF place[r] = "active"
           THEN place'[r] = "out" /\ fut'[r] = IF caller[r] = "idle" THEN "none" ELSE a
           ELSE place'[r] = place[r] /\ fut'[r] = fut[r],
         \A r, s \in Requests : place[r] # "active" /\ place[s] # "active" =>
                                  (s \in ahead'[r] <=> s \in ahead[r])
  PROVE  Service!Next \/ UNCHANGED Service!vars
  <1>1. \A r \in Requests : place[r] # "active" => ServiceState'[r] = ServiceState[r]
    BY StateIs, StateBecomes
  <1>2. \A r \in Requests : ServiceState'[r] = "waiting" => place[r] # "active"
    BY StateBecomes
  <1>3. CASE \A r \in Requests : place[r] # "active"
    BY <1>1, <1>3, Stutters
  <1>4. ASSUME NEW r \in Requests, place[r] = "active"
        PROVE  Service!Next
    <2>1. \A s \in Requests : s # r => place[s] # "active"
      BY <1>4 DEF LoopInv, OneServed
    <2>2. ServiceState[r] = "serving"
      BY <1>4, StateIs
    <2>3. ServiceState'[r] = "idle" \/ (ServiceState'[r] = "answered" /\ fut'[r] = a)
      BY <1>4, StateBecomes
    <2>4. \A s \in Requests : s # r => /\ ServiceState'[s] = ServiceState[s]
                                       /\ ServiceState[s] = "answered" => fut'[s] = fut[s]
      BY <1>1, <2>1
    <2>5. \A s, u \in Requests : ServiceState'[s] = "waiting" /\ ServiceState'[u] = "waiting" =>
                                   (u \in ahead'[s] <=> u \in ahead[s])
      BY <1>2
    <2> QED BY <2>2, <2>3, <2>4, <2>5, Finishes
  <1> QED BY <1>3, <1>4

LEMMA ConsumerStep ==
  ASSUME LoopInv, Consumer \/ RoundFolds
  PROVE  Service!Next \/ UNCHANGED Service!vars
  <1>0. \A r \in Requests : r \in Event
    BY DEF Requests
  <1>1. CASE ConsumerExits("rejected") /\ UNCHANGED caller /\ ~Turning
    <2>1. Active = {}
      BY <1>1 DEF LoopInv, IInv, ActiveInv
    <2> QED BY <1>1, <2>1, ExitCloses
  <1>2. CASE UNCHANGED <<queueVars, caller>>
    BY <1>2, StutterIfSame DEF queueVars
  <1>3. CASE ConsumerTop \/ ConsumerWakes
    BY <1>1, <1>2, <1>3 DEF ConsumerTop, ConsumerWakes, Turning
  <1>4. CASE ConsumerClaims
    <2>1. CASE Move(Inbox, "batch") /\ UNCHANGED <<ahead, fut, flagVars>>
      <3>1. \A r \in Requests :
              /\ place'[r] = "active" <=> place[r] = "active"
              /\ fut'[r] = fut[r] /\ caller'[r] = caller[r]
        BY <1>0, <1>4, <2>1 DEF ConsumerClaims, Move, Inbox, In
      <3>2. \A r \in Requests : ServiceState'[r] = ServiceState[r]
        BY <3>1, StateIs, StateBecomes
      <3> QED BY <2>1, <3>1, <3>2, Stutters
    <2> QED BY <1>1, <1>2, <1>4, <2>1 DEF ConsumerClaims, Turning
  <1>5. CASE RunParks \/ BatchDone \/ CyclePrepared \/ ControllerStarts
    BY <1>2, <1>5 DEF RunParks, BatchDone, CyclePrepared, ControllerStarts
  <1>6. CASE RunRejected \/ RunWithdrawn
    <2>1. PICK a \in {"rejected", "interrupted"} :
            Leave(NextRun) /\ fut' = Resolved(NextRun, a) /\ UNCHANGED caller
      BY <1>6 DEF RunRejected, RunWithdrawn
    <2>2. PICK N : N = NextRun
      OBVIOUS
    <2>3. \A r \in Requests : r \in N => place[r] = "batch"
      BY <2>2, RequestRun DEF LoopInv, IInv
    <2>4. \A e \in Event : /\ place'[e] = IF e \in N THEN "out" ELSE place[e]
                           /\ ahead'[e] = IF e \in N THEN {} ELSE ahead[e] \ N
                           /\ fut'[e] = IF e \notin N THEN fut[e]
                                        ELSE IF caller[e] = "idle" THEN "none"
                                        ELSE IF fut[e] = "pending" THEN a ELSE fut[e]
      BY <2>1, <2>2 DEF Leave, Move, Resolved
    <2>5. ASSUME NEW r \in Requests, r \in N
          PROVE  /\ place[r] # "active" /\ place'[r] = "out"
                 /\ IF ServiceState[r] = "waiting" THEN fut'[r] = a
                    ELSE fut'[r] # "pending" /\ (caller[r] = "idle" \/ fut'[r] = fut[r])
      <3>1. CASE ServiceState[r] = "waiting"
        <4>1. fut[r] = "pending" /\ caller[r] = "waiting"
          BY <3>1, WhereWaiting DEF InLine
        <4> QED BY <1>0, <2>3, <2>4, <2>5, <3>1, <4>1
      <3>2. CASE ServiceState[r] # "waiting"
        <4>1. fut[r] # "pending"
          BY <2>3, <2>5, <3>2, StateIs
        <4> QED BY <1>0, <2>3, <2>4, <2>5, <3>2, <4>1
      <3> QED BY <3>1, <3>2
    <2>6. \A r \in Requests : r \notin N => place'[r] = place[r] /\ fut'[r] = fut[r]
      BY <1>0, <2>4
    <2>7. \A r, s \in Requests : r \notin N /\ s \notin N => (s \in ahead'[r] <=> s \in ahead[r])
      BY <1>0, <2>4
    <2> QED BY <2>1, <2>5, <2>6, <2>7, LeaveDrops
  <1>7. CASE TurnBegins
    <2>1. \A e \in Event : place'[e] = IF e \in NextRun THEN "active" ELSE place[e]
      BY <1>7 DEF TurnBegins, Move
    <2>2. UNCHANGED <<ahead, fut, caller>>
      BY <1>7 DEF TurnBegins
    <2>3. CASE \A r \in Requests : r \notin NextRun
      BY <1>0, <2>1, <2>2, <2>3, StutterIfSame
    <2>4. ASSUME NEW r \in Requests, r \in NextRun
          PROVE  Service!Next
      <3>1. /\ NextRun = {r} /\ place[r] = "batch"
            /\ \A f \in Event : place[f] = "batch" => f \notin ahead[r]
        BY <2>4, RequestRun DEF LoopInv, IInv
      <3>2. r \notin withdrawn
        BY <1>7, <3>1 DEF TurnBegins
      <3>3. ServiceState[r] = "waiting"
        BY <3>1, <3>2, StateIs DEF LoopInv, RequestInv, InLine
      <3>4. ServiceState'[r] = "serving"
        BY <1>0, <2>1, <2>4, StateBecomes
      <3>5. \A s \in Requests : s \in ahead[r] => ServiceState[s] # "waiting"
        BY <1>0, <3>1, WhereWaiting DEF LoopInv, OrderInv
      <3>6. \A s \in Requests : ServiceState[s] # "serving"
        <4>1. ~Turning
          BY <1>7 DEF TurnBegins, PassesRunGate, Turning
        <4> QED BY <1>0, <4>1, WhereWaiting DEF LoopInv, IInv, ActiveInv, Active, In
      <3>7. \A s \in Requests : s # r => ServiceState'[s] = ServiceState[s]
        BY <1>0, <2>1, <2>2, <3>1, StateIs, StateBecomes
      <3> QED BY <2>2, <3>3, <3>4, <3>5, <3>6, <3>7, Serves
    <2> QED BY <2>3, <2>4
  <1>8. CASE LastRound \/ Terminates \/ LoopInterrupted
    BY <1>2, <1>8 DEF LastRound, Terminates, LoopInterrupted, LeaveLoop
  <1>9. CASE TurnFinishes \/ TurnCrashes
    <2>1. PICK a \in {"ok", "failed", "interrupted", "byuser", "error"} :
            fut' = Resolved(Active, a) /\ UNCHANGED caller
      BY <1>9 DEF TurnFinishes, TurnCrashes, Outcome
    <2>2. \A r \in Requests : r \in Active <=> place[r] = "active"
      BY <1>0 DEF Active, In
    <2>3. \A r \in Requests : r \notin In("stash")
      BY DEF LoopInv, OrderInv, Requests, Awaited, In
    <2>4. \A r \in Requests : /\ place'[r] = IF r \in Active THEN "out" ELSE place[r]
                              /\ r \notin Active => ahead'[r] = ahead[r] \ Active
      <3>1. CASE TurnFinishes
        BY <1>0, <2>3, <3>1 DEF TurnFinishes
      <3>2. CASE TurnCrashes
        BY <1>0, <3>2 DEF TurnCrashes, Leave, Move
      <3> QED BY <1>9, <3>1, <3>2
    <2>5. \A r \in Requests : place[r] = "active" => fut[r] = "pending"
      BY DEF LoopInv, RequestInv
    <2>6. \A r \in Requests :
            IF place[r] = "active"
            THEN place'[r] = "out" /\ fut'[r] = IF caller[r] = "idle" THEN "none" ELSE a
            ELSE place'[r] = place[r] /\ fut'[r] = fut[r]
      BY <1>0, <2>1, <2>2, <2>4, <2>5 DEF Resolved
    <2>7. \A r, s \in Requests : place[r] # "active" /\ place[s] # "active" =>
                                   (s \in ahead'[r] <=> s \in ahead[r])
      BY <2>2, <2>4
    <2> QED BY <2>1, <2>6, <2>7, TurnOver
  <1>10. CASE RoundFolds
    <2>1. \A r \in Requests : place'[r] = place[r]
      BY <1>0, <1>10, NoneFolded DEF RoundFolds, Move, LoopInv, IInv
    <2> QED BY <1>10, <2>1, StutterIfSame DEF RoundFolds
  <1> QED BY <1>3, <1>4, <1>5, <1>6, <1>7, <1>8, <1>9, <1>10 DEF Consumer

\* An event that is no request is put in the inbox behind the requests.
LEMMA PutUnseen ==
  ASSUME LoopInv, NEW e \in Event, ~Awaited(e), NEW X, NEW f, X \subseteq Extras, Put(e, f, X),
         \A r \in Requests : caller'[r] = caller[r]
  PROVE  UNCHANGED Service!vars
  <1>0. \A r \in Requests : r \in Event /\ r # e /\ r \notin X /\ r \notin In("stash")
    BY DEF Requests, Awaited, Extras, LoopInv, OrderInv, In
  <1>1. \A r \in Requests : place'[r] = place[r] /\ fut'[r] = fut[r] /\ ahead'[r] = ahead[r]
    BY <1>0 DEF Put, Enqueue, Move, LoopInv, IInv, TypeOK
  <1>2. \A r \in Requests : ServiceState'[r] = ServiceState[r]
    BY <1>1, StateIs, StateBecomes
  <1> QED BY <1>1, <1>2, Stutters

LEMMA SubmitStep ==
  ASSUME LoopInv, NEW e \in Event, Submit(e)
  PROVE  Service!Next
  <1>0. e \in Requests /\ \A r \in Requests : r \in Event
    BY DEF Submit, Requests
  <1>1. place[e] = "out" /\ caller[e] = "idle" /\ fut[e] # "pending"
    BY <1>0, WhereWaiting DEF Submit, Fresh
  <1>2. ServiceState[e] = "idle"
    BY <1>0, <1>1, StateIs
  <1>3. \A r \in Requests : caller'[r] = IF r = e THEN "waiting" ELSE caller[r]
    BY <1>0 DEF Submit, LoopInv, IInv, TypeOK
  <1>4. CASE Put(e, "pending", {})
    <2>0. \A r \in Requests : r \notin In("stash")
      BY DEF Requests, Awaited, LoopInv, OrderInv, In
    <2>1. \A r \in Requests : /\ place'[r] = IF r = e THEN "inbox" ELSE place[r]
                              /\ fut'[r] = IF r = e THEN "pending" ELSE fut[r]
                              /\ ahead'[r] = IF r = e THEN Inbox \cup Batch \cup Active ELSE ahead[r]
      BY <1>0, <1>4, <2>0 DEF Put, Enqueue, Move, LoopInv, IInv, TypeOK
    <2>2. ServiceState'[e] = "waiting"
      BY <1>0, <2>1, StateBecomes
    <2>3. \A r \in Requests : r # e => /\ ServiceState'[r] = ServiceState[r]
                                       /\ fut'[r] = fut[r]
      BY <1>3, <2>1, StateIs, StateBecomes
    <2>4. ASSUME NEW r \in Requests, r # e, ServiceState[r] = "waiting"
          PROVE  r \in ahead'[e] /\ e \notin ahead'[r]
      <3>1. r \in Inbox \cup Batch
        BY <1>0, <2>4, WhereWaiting DEF Inbox, Batch, In
      <3>2. e \notin ahead[r]
        BY <1>0, <1>1 DEF LoopInv, OrderInv, Loop
      <3> QED BY <1>0, <2>1, <2>4, <3>1, <3>2
    <2>5. e \notin ahead'[e]
      BY <1>0, <1>1, <2>1 DEF Inbox, Batch, Active, In
    <2>6. \A r, s \in Requests : r # e /\ s # e => (s \in ahead'[r] <=> s \in ahead[r])
      BY <2>1
    <2> QED BY <1>0, <1>2, <2>2, <2>3, <2>4, <2>5, <2>6, Accepts
  <1>5. CASE fut' = [fut EXCEPT ![e] = "rejected"] /\ UNCHANGED <<woken, place, ahead>>
    <2>1. \A r \in Requests : fut'[r] = IF r = e THEN "rejected" ELSE fut[r]
      BY <1>0, <1>5 DEF LoopInv, IInv, TypeOK
    <2>2. ServiceState'[e] = "answered" /\ fut'[e] = "rejected"
      BY <1>0, <1>1, <1>3, <1>5, <2>1, StateBecomes
    <2>3. \A r \in Requests : r # e => /\ ServiceState'[r] = ServiceState[r]
                                       /\ ServiceState[r] = "answered" => fut'[r] = fut[r]
      BY <1>3, <1>5, <2>1, StateIs, StateBecomes
    <2> QED BY <1>0, <1>2, <1>5, <2>2, <2>3, TurnsAway
  <1> QED BY <1>4, <1>5 DEF Submit

LEMMA IngressStep ==
  ASSUME LoopInv, Ingress
  PROVE  Service!Next \/ UNCHANGED Service!vars
  <1>0. \A r \in Requests : r \in Event /\ Awaited(r)
    BY DEF Requests
  <1>1. PICK e \in Event :
          \/ \E X \in Backlog(e) : ProcessEvent(e, X) \/ ProcessEventDropped(e, X)
          \/ BackgroundComplete(e) \/ Submit(e) \/ CancelPending(e)
    BY DEF Ingress, ProcessEvent, ProcessEventDropped
  <1>2. \A X \in Backlog(e) : X \subseteq Extras
    BY DEF Backlog
  <1>3. ASSUME NEW X \in Backlog(e), ProcessEvent(e, X)
        PROVE  UNCHANGED Service!vars
    <2>1. ~Awaited(e)
      BY <1>3 DEF ProcessEvent, Awaited
    <2>2. \A r \in Requests : caller'[r] = caller[r]
      BY <1>0, <1>3, <2>1 DEF ProcessEvent, LoopInv, IInv, TypeOK
    <2>3. PICK f : Put(e, f, X)
      BY <1>3 DEF ProcessEvent
    <2> QED BY <1>2, <2>1, <2>2, <2>3, PutUnseen
  <1>4. ASSUME NEW X \in Backlog(e), ProcessEventDropped(e, X)
        PROVE  UNCHANGED Service!vars
    <2>1. \A r \in Requests : r \notin X
      BY <1>0, <1>2 DEF Extras, Awaited
    <2>2. \A r \in Requests : place'[r] = place[r]
      BY <1>0, <1>4, <2>1 DEF ProcessEventDropped, Move
    <2> QED BY <1>4, <2>2, StutterIfSame DEF ProcessEventDropped
  <1>5. CASE BackgroundComplete(e)
    <2>1. PICK X \in SUBSET Extras : X = {}
      OBVIOUS
    <2>2. ~Awaited(e) /\ Put(e, "none", X) /\ UNCHANGED caller
      BY <1>5, <2>1 DEF BackgroundComplete, Awaited
    <2> QED BY <2>1, <2>2, PutUnseen
  <1>6. CASE Submit(e)
    BY <1>6, SubmitStep
  <1>7. CASE CancelPending(e)
    <2>1. ~Awaited(e)
      BY <1>7 DEF CancelPending, Awaited
    <2>2. \A r \in Requests : /\ place'[r] = place[r] /\ fut'[r] = fut[r] /\ caller'[r] = caller[r]
                              /\ ahead'[r] = ahead[r] \ {e}
      BY <1>0, <1>7, <2>1 DEF CancelPending, Leave, Move, Resolved
    <2>3. \A r \in Requests : ServiceState'[r] = ServiceState[r]
      BY <2>2, StateIs, StateBecomes
    <2>4. \A r, s \in Requests : s \in ahead'[r] <=> s \in ahead[r]
      BY <1>0, <2>1, <2>2
    <2> QED BY <2>2, <2>3, <2>4, Stutters
  <1> QED BY <1>1, <1>3, <1>4, <1>5, <1>6, <1>7

LEMMA WithdrawStep ==
  ASSUME LoopInv, NEW e \in Event, Withdraw(e)
  PROVE  Service!Next \/ UNCHANGED Service!vars
  <1>0. e \in Requests /\ \A r \in Requests : r \in Event
    BY DEF Withdraw, Requests
  <1>1. fut[e] = "pending" /\ caller[e] = "waiting"
    BY DEF Withdraw
  <1>2. CASE place[e] = "inbox"
    <2>1. PICK N : N = {e}
      OBVIOUS
    <2>2. UNCHANGED caller /\ Leave(N) /\ Settle(N, "interrupted")
      BY <1>2, <2>1 DEF Withdraw
    <2>3. \A r \in Requests : /\ place'[r] = IF r \in N THEN "out" ELSE place[r]
                              /\ ahead'[r] = IF r \in N THEN {} ELSE ahead[r] \ N
                              /\ fut'[r] = IF r \in N THEN "interrupted" ELSE fut[r]
      BY <1>0, <1>1, <2>1, <2>2 DEF Leave, Move, Settle
    <2>4. ServiceState[e] = "waiting"
      BY <1>0, <1>2, WhereWaiting
    <2>5. \A r \in Requests : r \in N =>
            /\ place[r] # "active" /\ place'[r] = "out"
            /\ ServiceState[r] = "waiting" /\ fut'[r] = "interrupted"
      BY <1>2, <2>1, <2>3, <2>4
    <2>6. \A r \in Requests : r \notin N => place'[r] = place[r] /\ fut'[r] = fut[r]
      BY <2>3
    <2>7. \A r, s \in Requests : r \notin N /\ s \notin N => (s \in ahead'[r] <=> s \in ahead[r])
      BY <2>3
    <2> QED BY <2>2, <2>5, <2>6, <2>7, LeaveDrops
  <1>3. CASE place[e] = "batch"
    <2>1. UNCHANGED <<caller, place, ahead>> /\ Settle({e}, "interrupted")
      BY <1>3 DEF Withdraw
    <2>2. \A r \in Requests : fut'[r] = IF r = e THEN "interrupted" ELSE fut[r]
      BY <1>0, <1>1, <2>1 DEF Settle
    <2>3. PICK S : S = {e}
      OBVIOUS
    <2>4. \A r \in S : ServiceState[r] = "waiting" /\ ServiceState'[r] = "answered" /\ fut'[r] = "interrupted"
      BY <1>0, <1>1, <1>3, <2>1, <2>2, <2>3, StateIs, StateBecomes
    <2>5. \A r \in Requests : r \notin S => /\ ServiceState'[r] = ServiceState[r]
                                            /\ ServiceState[r] = "answered" => fut'[r] = fut[r]
      BY <2>1, <2>2, <2>3, StateIs, StateBecomes
    <2>6. S \in SUBSET Requests
      BY <1>0, <2>3
    <2>7. \A r, s \in Requests : ServiceState'[r] = "waiting" /\ ServiceState'[s] = "waiting" =>
                                   (s \in ahead'[r] <=> s \in ahead[r])
      BY <2>1
    <2> QED BY <2>4, <2>5, <2>6, <2>7, Drops
  <1>4. CASE place[e] = "active"
    <2>1. UNCHANGED queueVars /\ \A r \in Requests : r # e => caller'[r] = caller[r]
      BY <1>0, <1>4 DEF Withdraw, LoopInv, IInv, TypeOK
    <2>2. \A r \in Requests : ServiceState'[r] = ServiceState[r]
      BY <1>4, <2>1, StateIs, StateBecomes DEF queueVars
    <2> QED BY <2>1, <2>2, Stutters DEF queueVars
  <1> QED BY <1>2, <1>3, <1>4 DEF Withdraw

LEMMA CallersStep ==
  ASSUME LoopInv, Callers
  PROVE  Service!Next \/ UNCHANGED Service!vars
  <1>0. \A r \in Requests : r \in Event /\ Awaited(r)
    BY DEF Requests
  <1>1. PICK e \in Event : CallReturns(e) \/ CallAbandoned(e) \/ Withdraw(e) \/ WithdrawEnds(e)
    BY DEF Callers
  <1>2. CASE CallReturns(e) \/ WithdrawEnds(e)
    <2>1. UNCHANGED <<place, ahead>>
      BY <1>2 DEF CallReturns, WithdrawEnds
    <2>2. \A r \in Requests : /\ caller'[r] = IF r = e THEN "idle" ELSE caller[r]
                              /\ fut'[r] = IF r = e /\ place[r] = "out" THEN "none" ELSE fut[r]
      BY <1>0, <1>2 DEF CallReturns, WithdrawEnds, Return, LoopInv, IInv, TypeOK
    <2>3. CASE e \notin Requests
      BY <2>1, <2>2, <2>3, StutterIfSame
    <2>4. CASE e \in Requests /\ place[e] = "active"
      <3>1. \A r \in Requests : ServiceState'[r] = ServiceState[r] /\ fut'[r] = fut[r]
        BY <2>1, <2>2, <2>4, StateIs, StateBecomes
      <3> QED BY <2>1, <3>1, Stutters
    <2>5. CASE e \in Requests /\ place[e] # "active"
      <3>1. fut[e] # "pending" /\ caller[e] # "idle"
        BY <1>2, <2>5, WhereWaiting DEF CallReturns, WithdrawEnds, LoopInv, RequestInv, InLine
      <3>2. ServiceState[e] = "answered" /\ ServiceState'[e] = "idle"
        BY <2>1, <2>2, <2>5, <3>1, StateIs, StateBecomes
      <3>3. \A r \in Requests : r # e => ServiceState'[r] = ServiceState[r] /\ fut'[r] = fut[r]
        BY <2>1, <2>2, StateIs, StateBecomes
      <3> QED BY <2>1, <2>5, <3>2, <3>3, TurnsAway
    <2> QED BY <2>3, <2>4, <2>5
  <1>3. CASE CallAbandoned(e)
    <2>1. \A r \in Requests : fut'[r] = fut[r] /\ caller'[r] = caller[r]
      BY <1>0, <1>3 DEF CallAbandoned, LoopInv, IInv, TypeOK
    <2> QED BY <1>3, <2>1, StutterIfSame DEF CallAbandoned
  <1>4. CASE Withdraw(e)
    BY <1>4, WithdrawStep
  <1> QED BY <1>1, <1>2, <1>3, <1>4

LEMMA ControlStep ==
  ASSUME LoopInv, Control
  PROVE  Service!Next \/ UNCHANGED Service!vars
  <1>1. CASE Interrupt
    <2>1. PICK N : N = {e \in Inbox : Kind[e] = "drive"}
      OBVIOUS
    <2>2. \A r \in Requests : /\ place'[r] = IF r \in N THEN "out" ELSE place[r]
                              /\ ahead'[r] = IF r \in N THEN {} ELSE ahead[r] \ N
                              /\ fut'[r] = IF r \in N /\ fut[r] = "pending" THEN "byuser" ELSE fut[r]
      BY <1>1, <2>1 DEF Interrupt, Move, Settle, Requests
    <2>3. \A r \in Requests : r \in N =>
            place[r] # "active" /\ ServiceState[r] = "waiting" /\ fut[r] = "pending"
      BY <2>1, WhereWaiting DEF Inbox, In, InLine
    <2>4. \A r \in Requests : r \in N =>
            /\ place[r] # "active" /\ place'[r] = "out"
            /\ ServiceState[r] = "waiting" /\ fut'[r] = "byuser"
      BY <2>2, <2>3
    <2>5. \A r \in Requests : r \notin N => place'[r] = place[r] /\ fut'[r] = fut[r]
      BY <2>2
    <2>6. \A r, s \in Requests : r \notin N /\ s \notin N => (s \in ahead'[r] <=> s \in ahead[r])
      BY <2>2
    <2>7. UNCHANGED caller
      BY <1>1 DEF Interrupt
    <2> QED BY <2>4, <2>5, <2>6, <2>7, LeaveDrops
  <1>2. CASE UNCHANGED <<queueVars, caller>>
    BY <1>2, StutterIfSame DEF queueVars
  <1>3. CASE StopReaps
    BY <1>2, <1>3, ExitCloses DEF StopReaps
  <1>4. CASE Pause \/ Resume \/ StartRuns \/ StartConsumer \/ StopBegins \/ StopGathered \/ StopEnds
    BY <1>2, <1>4 DEF Pause, Resume, StartRuns, StartConsumer, StopBegins, StopGathered, StopEnds
  <1> QED BY <1>1, <1>3, <1>4 DEF Control

\* For any producers, what the loop does to its requests is what a server that
\* takes them in the order of their acceptance, one at a time, does: whatever
\* pause, interrupt, withdrawal, stop and restart do in between.
THEOREM ImplementsService == Spec => ServesRequests
  <1>1. Init => Service!Init
    <2> SUFFICES ASSUME Init PROVE Service!Init
      OBVIOUS
    <2>1. \A r \in Requests : ServiceState[r] = "idle"
      BY StateIs DEF Init, Requests
    <2>2. \A r \in Requests : ServiceAnswer[r] = "none" /\ ServiceBefore[r] = {}
      <3>1. \A r \in Requests : ServiceAnswer[r] = IF ServiceState[r] = "answered" THEN fut[r] ELSE "none"
        BY DEF ServiceAnswer
      <3>2. \A r \in Requests : ServiceState[r] # "waiting" => ServiceBefore[r] = {}
        BY DEF ServiceBefore
      <3> QED BY <2>1, <3>1, <3>2
    <2> QED BY <2>1, <2>2 DEF Service!Init, ServiceState, ServiceAnswer, ServiceBefore
  <1>2. LoopInv /\ [Next]_vars => [Service!Next]_(Service!vars)
    <2> SUFFICES ASSUME LoopInv, [Next]_vars PROVE Service!Next \/ UNCHANGED Service!vars
      OBVIOUS
    <2>1. CASE UNCHANGED vars
      BY <2>1, StutterIfSame DEF vars, queueVars
    <2> QED BY <2>1, ConsumerStep, IngressStep, CallersStep, ControlStep DEF Next
  <1> QED BY <1>1, <1>2, LoopInductive, PTL DEF Spec, ServesRequests, Service!Spec

=============================================================================
