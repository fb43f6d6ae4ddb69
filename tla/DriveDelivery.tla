--------------------------- MODULE DriveDelivery ---------------------------
(***************************************************************************)
(* Durable delivery of one Drive (terrarium/drive): the repository rows,   *)
(* the dispatcher that claims them and hands them to creatures, the        *)
(* settlement of the turns they start, the readiness scan that creates     *)
(* new ones, the operator's control calls, and what a stop, a start and a  *)
(* crash of the process do to all of it.                                   *)
(*                                                                         *)
(* Every repository call is one transaction and an await point, so a       *)
(* procedure is a sequence of steps and the steps of different tasks       *)
(* interleave.  What a task has read stays in its own record, th[p], and   *)
(* is used later however the repository has changed since.                 *)
(***************************************************************************)
EXTENDS Naturals, Sequences, FiniteSets

CONSTANTS
    Creature,        \* the creatures of the graph
    None,            \* no assignee
    Autonomy,        \* how the Drive's registration answers readiness
    Budget,          \* the turns an "auto" registration grants
    Conditional,     \* the Drive has a not_before or dependency condition
    MaxAttempts,     \* config.retry.max_attempts
    MaxConsecutive,  \* config.max_consecutive_drive_turns
    Ops,             \* the environment's operations in this instance
    MaxOps           \* bound: how many of them one behaviour performs

ASSUME CreatureAssumption == None \notin Creature /\ Creature # {}
ASSUME PolicyAssumption ==
    /\ Autonomy \in {"generic", "manual", "auto"}
    /\ Conditional \in BOOLEAN
    /\ Budget \in Nat /\ MaxOps \in Nat
    /\ MaxAttempts \in Nat \ {0} /\ MaxConsecutive \in Nat \ {0}

VARIABLES
    drive,        \* the record and its assignment: status, revision, epoch, assignee
    rows,         \* the deliveries, in order of creation
    due,          \* the Drive's own wake conditions are met
    gen,          \* the manager's readiness generation (in memory)
    th,           \* what each task is doing and what it has read
    batch,        \* the dispatcher's round: claimed rows, the view read, assignees tried
    inflight,     \* the row each creature is being given, or 0
    consecutive,  \* Drive turns in a row, per creature
    up,           \* the creature runs and is past its restoration barrier
    ops           \* environment operations so far

vars == <<drive, rows, due, gen, th, batch, inflight, consecutive, up, ops>>
store == <<drive, rows>>
dispatcher == <<batch, inflight, consecutive>>
outside == <<due, up, ops>>

Status == {"active", "waiting", "blocked", "paused",
           "completed", "failed", "cancelled", "retired"}
Terminal == {"completed", "failed", "cancelled", "retired"}
RowState == {"pending", "claimed", "admitted", "acknowledged",
             "retry_wait", "dead_letter", "superseded"}

(* policy.py's GENERIC_TRANSITIONS (draft records are created elsewhere). *)
GenericTransitions ==
    ({"active"} \X {"waiting", "blocked", "paused", "completed", "failed", "cancelled"})
    \cup ({"waiting"} \X {"active", "blocked", "paused", "cancelled"})
    \cup ({"paused"} \X {"active", "blocked", "cancelled"})
    \cup ({"blocked"} \X {"active", "paused", "cancelled"})
    \cup ({"completed", "failed", "cancelled"} \X {"retired"})

Disp == <<"disp", None>>
Ctl == <<"ctl", None>>
Settle(c) == <<"settle", c>>
Rec(c) == <<"rec", c>>
StopOf(c) == <<"stop", c>>
Proc == {Disp, Ctl} \cup ({"settle", "rec", "stop"} \X Creature)

-----------------------------------------------------------------------------
(* Questions the manager asks of the delivery rows.                        *)

Row(i) == rows[i]
RowIds == DOMAIN rows

Pending(r) == r.st \in {"pending", "claimed", "retry_wait"}
Live(r) == Pending(r) \/ r.st = "admitted"
HasLive(S) == \E i \in RowIds \ S : Live(Row(i))

Key(r) == <<r.epoch, r.rev, r.gen>>

ClassifyUncertain(r) == r.st = "admitted" /\ ~r.acked

\* An acknowledgement that only records the user's interrupt settles nothing.
SettledByAnyAck(r) == r.st = "acknowledged"
SettledByTurn(r) == r.st = "acknowledged" /\ ~r.byUser

Settled(g, e) == {i \in RowIds : Row(i).gen = g /\ Row(i).epoch = e /\ SettledByTurn(Row(i))}

TurnsUsed(S) == Cardinality({i \in RowIds \ S : Row(i).st = "acknowledged"})
OneTurnTooMany(S) == TurnsUsed(S) <= Budget
WithinBudget(S) == TurnsUsed(S) < Budget

(* What the registration answers when asked to admit work, the rows in S   *)
(* being about to be superseded.                                           *)
ReadinessAdmits(seen, S) ==
    \/ Autonomy = "generic"
    \/ /\ Autonomy = "manual"
       /\ \A i \in RowIds \ S : Row(i).epoch = seen.epoch => Row(i).st = "superseded"
    \/ Autonomy = "auto" /\ WithinBudget(S)

HighestGeneration ==
    IF RowIds = {} THEN 0
    ELSE CHOOSE g \in {Row(i).gen : i \in RowIds} : \A i \in RowIds : Row(i).gen <= g

-----------------------------------------------------------------------------
(* Repository writes.                                                      *)

MarkRow(i, st) == rows' = [rows EXCEPT ![i].st = st]

Superseding(rs, S) ==
    [i \in DOMAIN rs |-> IF i \in S THEN [rs[i] EXCEPT !.st = "superseded"] ELSE rs[i]]

NewRow(g, reason) ==
    [st |-> "pending", rev |-> drive.rev, epoch |-> drive.epoch, who |-> drive.who,
     gen |-> g, reason |-> reason, attempt |-> 0, acked |-> FALSE, byUser |-> FALSE]

\* A status change holds only at the revision the caller has read.
BlindlyCurrent(seen) == TRUE
Current(seen) == drive.rev = seen.rev

TransitionTo(st) == drive' = [drive EXCEPT !.st = st, !.rev = @ + 1]

-----------------------------------------------------------------------------
(* A task's record: the step it is at, the step it returns to, and what it *)
(* carries: the record it read, a row, sets of rows, a number, a verdict.  *)

Blank == [st |-> "retired", rev |-> 0, epoch |-> 0, who |-> None]
Idle == [at |-> "idle", ret |-> "idle", seen |-> Blank, row |-> 0,
         ids |-> {}, claims |-> {}, n |-> 0, ok |-> FALSE]

At(p, step) == th[p].at = step
Goto(p, step) == th' = [th EXCEPT ![p].at = step]
ReadAndGoto(p, step) == th' = [th EXCEPT ![p].at = step, ![p].seen = drive]

\* A settlement releases its creature however it ends.
EndingAt(p, step) ==
    /\ th' = [th EXCEPT ![p] = [Idle EXCEPT !.at = step]]
    /\ inflight' = IF p[1] = "settle" THEN [inflight EXCEPT ![p[2]] = 0] ELSE inflight
Finish(p) == EndingAt(p, th[p].ret)

-----------------------------------------------------------------------------
(* Procedures that several tasks run.                                      *)

(* _ensure_wake_generation: a wake or a resume after acknowledged work     *)
(* takes a fresh generation.                                               *)
EnsureWakeGeneration(p) ==
    /\ th[p].at \in {"wakegen", "wakegenManual"}
    /\ gen' = IF \E i \in RowIds : /\ Row(i).gen = gen
                                   /\ Row(i).epoch = th[p].seen.epoch
                                   /\ Row(i).st = "acknowledged"
              THEN gen + 1 ELSE gen
    /\ Goto(p, IF At(p, "wakegen") THEN "maybe" ELSE "maybeManual")
    /\ UNCHANGED <<store, dispatcher, outside>>

(* _maybe_enqueue up to the decision; _reconcile_drive tries a re-arm when *)
(* it declines.                                                            *)
MaybeEnqueue(p) ==
    /\ th[p].at \in {"maybe", "maybeManual", "maybeElseRearm"}
    /\ LET admits == /\ th[p].seen.st = "active"
                     /\ drive.who # None
                     /\ due
                     /\ ~HasLive({})
                     /\ At(p, "maybeManual") \/ ReadinessAdmits(th[p].seen, {})
       IN  \/ admits /\ Goto(p, "enqueue") /\ UNCHANGED inflight
           \/ ~admits /\ At(p, "maybeElseRearm") /\ Goto(p, "rearm") /\ UNCHANGED inflight
           \/ ~admits /\ ~At(p, "maybeElseRearm") /\ Finish(p)
    /\ UNCHANGED <<store, gen, batch, consecutive, outside>>

(* enqueue_delivery: the row carries the revision, epoch and assignee of   *)
(* the moment it is written; an unassigned Drive raises, which ends the    *)
(* dispatcher's round.                                                     *)
WritesUnassigned(p, g) ==
    rows' = Append(rows, NewRow(g, "ready")) /\ Finish(p)
WriteRow(p, g) ==
    IF drive.who # None
    THEN rows' = Append(rows, NewRow(g, "ready")) /\ Finish(p)
    ELSE UNCHANGED rows /\ EndingAt(p, "idle")

Enqueue(p) ==
    /\ At(p, "enqueue")
    /\ WriteRow(p, gen)
    /\ UNCHANGED <<drive, gen, batch, consecutive, outside>>

(* _reevaluate_readiness up to the decision: continue the generation that  *)
(* a turn has settled.  Only an "auto" registration re-arms, within its    *)
(* budget, and the cooldown may defer it.                                  *)
ReevaluateReadiness(p) ==
    /\ th[p].at \in {"rearm", "rearmElseMaybe"}
    /\ LET applies == /\ th[p].seen.st = "active"
                      /\ Autonomy # "generic"
                      /\ drive.who # None
           rearms == /\ Settled(gen, th[p].seen.epoch) # {}
                     /\ Autonomy = "auto" /\ WithinBudget({})
           deferred == applies /\ HasLive({})
       IN  \/ deferred /\ Finish(p)
           \/ applies /\ ~deferred /\ rearms /\ Finish(p)          \* cooldown
           \/ /\ applies /\ ~deferred /\ rearms /\ due
              /\ th' = [th EXCEPT ![p].at = "advance", ![p].n = gen]
              /\ UNCHANGED inflight
           \/ /\ ~applies \/ (~deferred /\ ~rearms)
              /\ IF At(p, "rearmElseMaybe")
                 THEN Goto(p, "maybe") /\ UNCHANGED inflight
                 ELSE Finish(p)
    /\ UNCHANGED <<store, gen, batch, consecutive, outside>>

(* The rest of it: the generation after the one that was read, and its row. *)
Advance(p) ==
    /\ At(p, "advance")
    /\ gen' = th[p].n + 1
    /\ WriteRow(p, th[p].n + 1)
    /\ UNCHANGED <<drive, batch, consecutive, outside>>

(* _on_failure: another attempt after a backoff, or the dead-letter box; a *)
(* failed turn and an interrupted one are classified alike.                *)
OnFailure(p) ==
    /\ th[p].at \in {"fail", "interrupted"}
    /\ LET attempt == th[p].n + 1
       IN  IF attempt < MaxAttempts
           THEN /\ rows' = [rows EXCEPT ![th[p].row].st = "retry_wait",
                                        ![th[p].row].attempt = attempt]
                /\ Finish(p)
           ELSE /\ MarkRow(th[p].row, "dead_letter")
                /\ Goto(p, "deadread") /\ UNCHANGED inflight
    /\ UNCHANGED <<drive, gen, batch, consecutive, outside>>

(* _block_on_dead_letter and _on_delivery_user_interrupted: read the       *)
(* record, then change its status if it is still at that revision.         *)
ReadToSuspend(p) ==
    /\ \/ /\ At(p, "deadread")
          /\ IF drive.st \in {"active", "waiting", "paused"}
             THEN ReadAndGoto(p, "block") /\ UNCHANGED inflight
             ELSE Finish(p)
       \/ /\ At(p, "userread")
          /\ IF drive.st \in {"active", "waiting"}
             THEN ReadAndGoto(p, "pause") /\ UNCHANGED inflight
             ELSE Finish(p)
    /\ UNCHANGED <<store, gen, batch, consecutive, outside>>

Suspend(p) ==
    /\ th[p].at \in {"block", "pause"}
    /\ IF Current(th[p].seen)
       THEN TransitionTo(IF At(p, "block") THEN "blocked" ELSE "paused")
       ELSE UNCHANGED drive
    /\ Finish(p)
    /\ UNCHANGED <<rows, gen, batch, consecutive, outside>>

-----------------------------------------------------------------------------
(* The dispatcher's round: scan, claim, consider each row, deliver.        *)

(* _scan_ready, first pass: wake a WAITING Drive whose explicit condition  *)
(* is met.                                                                 *)
ScanWaiting ==
    /\ At(Disp, "idle")
    /\ IF drive.st = "waiting" /\ drive.who # None /\ Conditional /\ due
       THEN th' = [th EXCEPT ![Disp].at = "wakeCas", ![Disp].ret = "scanActive",
                             ![Disp].seen = drive]
       ELSE Goto(Disp, "scanActive")
    /\ UNCHANGED <<store, gen, dispatcher, outside>>

(* The waking transition, of the scan or of wake_drive, at the revision    *)
(* read; a conflict skips the Drive or fails the call.                     *)
WakeCas(p) ==
    /\ At(p, "wakeCas")
    /\ IF Current(th[p].seen)
       THEN /\ TransitionTo("active")
            /\ th' = [th EXCEPT ![p].at = IF p = Disp THEN "maybe" ELSE "wakegenManual",
                                ![p].seen = drive']
            /\ UNCHANGED inflight
       ELSE UNCHANGED drive /\ Finish(p)
    /\ UNCHANGED <<rows, gen, batch, consecutive, outside>>

(* Second pass: an ACTIVE Drive that had a delivery in this epoch may only *)
(* continue it; one that had none is admitted.                             *)
ScanActive ==
    /\ At(Disp, "scanActive")
    /\ IF drive.st = "active" /\ drive.who # None
       THEN th' = [th EXCEPT ![Disp].seen = drive, ![Disp].ret = "claim",
                ![Disp].at = IF \E i \in RowIds : Row(i).epoch = drive.epoch
                             THEN "rearm" ELSE "maybe"]
       ELSE Goto(Disp, "claim")
    /\ UNCHANGED <<store, gen, dispatcher, outside>>

(* claim_deliveries: what is pending or already claimed, and the retries   *)
(* whose backoff has passed (the set late).                                *)
ClaimableOnce(r) == r.st \in {"pending", "retry_wait"}
Claimable(r) == r.st \in {"pending", "retry_wait", "claimed"}

Claim(late) ==
    /\ At(Disp, "claim")
    /\ LET S == {i \in RowIds : Claimable(Row(i)) /\ (Row(i).st = "retry_wait" => i \in late)}
       IN  /\ rows' = [i \in RowIds |->
                          IF i \in S THEN [Row(i) EXCEPT !.st = "claimed"] ELSE Row(i)]
           /\ batch' = [ids |-> S, view |-> Blank, tried |-> {}]
    /\ Goto(Disp, "prepare")
    /\ UNCHANGED <<drive, gen, inflight, consecutive, outside>>

Retrying == {i \in RowIds : Row(i).st = "retry_wait"}
ClaimAll == Claim(Retrying)

(* The record and assignment each claimed row is then judged by. *)
Prepare ==
    /\ At(Disp, "prepare")
    /\ batch' = [batch EXCEPT !.view = drive]
    /\ Goto(Disp, "consider")
    /\ UNCHANGED <<store, gen, inflight, consecutive, outside>>

\* is_delivery_stale
Stale(r, view) ==
    \/ view.st # "active"
    \/ r.rev # view.rev
    \/ r.epoch # view.epoch
    \/ r.who # view.who
    \/ r.gen # gen

NeverAdmitted(i) == FALSE
AlreadyAdmitted(i) ==
    \E j \in RowIds \ {i} : Row(j).st \in {"admitted", "acknowledged"} /\ Key(Row(j)) = Key(Row(i))

BusyThisRound(c) == c \in batch.tried
Busy(c) == c \in batch.tried \/ inflight[c] # 0

Yielding(c) == consecutive[c] >= MaxConsecutive

(* _consider: supersede the row, leave it claimed for a later round, yield *)
(* to other work queued at the creature, fail to project it, or start to   *)
(* deliver it.                                                             *)
Consider(i) ==
    /\ At(Disp, "consider") /\ i \in batch.ids
    /\ LET c == Row(i).who
           unfit == Stale(Row(i), batch.view) \/ AlreadyAdmitted(i)
           rest == [batch EXCEPT !.ids = @ \ {i}]
       IN  \/ /\ unfit
              /\ MarkRow(i, "superseded")
              /\ batch' = rest
              /\ UNCHANGED <<th, inflight, consecutive>>
           \/ /\ ~unfit /\ Busy(c)
              /\ batch' = rest
              /\ UNCHANGED <<rows, th, inflight, consecutive>>
           \/ /\ ~unfit /\ ~Busy(c) /\ Yielding(c)
              /\ consecutive' = [consecutive EXCEPT ![c] = 0]
              /\ batch' = rest
              /\ UNCHANGED <<rows, th, inflight>>
           \/ /\ ~unfit /\ ~Busy(c) /\ "projection" \in Ops
              /\ batch' = rest
              /\ th' = [th EXCEPT ![Disp].at = "fail", ![Disp].ret = "consider",
                                  ![Disp].row = i, ![Disp].n = Row(i).attempt]
              /\ UNCHANGED <<rows, inflight, consecutive>>
           \/ /\ ~unfit /\ ~Busy(c)
              /\ batch' = [rest EXCEPT !.tried = @ \cup {c}]
              /\ inflight' = [inflight EXCEPT ![c] = i]
              /\ th' = [th EXCEPT ![Disp].at = "deliver", ![Disp].ret = "consider",
                                  ![Disp].row = i, ![Disp].n = Row(i).attempt]
              /\ UNCHANGED <<rows, consecutive>>
    /\ UNCHANGED <<drive, gen, outside>>

(* sink.deliver: a stopped creature refuses, a running one takes the event *)
(* and the turn starts, and the call may raise.                            *)
Deliver ==
    /\ At(Disp, "deliver")
    /\ LET c == Row(th[Disp].row).who
           letGo == inflight' = [inflight EXCEPT ![c] = 0]
       IN  \/ up[c] /\ Goto(Disp, "admit") /\ UNCHANGED <<inflight, consecutive>>
           \/ /\ ~up[c] /\ Goto(Disp, "defer") /\ letGo
              /\ consecutive' = [consecutive EXCEPT ![c] = 0]
           \/ "sinkError" \in Ops /\ Goto(Disp, "fail") /\ letGo /\ UNCHANGED consecutive
    /\ UNCHANGED <<store, gen, batch, outside>>

(* The row is marked whatever its state has become meanwhile, and the      *)
(* settlement task waits for the turn.                                     *)
Admit ==
    /\ At(Disp, "admit")
    /\ LET i == th[Disp].row
           c == Row(i).who
       IN  /\ MarkRow(i, "admitted")
           /\ consecutive' = [consecutive EXCEPT
                  ![c] = IF Yielding(c) THEN @ ELSE @ + 1]
           /\ th' = [th EXCEPT
                  ![Disp] = [Idle EXCEPT !.at = "consider"],
                  ![Settle(c)] = [Idle EXCEPT !.at = "turn", !.row = i, !.n = th[Disp].n]]
    /\ UNCHANGED <<drive, gen, batch, inflight, outside>>

Defer ==
    /\ At(Disp, "defer")
    /\ MarkRow(th[Disp].row, "pending")
    /\ Finish(Disp)
    /\ UNCHANGED <<drive, gen, batch, consecutive, outside>>

EndRound ==
    /\ At(Disp, "consider") /\ batch.ids = {}
    /\ th' = [th EXCEPT ![Disp] = Idle]
    /\ batch' = [ids |-> {}, view |-> Blank, tried |-> {}]
    /\ UNCHANGED <<store, gen, inflight, consecutive, outside>>

-----------------------------------------------------------------------------
(* _settle: what the turn's result does to its row.                        *)

TurnEnds(c) ==
    /\ At(Settle(c), "turn")
    /\ \E step \in {"ack"} \cup (IF "turnError" \in Ops THEN {"fail"} ELSE {})
                           \cup (IF "userInterrupt" \in Ops THEN {"ackUser"} ELSE {})
                           \cup (IF up[c] THEN {} ELSE {"interrupted"}) :
           Goto(Settle(c), step)
    /\ UNCHANGED <<store, gen, dispatcher, outside>>

Acknowledge(p) ==
    /\ th[p].at \in {"ack", "ackUser"}
    /\ rows' = [rows EXCEPT ![th[p].row].st = "acknowledged",
                            ![th[p].row].acked = TRUE,
                            ![th[p].row].byUser = @ \/ At(p, "ackUser")]
    /\ Goto(p, IF At(p, "ack") THEN "ackread" ELSE "userread")
    /\ UNCHANGED <<drive, gen, dispatcher, outside>>

\* _on_delivery_acknowledged
AckRead(p) ==
    /\ At(p, "ackread")
    /\ ReadAndGoto(p, "rearm")
    /\ UNCHANGED <<store, gen, dispatcher, outside>>

-----------------------------------------------------------------------------
(* Stopping a creature, starting it, and reconciling its Drive.            *)

Claims == {i \in RowIds : Row(i).st = "claimed"}

\* on_creature_stopped: list the claims, then give them back one by one.
ListClaims(c) ==
    /\ At(StopOf(c), "list")
    /\ IF drive.who = c
       THEN th' = [th EXCEPT ![StopOf(c)].at = "release", ![StopOf(c)].ids = Claims]
       ELSE th' = [th EXCEPT ![StopOf(c)] = Idle]
    /\ UNCHANGED <<store, gen, dispatcher, outside>>

Release(p) ==
    /\ At(p, "release")
    /\ IF th[p].ids = {}
       THEN /\ th' = [th EXCEPT ![p] = IF p[1] = "rec" THEN [@ EXCEPT !.at = "resume"]
                                                       ELSE Idle]
            /\ UNCHANGED rows
       ELSE \E i \in th[p].ids :
                /\ MarkRow(i, "pending")
                /\ th' = [th EXCEPT ![p].ids = @ \ {i}]
    /\ UNCHANGED <<drive, gen, dispatcher, outside>>

\* reconcile begins by rebuilding the generation from the rows.
Rebuilt == IF HighestGeneration > 0 THEN HighestGeneration ELSE gen

Rebuild(c) ==
    /\ At(Rec(c), "rebuild")
    /\ gen' = IF drive.st \in Terminal THEN gen ELSE Rebuilt
    /\ Goto(Rec(c), "look")
    /\ UNCHANGED <<store, dispatcher, outside>>

\* The verdict on replacing the uncertain rows U, as far as it can be told now.
RecoveryVerdict(U) ==
    drive.st = "active" /\ due /\ ~HasLive(U) /\ ReadinessAdmits(drive, U)

(* _reconcile_drive: uncertain rows are to be recovered, and the verdict   *)
(* on that is formed now, before the transaction; otherwise stale claims   *)
(* are released and the Drive resumed.                                     *)
Look(c) ==
    /\ At(Rec(c), "look")
    /\ LET U == {i \in RowIds : ClassifyUncertain(Row(i))}
       IN  th' = [th EXCEPT ![Rec(c)] =
               IF drive.who # c \/ drive.st \in Terminal THEN Idle
               ELSE [Idle EXCEPT
                        !.at = IF U = {} THEN "release" ELSE "recover",
                        !.seen = drive,
                        !.ids = IF U = {} THEN Claims ELSE U,
                        !.claims = IF U = {} THEN {} ELSE Claims,
                        !.n = TurnsUsed(U),
                        !.ok = RecoveryVerdict(U)]]
    /\ UNCHANGED <<store, gen, dispatcher, outside>>

(* _recovery_admitted_in_txn: everything the verdict rests on is checked   *)
(* again, and an epoch has one recovery that is not superseded.            *)
StillJustified(p) ==
    /\ th[p].ok
    /\ drive = th[p].seen
    /\ due
    /\ \A i \in th[p].ids : ClassifyUncertain(Row(i))
    /\ ~HasLive(th[p].ids)
    /\ TurnsUsed(th[p].ids) = th[p].n
RecoveryOfEpoch(e) ==
    {i \in RowIds : Row(i).reason = "recovery" /\ Row(i).epoch = e /\ Row(i).st # "superseded"}

RecoveryAnew(p) == StillJustified(p)
RecoveryAdmitted(p) == StillJustified(p) /\ RecoveryOfEpoch(drive.epoch) = {}

\* The rows after a recovery of those in S: both changes are one transaction.
SupersededOnly(rs, S) == Superseding(rs, S)
Recovered(rs, S) == Append(Superseding(rs, S), NewRow(gen, "recovery"))

(* _recover_uncertain: release the stale claims, and either replace the    *)
(* uncertain rows by one recovery or leave them for another time.          *)
Recover(c) ==
    /\ At(Rec(c), "recover")
    /\ LET p == Rec(c)
           released == [i \in RowIds |->
                           IF i \in th[p].claims /\ Row(i).st = "claimed"
                           THEN [Row(i) EXCEPT !.st = "pending"] ELSE Row(i)]
       IN  rows' = IF RecoveryAdmitted(p)
                   THEN Recovered(released, th[p].ids)
                   ELSE released
    /\ th' = [th EXCEPT ![Rec(c)] = Idle]
    /\ UNCHANGED <<drive, gen, dispatcher, outside>>

\* A settled generation is continued, any other Drive is offered again.
Resume(c) ==
    /\ At(Rec(c), "resume")
    /\ Goto(Rec(c), IF Settled(gen, th[Rec(c)].seen.epoch) # {}
                    THEN "rearmElseMaybe" ELSE "maybeElseRearm")
    /\ UNCHANGED <<store, gen, dispatcher, outside>>

-----------------------------------------------------------------------------
(* The environment: operators, the life of the creatures and the process.  *)

Performs(op) == op \in Ops /\ ops < MaxOps /\ ops' = ops + 1

UpdateDrive ==
    /\ Performs("update")
    /\ drive' = [drive EXCEPT !.rev = @ + 1]
    /\ UNCHANGED <<rows, gen, th, dispatcher, due, up>>

(* assign, unassign: a new epoch, the rows not yet admitted superseded.    *)
Reassign(c) ==
    /\ drive' = [drive EXCEPT !.rev = @ + 1, !.epoch = @ + 1, !.who = c]
    /\ rows' = Superseding(rows, {i \in RowIds : Pending(Row(i))})
    /\ UNCHANGED <<gen, dispatcher, due, up>>

Assign(c) ==
    /\ Performs("assign") /\ At(Ctl, "idle") /\ c # drive.who
    /\ Reassign(c)
    /\ th' = [th EXCEPT ![Ctl].at = "maybe", ![Ctl].seen = drive']

Unassign ==
    /\ Performs("unassign") /\ At(Ctl, "idle")
    /\ Reassign(None)
    /\ UNCHANGED th

(* transition, the finalisation of a proposal, and retire_drive; becoming  *)
(* ACTIVE again also takes a fresh generation and offers the Drive.        *)
Transition(st) ==
    /\ Performs(st) /\ At(Ctl, "idle")
    /\ <<drive.st, st>> \in GenericTransitions
    /\ TransitionTo(st)
    /\ IF st = "active"
       THEN th' = [th EXCEPT ![Ctl].at = "wakegen", ![Ctl].seen = drive']
       ELSE UNCHANGED th
    /\ UNCHANGED <<rows, gen, dispatcher, due, up>>

WakeDrive ==
    /\ Performs("wake") /\ At(Ctl, "idle")
    /\ ReadAndGoto(Ctl, IF drive.st = "waiting" THEN "wakeCas" ELSE "wakegenManual")
    /\ UNCHANGED <<store, gen, dispatcher, due, up>>

ReplayDeadLetter ==
    /\ Performs("replay") /\ At(Ctl, "idle") /\ drive.who # None
    /\ \E i \in RowIds : Row(i).st = "dead_letter"
    /\ rows' = Append(rows, NewRow(gen, "retry"))
    /\ UNCHANGED <<drive, gen, th, dispatcher, due, up>>

StopCreature(c) ==
    /\ Performs("stop") /\ up[c] /\ At(StopOf(c), "idle")
    /\ up' = [up EXCEPT ![c] = FALSE]
    /\ Goto(StopOf(c), "list")
    /\ UNCHANGED <<store, gen, dispatcher, due>>

(* A start reconciles once the restoration barrier is passed, unless a     *)
(* reconciliation of the creature is still running.                        *)
StartCreature(c) ==
    /\ ~up[c] /\ At(StopOf(c), "idle")
    /\ up' = [up EXCEPT ![c] = TRUE]
    /\ IF At(Rec(c), "idle") THEN Goto(Rec(c), "rebuild") ELSE UNCHANGED th
    /\ UNCHANGED <<store, gen, dispatcher, due, ops>>

(* The process dies: the rows survive, every task and counter is lost, and *)
(* the new manager rebuilds its generation when it starts.                 *)
Crash ==
    /\ Performs("crash")
    /\ th' = [p \in Proc |-> Idle]
    /\ batch' = [ids |-> {}, view |-> Blank, tried |-> {}]
    /\ inflight' = [c \in Creature |-> 0]
    /\ consecutive' = [c \in Creature |-> 0]
    /\ up' = [c \in Creature |-> FALSE]
    /\ gen' = HighestGeneration
    /\ UNCHANGED <<store, due>>

\* The not_before time passes or the dependencies end.
BecomesDue ==
    /\ ~due /\ due' = TRUE
    /\ UNCHANGED <<store, gen, th, dispatcher, up, ops>>

-----------------------------------------------------------------------------
(* A Drive created ACTIVE and assigned; create_drive has yet to offer it.  *)
Init ==
    /\ drive \in [st : {"active"}, rev : {1}, epoch : {0}, who : Creature]
    /\ rows = <<>>
    /\ due = ~Conditional
    /\ gen = 0
    /\ th = [p \in Proc |-> IF p = Ctl THEN [Idle EXCEPT !.at = "maybe", !.seen = drive]
                                       ELSE Idle]
    /\ batch = [ids |-> {}, view |-> Blank, tried |-> {}]
    /\ inflight = [c \in Creature |-> 0]
    /\ consecutive = [c \in Creature |-> 0]
    /\ up = [c \in Creature |-> TRUE]
    /\ ops = 0

Procedure(p) ==
    \/ EnsureWakeGeneration(p) \/ MaybeEnqueue(p) \/ Enqueue(p)
    \/ ReevaluateReadiness(p) \/ Advance(p)
    \/ OnFailure(p) \/ ReadToSuspend(p) \/ Suspend(p)
    \/ WakeCas(p) \/ Release(p)

Round ==
    \/ ScanWaiting \/ ScanActive
    \/ \E late \in SUBSET Retrying : Claim(late)
    \/ Prepare \/ (\E i \in RowIds : Consider(i)) \/ Deliver \/ Admit \/ Defer \/ EndRound

Settling(c) == TurnEnds(c) \/ Acknowledge(Settle(c)) \/ AckRead(Settle(c))

Lifecycle(c) == ListClaims(c) \/ Rebuild(c) \/ Look(c) \/ Recover(c) \/ Resume(c)

Environment ==
    \/ UpdateDrive \/ Unassign \/ WakeDrive \/ ReplayDeadLetter \/ Crash \/ BecomesDue
    \/ \E c \in Creature : Assign(c) \/ StopCreature(c) \/ StartCreature(c)
    \/ \E st \in Status : Transition(st)

Next ==
    \/ \E p \in Proc : Procedure(p)
    \/ Round
    \/ \E c \in Creature : Settling(c) \/ Lifecycle(c)
    \/ Environment

Spec == Init /\ [][Next]_vars

(* Every task the loop has scheduled runs on, a turn ends (an accepted     *)
(* event is always answered), and a backoff passes.                        *)
Fairness ==
    /\ \A p \in Proc : WF_vars(Procedure(p))
    /\ WF_vars(Round)
    /\ SF_vars(ClaimAll)
    /\ \A c \in Creature : WF_vars(Settling(c)) /\ WF_vars(Lifecycle(c))

FairSpec == Spec /\ Fairness

-----------------------------------------------------------------------------
(* Properties.                                                             *)

RecordType == [st : Status, rev : Nat, epoch : Nat, who : Creature \cup {None}]
RowType == [st : RowState, rev : Nat, epoch : Nat, who : Creature, gen : Nat,
            reason : {"ready", "retry", "recovery"}, attempt : Nat, acked : BOOLEAN, byUser : BOOLEAN]
Step == {"idle", "wakeCas", "wakegen", "wakegenManual", "maybe", "maybeManual",
         "maybeElseRearm", "enqueue", "rearm", "rearmElseMaybe", "advance",
         "fail", "interrupted", "deadread", "userread", "block", "pause",
         "scanActive", "claim", "prepare", "consider", "deliver", "admit", "defer",
         "turn", "ack", "ackUser", "ackread",
         "list", "release", "rebuild", "look", "recover", "resume"}

(* Every variable keeps its type, and no task holds a row that is not in   *)
(* the repository.                                                         *)
TypeOK ==
    /\ drive \in RecordType
    /\ rows \in Seq(RowType)
    /\ due \in BOOLEAN /\ gen \in Nat /\ ops \in 0..MaxOps
    /\ th \in [Proc -> [at : Step, ret : Step, seen : RecordType, row : RowIds \cup {0},
                        ids : SUBSET RowIds, claims : SUBSET RowIds, n : Nat, ok : BOOLEAN]]
    /\ batch \in [ids : SUBSET RowIds, view : RecordType, tried : SUBSET Creature]
    /\ inflight \in [Creature -> RowIds \cup {0}]
    /\ consecutive \in [Creature -> 0..MaxConsecutive]
    /\ up \in [Creature -> BOOLEAN]

(* A logical key reaches a creature once: of the rows with the same epoch, *)
(* revision and generation at most one is admitted or acknowledged         *)
(* (delivery.py, _already_admitted), although two tasks may have written   *)
(* rows for it.                                                            *)
OneCommitmentPerKey ==
    \A i, j \in RowIds :
        /\ {Row(i).st, Row(j).st} \subseteq {"admitted", "acknowledged"}
        /\ Key(Row(i)) = Key(Row(j))
        => i = j

(* A creature never has two Drive turns at once, whatever epochs the rows  *)
(* are of: when the dispatcher has handed a row over, the settlement of    *)
(* that creature's previous turn has finished, and until it has, the       *)
(* creature is marked as busy with that very row (delivery.py, _inflight). *)
NoOverlappingTurns ==
    /\ At(Disp, "admit") => At(Settle(Row(th[Disp].row).who), "idle")
    /\ \A c \in Creature : ~At(Settle(c), "idle") => inflight[c] = th[Settle(c)].row

(* A completed, failed, cancelled or retired Drive is not reopened by a    *)
(* system write decided on an older record: the dead-letter block, the     *)
(* user-interrupt pause and the scan's wake all change the status at the   *)
(* revision they read (policy.py, no edge leaves a terminal status).       *)
TerminalStays ==
    [][drive.st \in Terminal => drive'.st \in {drive.st, "retired"}]_vars

(* An epoch has at most one recovery that is not superseded, however often *)
(* the process crashes and whichever creatures reconcile concurrently      *)
(* (reconcile.py, _recovery_admitted_in_txn).                              *)
OneRecoveryPerEpoch ==
    \A i, j \in RowIds :
        /\ {i, j} \subseteq RecoveryOfEpoch(Row(i).epoch)
        => i = j

(* Recovery never loses work: a row that was admitted is superseded only   *)
(* by the step that writes the recovery which replaces it, and only while  *)
(* no acknowledgement of it has arrived (reconcile.py, _recover_uncertain).*)
UncertainIsReplaced ==
    [][\A i \in RowIds :
           Row(i).st = "admitted" /\ rows'[i].st = "superseded"
           => /\ ~Row(i).acked
              /\ Len(rows') = Len(rows) + 1
              /\ rows'[Len(rows')].reason = "recovery"]_vars

(* The turns acknowledged to an "auto" registration never exceed its       *)
(* budget, although the settlement callback and the scan may each decide   *)
(* to continue the same generation and write a row for it (goal.py,        *)
(* readiness).  Stated of a process that neither stops a creature nor      *)
(* restarts, and of Drives no operator reopens, changes or wakes: a        *)
(* release on stop or restart may write back an acknowledged row.          *)
BudgetHolds == Autonomy = "auto" => TurnsUsed({}) <= Budget

(* Stop means stop: once the user has interrupted the Drive's turn no row  *)
(* is admitted until an operator acts: not a duplicate that was pending,   *)
(* not a continuation the scan decides on between the acknowledgement and  *)
(* the pause (manager/ops.py, _on_delivery_user_interrupted).              *)
UserStopHolds ==
    [][(\E i \in RowIds : Row(i).byUser)
       => \A i \in RowIds : Row(i).st # "admitted" => rows'[i].st # "admitted"]_vars

(* A delivery is served: one that is waiting, claimed or backing off is    *)
(* eventually admitted, replaced or given up, unless its creature stops    *)
(* (delivery.py, a claim left over by a busy creature is claimed again).   *)
DeliveryServed ==
    \A i \in 1..3 :
        (i \in RowIds /\ Pending(Row(i)))
        ~> (i \in RowIds /\ Pending(Row(i)) => ~up[Row(i).who])

=============================================================================
