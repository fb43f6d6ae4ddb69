------------------------- MODULE DriveDeliveryProofs -------------------------
(***************************************************************************)
(* Theorems about DriveDelivery for any creatures, any autonomy, budget    *)
(* and retry policy, and any number of the environment's operations.       *)
(***************************************************************************)
EXTENDS DriveDelivery, SequenceTheorems, FiniteSetTheorems, WellFoundedInduction, TLAPS

Committed(r) == r.st \in {"admitted", "acknowledged"}

\* Only the dispatcher returns from a procedure to a step of its own, and only
\* a settlement acknowledges.
Returns ==
    \A p \in Proc :
        /\ th[p].ret \in {"idle", "scanActive", "claim", "consider"}
        /\ th[p].ret # "idle" => p = Disp
        /\ th[p].at \in {"ack", "ackUser"} => \E c \in Creature : p = Settle(c)

\* Every change of the record takes a revision, so a task that has read the
\* current revision has read the current record.
Reads ==
    /\ drive.rev > 0
    /\ \A p \in Proc :
        /\ th[p].seen.rev <= drive.rev
        /\ th[p].seen.rev = drive.rev => th[p].seen = drive
        /\ th[p].at \in {"block", "pause", "wakeCas"} => th[p].seen.st \notin Terminal
    /\ \A c \in Creature : At(Rec(c), "recover") => th[Rec(c)].seen.who = c

\* An epoch has one assignee.
Epochs ==
    \A i \in RowIds :
        /\ Row(i).epoch <= drive.epoch
        /\ Row(i).epoch = drive.epoch => Row(i).who = drive.who
        /\ \A j \in RowIds : Row(i).epoch = Row(j).epoch => Row(i).who = Row(j).who

\* The row a creature is being given, or whose turn it is in, keeps the creature
\* busy, and no other row of its key is committed.
Given(i) ==
    /\ i \in RowIds \ batch.ids
    /\ inflight[Row(i).who] = i
    /\ At(Settle(Row(i).who), "idle")
    /\ ~AlreadyAdmitted(i)
InTurn(c, i) ==
    /\ i \in RowIds
    /\ Row(i).who = c
    /\ inflight[c] = i
    /\ ~AlreadyAdmitted(i)
Holding ==
    /\ th[Disp].at \in {"deliver", "admit"} => Given(th[Disp].row)
    /\ \A c \in Creature : ~At(Settle(c), "idle") => InTurn(c, th[Settle(c)].row)

\* What the dispatcher has claimed and not yet considered is not admitted.
Batched == \A i \in batch.ids : Row(i).st # "admitted"

Inv == /\ TypeOK /\ Returns /\ Reads /\ Epochs /\ Holding /\ Batched
       /\ OneCommitmentPerKey

-----------------------------------------------------------------------------
(* Types.                                                                  *)

Task == [at : Step, ret : Step, seen : RecordType, row : RowIds \cup {0},
         ids : SUBSET RowIds, claims : SUBSET RowIds, n : Nat, ok : BOOLEAN]

LEMMA ProcFacts ==
    /\ Disp \in Proc /\ Ctl \in Proc /\ Disp # Ctl
    /\ \A c \in Creature :
        /\ Settle(c) \in Proc /\ Rec(c) \in Proc /\ StopOf(c) \in Proc
        /\ Settle(c) \notin {Disp, Ctl} /\ Rec(c) \notin {Disp, Ctl} /\ StopOf(c) \notin {Disp, Ctl}
        /\ \A d \in Creature :
            /\ Settle(c) # Rec(d) /\ Settle(c) # StopOf(d) /\ Rec(c) # StopOf(d)
            /\ Settle(c) = Settle(d) => c = d
    /\ \A p \in Proc : p[1] = "settle" => p[2] \in Creature /\ p = Settle(p[2])
    /\ \A c \in Creature : Settle(c)[1] = "settle" /\ Settle(c)[2] = c
    /\ Disp[1] # "settle"
  BY DEF Disp, Ctl, Settle, Rec, StopOf, Proc

LEMMA RowsType ==
  ASSUME TypeOK
  PROVE  /\ Len(rows) \in Nat /\ RowIds = 1..Len(rows)
         /\ \A i \in RowIds : rows[i] \in RowType
  BY DEF TypeOK, RowIds

LEMMA RowsAgain ==
  ASSUME TypeOK, NEW f \in [RowIds -> RowType]
  PROVE  f \in Seq(RowType) /\ DOMAIN f = RowIds /\ Len(f) = Len(rows)
  <1>1. RowIds = 1..Len(rows) /\ Len(rows) \in Nat
    BY RowsType
  <1>2. f \in [1..Len(rows) -> RowType]
    BY <1>1
  <1>3. f \in Seq(RowType) /\ Len(f) = Len(rows)
    BY <1>1, <1>2
  <1> QED BY <1>2, <1>3, <1>1

LEMMA MarkType ==
  ASSUME TypeOK, NEW i, NEW st \in RowState, MarkRow(i, st)
  PROVE  /\ rows' \in Seq(RowType) /\ RowIds' = RowIds
         /\ \A j \in RowIds : rows'[j] = IF j = i THEN [rows[j] EXCEPT !.st = st] ELSE rows[j]
  <1>1. \A j \in RowIds : [rows[j] EXCEPT !.st = st] \in RowType
    BY RowsType DEF RowType
  <1>2. rows' = [rows EXCEPT ![i].st = st] /\ rows \in [RowIds -> RowType]
    BY RowsType DEF MarkRow, TypeOK, RowIds
  <1>3. rows' \in [RowIds -> RowType]
    BY <1>1, <1>2
  <1> QED BY <1>2, <1>3, RowsAgain DEF RowIds

LEMMA IdleType == Idle \in Task /\ Blank \in RecordType
  BY DEF Idle, Blank, Task, Step, RecordType, Status

LEMMA SupersedingType ==
  ASSUME TypeOK, NEW S
  PROVE  /\ Superseding(rows, S) \in Seq(RowType) /\ DOMAIN Superseding(rows, S) = RowIds
         /\ \A j \in RowIds : Superseding(rows, S)[j]
              = IF j \in S THEN [rows[j] EXCEPT !.st = "superseded"] ELSE rows[j]
  <1>1. \A j \in RowIds : [rows[j] EXCEPT !.st = "superseded"] \in RowType
    BY RowsType DEF RowType, RowState
  <1>2. Superseding(rows, S) = [j \in RowIds |-> IF j \in S THEN [rows[j] EXCEPT !.st = "superseded"]
                                                 ELSE rows[j]]
    BY DEF Superseding, RowIds
  <1>3. Superseding(rows, S) \in [RowIds -> RowType]
    BY <1>1, <1>2, RowsType
  <1> QED BY <1>2, <1>3, RowsAgain

LEMMA AppendType ==
  ASSUME NEW rs \in Seq(RowType), NEW r \in RowType
  PROVE  /\ Append(rs, r) \in Seq(RowType)
         /\ DOMAIN Append(rs, r) = DOMAIN rs \cup {Len(rs) + 1}
         /\ Len(rs) \in Nat /\ DOMAIN rs = 1..Len(rs)
         /\ \A i \in DOMAIN rs : Append(rs, r)[i] = rs[i]
         /\ Append(rs, r)[Len(rs) + 1] = r
  <1>1. Len(rs) \in Nat /\ DOMAIN rs = 1..Len(rs)
    BY LenProperties
  <1> QED BY <1>1, AppendProperties, LenProperties

LEMMA NewRowType ==
  ASSUME TypeOK, drive.who # None, NEW g \in Nat, NEW reason \in {"ready", "retry", "recovery"}
  PROVE  NewRow(g, reason) \in RowType
  BY DEF NewRow, RowType, RowState, TypeOK, RecordType

-----------------------------------------------------------------------------
(* What most steps have in common: one task moves, and no row is committed.*)

RowsKept ==
    /\ RowIds \subseteq RowIds'
    /\ \A i \in RowIds : Key(rows'[i]) = Key(rows[i]) /\ rows'[i].who = rows[i].who
    /\ \A i \in RowIds' \ RowIds : /\ rows'[i].st = "pending"
                                   /\ rows'[i].epoch = drive.epoch /\ rows'[i].who = drive.who

NoneCommitted ==
    \A i \in RowIds :
        /\ Committed(rows'[i]) => Committed(rows[i])
        /\ rows'[i].st = "admitted" => rows[i].st = "admitted"

DriveKept ==
    /\ drive' = drive \/ drive'.rev > drive.rev
    /\ drive'.epoch >= drive.epoch
    /\ drive'.epoch = drive.epoch => drive'.who = drive.who

\* Task p moves, and the others do not.
Moves(p) ==
    /\ \A q \in Proc \ {p} : th'[q] = th[q]
    /\ th'[p].ret \in {"idle", "scanActive", "claim", "consider"}
    /\ th'[p].ret # "idle" => p = Disp
    /\ th'[p].at \in {"ack", "ackUser"} => \E c \in Creature : p = Settle(c)
    /\ \/ th'[p].seen = th[p].seen
       \/ th'[p].seen = drive'
       \/ th'[p].seen = Blank
    /\ th'[p].at \in {"block", "pause", "wakeCas"} => th'[p].seen.st \notin Terminal
    /\ th'[p].at = "recover" =>
          \/ th'[p].seen = th[p].seen /\ th[p].at = "recover"
          \/ p = Rec(th'[p].seen.who)
          \/ \A c \in Creature : p # Rec(c)

\* A settlement goes on with its row or ends, and only its end frees its creature;
\* the dispatcher is not delivering.
KeepsHolding(p) ==
    /\ \A c \in Creature : inflight'[c] = inflight[c] \/ (p = Settle(c) /\ th'[p].at = "idle")
    /\ \A c \in Creature : p = Settle(c) =>
          /\ th[p].at # "idle"
          /\ th'[p].at = "idle" \/ th'[p].row = th[p].row
    /\ p = Disp => th'[p].at \notin {"deliver", "admit"}
    /\ \A i \in batch'.ids : i \in batch.ids \/ (p = Disp /\ rows'[i].st # "admitted")

Ordinary(p) == /\ TypeOK' /\ RowsKept /\ NoneCommitted /\ DriveKept
               /\ Moves(p) /\ KeepsHolding(p)

LEMMA EpochsKept ==
  ASSUME Inv, TypeOK', RowsKept, DriveKept
  PROVE  Epochs'
  <1>1. drive.epoch \in Nat /\ drive'.epoch \in Nat
    BY DEF Inv, TypeOK, RecordType
  <1>2. \A i \in RowIds : rows[i].epoch \in Nat
    BY RowsType DEF Inv, RowType
  <1>3. \A i \in RowIds : rows'[i].epoch = rows[i].epoch
    BY DEF RowsKept, Key
  <1> QED BY <1>1, <1>2, <1>3 DEF Inv, Epochs, RowsKept, DriveKept, Row

LEMMA ReadsKept ==
  ASSUME Inv, TypeOK', DriveKept, NEW p \in Proc, Moves(p)
  PROVE  Reads'
  <1>1. /\ drive.rev \in Nat /\ drive'.rev \in Nat
        /\ \A q \in Proc : th[q].seen.rev \in Nat /\ th'[q].seen.rev \in Nat
    BY DEF Inv, TypeOK, RecordType
  <1>2. Blank.rev = 0
    BY DEF Blank
  <1>3. drive'.rev >= drive.rev
    BY <1>1 DEF DriveKept
  <1>4. drive'.rev > 0
    BY <1>1, <1>3 DEF Inv, Reads
  <1>5. ASSUME NEW q \in Proc
        PROVE  /\ th'[q].seen.rev <= drive'.rev
               /\ th'[q].seen.rev = drive'.rev => th'[q].seen = drive'
    <2>1. CASE th'[q].seen = th[q].seen
      BY <2>1, <1>1, <1>3 DEF Inv, Reads, DriveKept
    <2>2. CASE th'[q].seen = drive'
      BY <2>2, <1>1
    <2>3. CASE th'[q].seen = Blank
      BY <2>3, <1>1, <1>2, <1>4
    <2> QED BY <2>1, <2>2, <2>3 DEF Moves
  <1>6. \A q \in Proc : th'[q].at \in {"block", "pause", "wakeCas"} => th'[q].seen.st \notin Terminal
    BY DEF Inv, Reads, Moves
  <1>7. \A c \in Creature : th'[Rec(c)].at = "recover" => th'[Rec(c)].seen.who = c
    <2> SUFFICES ASSUME NEW c \in Creature, th'[Rec(c)].at = "recover"
                 PROVE  th'[Rec(c)].seen.who = c
      OBVIOUS
    <2>1. CASE p = Rec(c)
      BY <2>1 DEF Inv, Reads, Moves, At, Rec
    <2>2. CASE p # Rec(c)
      BY <2>2, ProcFacts DEF Inv, Reads, Moves, At
    <2> QED BY <2>1, <2>2
  <1> QED BY <1>4, <1>5, <1>6, <1>7 DEF Reads, At

\* A row of whose key no other row is committed stays so.
LEMMA NoOtherCommitted ==
  ASSUME Inv, RowsKept, NoneCommitted, NEW i \in RowIds, ~AlreadyAdmitted(i)
  PROVE  ~AlreadyAdmitted(i)'
  BY DEF AlreadyAdmitted, RowsKept, NoneCommitted, Committed, Row

LEMMA GivenKept ==
  ASSUME Inv, RowsKept, NoneCommitted, NEW p \in Proc \ {Disp}, Moves(p), KeepsHolding(p),
         NEW i, Given(i)
  PROVE  Given(i)'
  <1>1. /\ i \in RowIds \ batch.ids /\ inflight[rows[i].who] = i
        /\ th[Settle(rows[i].who)].at = "idle" /\ ~AlreadyAdmitted(i)
    BY DEF Given, At, Row
  <1>2. rows[i].who \in Creature /\ rows'[i].who = rows[i].who
    BY <1>1, RowsType DEF Inv, RowType, RowsKept
  <1>3. p # Settle(rows[i].who)
    BY <1>1, <1>2 DEF KeepsHolding
  <1>4. /\ inflight'[rows[i].who] = inflight[rows[i].who]
        /\ th'[Settle(rows[i].who)] = th[Settle(rows[i].who)]
    BY <1>2, <1>3, ProcFacts DEF KeepsHolding, Moves
  <1>5. i \in RowIds' \ batch'.ids
    BY <1>1 DEF RowsKept, KeepsHolding
  <1>6. ~AlreadyAdmitted(i)'
    BY <1>1, NoOtherCommitted
  <1> QED BY <1>1, <1>2, <1>4, <1>5, <1>6 DEF Given, At, Row

LEMMA InTurnKept ==
  ASSUME Inv, RowsKept, NoneCommitted, NEW c \in Creature, inflight'[c] = inflight[c],
         NEW i, InTurn(c, i)
  PROVE  InTurn(c, i)'
  <1>1. i \in RowIds /\ rows[i].who = c /\ inflight[c] = i /\ ~AlreadyAdmitted(i)
    BY DEF InTurn, Row
  <1>2. i \in RowIds' /\ rows'[i].who = c
    BY <1>1 DEF RowsKept
  <1>3. ~AlreadyAdmitted(i)'
    BY <1>1, NoOtherCommitted
  <1> QED BY <1>1, <1>2, <1>3 DEF InTurn, Row

LEMMA HoldingKept ==
  ASSUME Inv, TypeOK', RowsKept, NoneCommitted, NEW p \in Proc, Moves(p), KeepsHolding(p)
  PROVE  Holding'
  <1>1. ASSUME th'[Disp].at \in {"deliver", "admit"}
        PROVE  Given(th[Disp].row)'
    <2>1. p # Disp /\ th'[Disp] = th[Disp]
      BY <1>1, ProcFacts DEF Moves, KeepsHolding
    <2>2. PICK i : i = th[Disp].row
      OBVIOUS
    <2>3. Given(i)
      BY <1>1, <2>1, <2>2 DEF Inv, Holding
    <2>4. Given(i)'
      BY <2>1, <2>3, GivenKept
    <2> QED BY <2>1, <2>2, <2>4
  <1>2. ASSUME NEW c \in Creature, th'[Settle(c)].at # "idle"
        PROVE  InTurn(c, th[Settle(c)].row)'
    <2>1. PICK i : i = th[Settle(c)].row
      OBVIOUS
    <2>2. th[Settle(c)].at # "idle" /\ th'[Settle(c)].row = i /\ inflight'[c] = inflight[c]
      BY <1>2, <2>1, ProcFacts DEF Moves, KeepsHolding
    <2>3. InTurn(c, i)
      BY <2>1, <2>2 DEF Inv, Holding, At
    <2>4. InTurn(c, i)'
      BY <2>2, <2>3, InTurnKept
    <2> QED BY <2>2, <2>4
  <1> QED BY <1>1, <1>2 DEF Holding, At

LEMMA CommitmentsKept ==
  ASSUME Inv, TypeOK', RowsKept, NoneCommitted
  PROVE  OneCommitmentPerKey'
  BY DEF Inv, OneCommitmentPerKey, RowsKept, NoneCommitted, Committed, Row

LEMMA OrdinaryInv ==
  ASSUME Inv, NEW p \in Proc, Ordinary(p)
  PROVE  Inv'
  <1> USE DEF Ordinary
  <1>1. Returns'
    BY DEF Inv, Returns, Moves
  <1>2. Batched'
    BY DEF Inv, Batched, TypeOK, KeepsHolding, NoneCommitted, Row
  <1> QED BY <1>1, <1>2, EpochsKept, ReadsKept, HoldingKept, CommitmentsKept DEF Inv

-----------------------------------------------------------------------------
(* Moves of one task.                                                      *)

LEMMA RowsUntouched ==
  ASSUME UNCHANGED rows
  PROVE  RowsKept /\ NoneCommitted /\ RowIds' = RowIds
  BY DEF RowsKept, NoneCommitted, RowIds, Key, Committed

LEMMA DriveUntouched ==
  ASSUME Inv, UNCHANGED drive
  PROVE  DriveKept
  BY DEF DriveKept, Inv, TypeOK, RecordType

Plain == Step \ {"ack", "ackUser", "block", "pause", "wakeCas", "recover"}

LEMMA GotoMoves ==
  ASSUME Inv, NEW p \in Proc, NEW step \in Plain, Goto(p, step)
  PROVE  /\ th' \in [Proc -> Task] /\ Moves(p)
         /\ th'[p].at = step /\ th'[p].row = th[p].row
  <1>1. step \in Step /\ th'[p].at = step /\ th'[p].ret = th[p].ret
        /\ th'[p].seen = th[p].seen /\ th'[p].row = th[p].row
        /\ (\A q \in Proc \ {p} : th'[q] = th[q]) /\ th' \in [Proc -> Task]
    BY DEF Inv, TypeOK, Goto, Task, Plain
  <1> QED BY <1>1 DEF Inv, Returns, Moves, Plain

LEMMA ReadMoves ==
  ASSUME Inv, NEW p \in Proc, NEW step \in Step \ {"ack", "ackUser", "recover"},
         step \in {"block", "pause", "wakeCas"} => drive.st \notin Terminal,
         ReadAndGoto(p, step), UNCHANGED drive
  PROVE  /\ th' \in [Proc -> Task] /\ Moves(p)
         /\ th'[p].at = step /\ th'[p].row = th[p].row
  <1>1. /\ th' \in [Proc -> Task] /\ \A q \in Proc \ {p} : th'[q] = th[q]
        /\ th'[p].at = step /\ th'[p].ret = th[p].ret /\ th'[p].seen = drive
        /\ th'[p].row = th[p].row
    <2> DEFINE t == [th[p] EXCEPT !.at = step, !.seen = drive]
    <2>1. th \in [Proc -> Task] /\ drive \in RecordType
      BY DEF Inv, TypeOK, Task
    <2>2. t \in Task /\ t.at = step /\ t.ret = th[p].ret /\ t.seen = drive /\ t.row = th[p].row
      BY <2>1 DEF Task
    <2>3. th' = [th EXCEPT ![p] = t]
      BY DEF ReadAndGoto
    <2> QED BY <2>1, <2>2, <2>3
  <1> QED BY <1>1 DEF Inv, Returns, Moves

\* A task that ends, or returns to the procedure that called it.
LEMMA EndingMoves ==
  ASSUME Inv, NEW p \in Proc, NEW step \in {"idle", "scanActive", "claim", "consider"},
         EndingAt(p, step), step = "idle" \/ p = Disp, th[p].at # "idle"
  PROVE  /\ th' \in [Proc -> Task] /\ Moves(p)
         /\ inflight' \in [Creature -> RowIds \cup {0}]
         /\ batch'.ids \subseteq batch.ids => KeepsHolding(p)
  <1>1. /\ th' = [th EXCEPT ![p] = [Idle EXCEPT !.at = step]]
        /\ [Idle EXCEPT !.at = step] \in Task
    BY IdleType DEF EndingAt, Task, Step
  <1>2. /\ th' \in [Proc -> Task] /\ \A q \in Proc \ {p} : th'[q] = th[q]
        /\ th'[p].at = step /\ th'[p].ret = "idle" /\ th'[p].seen = Blank
    BY <1>1 DEF Inv, TypeOK, Idle, Task
  <1>3. Moves(p)
    BY <1>2 DEF Moves
  <1>4. p[1] = "settle" => p[2] \in Creature /\ p = Settle(p[2]) /\ step = "idle"
    BY ProcFacts
  <1>5. /\ inflight' \in [Creature -> RowIds \cup {0}]
        /\ \A c \in Creature : inflight'[c] = inflight[c] \/ (p = Settle(c) /\ th'[p].at = "idle")
    BY <1>2, <1>4 DEF EndingAt, Inv, TypeOK
  <1>6. \A c \in Creature : p = Settle(c) => th'[p].at = "idle"
    BY <1>2, ProcFacts
  <1> QED BY <1>2, <1>3, <1>5, <1>6 DEF KeepsHolding

LEMMA FinishMoves ==
  ASSUME Inv, NEW p \in Proc, Finish(p), th[p].at # "idle"
  PROVE  /\ th' \in [Proc -> Task] /\ Moves(p)
         /\ inflight' \in [Creature -> RowIds \cup {0}]
         /\ batch'.ids \subseteq batch.ids => KeepsHolding(p)
  <1>1. /\ th[p].ret \in {"idle", "scanActive", "claim", "consider"}
        /\ th[p].ret = "idle" \/ p = Disp
    BY DEF Inv, Returns
  <1> QED BY <1>1, EndingMoves DEF Finish

\* A task that keeps its row and frees nobody.
LEMMA StaysHolding ==
  ASSUME NEW p \in Proc, UNCHANGED inflight, batch'.ids \subseteq batch.ids,
         p = Disp => th'[p].at \notin {"deliver", "admit"},
         \A c \in Creature : p = Settle(c) =>
            th[p].at # "idle" /\ (th'[p].at = "idle" \/ th'[p].row = th[p].row)
  PROVE  KeepsHolding(p)
  BY DEF KeepsHolding

Round_ == [ids : SUBSET RowIds, view : RecordType, tried : SUBSET Creature]

\* What there is to show of a step in which one task moves.
LEMMA StepInv ==
  ASSUME Inv, NEW p \in Proc,
         rows' \in Seq(RowType), RowsKept, NoneCommitted,
         drive' \in RecordType, DriveKept,
         th' \in [Proc -> Task], Moves(p), KeepsHolding(p),
         inflight' \in [Creature -> RowIds \cup {0}], batch' \in Round_,
         consecutive' \in [Creature -> 0..MaxConsecutive],
         due' \in BOOLEAN, gen' \in Nat, ops' \in 0..MaxOps, up' \in [Creature -> BOOLEAN]
  PROVE  Inv'
  <1>1. RowIds \subseteq RowIds'
    BY DEF RowsKept
  <1>2. Task \subseteq Task'
    BY <1>1 DEF Task
  <1>3. th' \in [Proc -> Task']
    BY <1>2
  <1>4. batch' \in Round_' /\ inflight' \in [Creature -> RowIds' \cup {0}]
    BY <1>1 DEF Round_
  <1>5. TypeOK'
    BY <1>3, <1>4 DEF TypeOK, Task, Round_
  <1> QED BY <1>5, OrdinaryInv DEF Ordinary

\* The same where the hold on the creatures changes.
LEMMA HandingInv ==
  ASSUME Inv, NEW p \in Proc,
         rows' \in Seq(RowType), RowsKept, NoneCommitted, UNCHANGED <<drive, due, gen, ops, up>>,
         th' \in [Proc -> Task], Moves(p), Holding',
         inflight' \in [Creature -> RowIds \cup {0}], batch' \in Round_,
         batch'.ids \subseteq batch.ids,
         consecutive' \in [Creature -> 0..MaxConsecutive]
  PROVE  Inv'
  <1>1. RowIds \subseteq RowIds'
    BY DEF RowsKept
  <1>2. Task \subseteq Task'
    BY <1>1 DEF Task
  <1>3. th' \in [Proc -> Task']
    BY <1>2
  <1>4. batch' \in Round_' /\ inflight' \in [Creature -> RowIds' \cup {0}]
    BY <1>1 DEF Round_
  <1>5. TypeOK'
    BY <1>3, <1>4 DEF Inv, TypeOK, Task, Round_
  <1>6. Returns'
    BY DEF Inv, Returns, Moves
  <1>7. Batched'
    BY DEF Inv, TypeOK, Batched, NoneCommitted, Row
  <1> QED BY <1>5, <1>6, <1>7, DriveUntouched, EpochsKept, ReadsKept, CommitmentsKept DEF Inv

LEMMA Typed ==
  ASSUME Inv
  PROVE  /\ rows \in Seq(RowType) /\ drive \in RecordType /\ th \in [Proc -> Task]
         /\ inflight \in [Creature -> RowIds \cup {0}] /\ batch \in Round_
         /\ consecutive \in [Creature -> 0..MaxConsecutive]
         /\ due \in BOOLEAN /\ gen \in Nat /\ ops \in 0..MaxOps /\ up \in [Creature -> BOOLEAN]
  BY DEF Inv, TypeOK, Task, Round_

\* A step that leaves the rows and the record alone.
LEMMA QuietInv ==
  ASSUME Inv, NEW p \in Proc, UNCHANGED store, th' \in [Proc -> Task],
         Moves(p), KeepsHolding(p),
         inflight' \in [Creature -> RowIds \cup {0}],
         UNCHANGED <<batch, consecutive, outside>>, gen' \in Nat
  PROVE  Inv'
  <1>1. RowsKept /\ NoneCommitted /\ DriveKept /\ RowIds' = RowIds
    BY RowsUntouched, DriveUntouched DEF store
  <1>2. TypeOK'
    BY <1>1 DEF Inv, TypeOK, Task, store, outside
  <1> QED BY <1>1, <1>2, OrdinaryInv DEF Ordinary

-----------------------------------------------------------------------------
(* Procedures that several tasks run.                                      *)

LEMMA EnsureWakeGenerationInv ==
  ASSUME Inv, NEW p \in Proc, EnsureWakeGeneration(p)
  PROVE  Inv'
  <1>1. /\ th[p].at \in {"wakegen", "wakegenManual"} /\ UNCHANGED <<store, dispatcher, outside>>
        /\ gen' \in {gen, gen + 1}
    BY DEF EnsureWakeGeneration
  <1>2. \E step \in {"maybe", "maybeManual"} : Goto(p, step)
    BY DEF EnsureWakeGeneration
  <1>3. PICK step \in {"maybe", "maybeManual"} : Goto(p, step)
    BY <1>2
  <1>4. step \in Plain
    BY DEF Plain, Step
  <1>5. gen' \in Nat /\ inflight' \in [Creature -> RowIds \cup {0}]
    BY <1>1 DEF Inv, TypeOK, dispatcher
  <1>6. KeepsHolding(p)
    BY <1>1, <1>3, <1>4, GotoMoves, StaysHolding DEF dispatcher
  <1> QED BY <1>1, <1>3, <1>4, <1>5, <1>6, GotoMoves, QuietInv DEF dispatcher

LEMMA MaybeEnqueueInv ==
  ASSUME Inv, NEW p \in Proc, MaybeEnqueue(p)
  PROVE  Inv'
  <1>1. /\ th[p].at # "idle" /\ UNCHANGED <<store, gen, batch, consecutive, outside>>
        /\ gen' \in Nat
    BY DEF MaybeEnqueue, Inv, TypeOK
  <1>2. \/ Finish(p)
        \/ UNCHANGED inflight /\ \E step \in {"enqueue", "rearm"} : Goto(p, step)
    BY DEF MaybeEnqueue
  <1>3. CASE Finish(p)
    BY <1>1, <1>3, FinishMoves, QuietInv
  <1>4. CASE UNCHANGED inflight /\ \E step \in {"enqueue", "rearm"} : Goto(p, step)
    <2>1. PICK step \in {"enqueue", "rearm"} : Goto(p, step)
      BY <1>4
    <2>2. step \in Plain
      BY DEF Plain, Step
    <2>3. KeepsHolding(p)
      BY <1>1, <1>4, <2>1, <2>2, GotoMoves, StaysHolding
    <2> QED BY <1>1, <1>4, <2>1, <2>2, <2>3, GotoMoves, QuietInv DEF Inv, TypeOK
  <1> QED BY <1>2, <1>3, <1>4

\* A row is appended.
LEMMA AppendKept ==
  ASSUME Inv, drive.who # None, NEW g \in Nat, NEW reason \in {"ready", "retry", "recovery"},
         rows' = Append(rows, NewRow(g, reason))
  PROVE  rows' \in Seq(RowType) /\ RowsKept /\ NoneCommitted
  <1>1. rows \in Seq(RowType) /\ NewRow(g, reason) \in RowType
    BY Typed, NewRowType DEF Inv
  <1>2. /\ rows' \in Seq(RowType) /\ RowIds' = RowIds \cup {Len(rows) + 1}
        /\ \A i \in RowIds : rows'[i] = rows[i]
        /\ rows'[Len(rows) + 1] = NewRow(g, reason)
    BY <1>1, AppendType DEF RowIds
  <1>3. /\ NewRow(g, reason).st = "pending" /\ NewRow(g, reason).epoch = drive.epoch
        /\ NewRow(g, reason).who = drive.who
    BY DEF NewRow
  <1> QED BY <1>2, <1>3 DEF RowsKept, NoneCommitted

\* A row is given another state, which is not that of a commitment.
LEMMA MarkKept ==
  ASSUME Inv, NEW i, NEW st \in RowState \ {"admitted", "acknowledged"}, MarkRow(i, st)
  PROVE  rows' \in Seq(RowType) /\ RowsKept /\ NoneCommitted
  <1>1. /\ rows' \in Seq(RowType) /\ RowIds' = RowIds
        /\ \A j \in RowIds : rows'[j] = IF j = i THEN [rows[j] EXCEPT !.st = st] ELSE rows[j]
    BY MarkType DEF Inv
  <1>2. \A j \in RowIds : [rows[j] EXCEPT !.st = st].st = st
    BY RowsType DEF Inv, RowType
  <1> QED BY <1>1, <1>2, RowsType DEF RowsKept, NoneCommitted, Key, Committed, Inv, RowType

LEMMA WriteRowInv ==
  ASSUME Inv, NEW p \in Proc, th[p].at # "idle", NEW g \in Nat, WriteRow(p, g),
         UNCHANGED <<drive, batch, consecutive, outside>>, gen' \in Nat
  PROVE  Inv'
  <1>1. CASE drive.who # None
    <2>1. rows' = Append(rows, NewRow(g, "ready")) /\ Finish(p)
      BY <1>1 DEF WriteRow
    <2> QED BY <1>1, <2>1, AppendKept, FinishMoves, DriveUntouched, Typed, StepInv DEF outside
  <1>2. CASE drive.who = None
    <2>1. UNCHANGED rows /\ EndingAt(p, "idle")
      BY <1>2 DEF WriteRow
    <2> QED BY <2>1, RowsUntouched, EndingMoves, DriveUntouched, Typed, StepInv DEF outside
  <1> QED BY <1>1, <1>2

LEMMA EnqueueInv ==
  ASSUME Inv, NEW p \in Proc, Enqueue(p)
  PROVE  Inv'
  BY WriteRowInv, Typed DEF Enqueue, At

LEMMA AdvanceInv ==
  ASSUME Inv, NEW p \in Proc, Advance(p)
  PROVE  Inv'
  <1>1. th[p].n \in Nat
    BY Typed DEF Task
  <1>2. th[p].n + 1 \in Nat
    BY <1>1
  <1> QED BY <1>2, WriteRowInv DEF Advance, At

LEMMA ReevaluateReadinessInv ==
  ASSUME Inv, NEW p \in Proc, ReevaluateReadiness(p)
  PROVE  Inv'
  <1>1. /\ th[p].at # "idle" /\ UNCHANGED <<store, gen, batch, consecutive, outside>>
        /\ gen' \in Nat
    BY Typed DEF ReevaluateReadiness
  <1>2. \/ Finish(p)
        \/ Goto(p, "maybe") /\ UNCHANGED inflight
        \/ th' = [th EXCEPT ![p].at = "advance", ![p].n = gen] /\ UNCHANGED inflight
    BY DEF ReevaluateReadiness
  <1>3. CASE Finish(p)
    BY <1>1, <1>3, FinishMoves, QuietInv
  <1>4. CASE Goto(p, "maybe") /\ UNCHANGED inflight
    <2>1. "maybe" \in Plain
      BY DEF Plain, Step
    <2>2. KeepsHolding(p)
      BY <1>1, <1>4, <2>1, GotoMoves, StaysHolding
    <2> QED BY <1>1, <1>4, <2>1, <2>2, GotoMoves, QuietInv, Typed
  <1>5. CASE th' = [th EXCEPT ![p].at = "advance", ![p].n = gen] /\ UNCHANGED inflight
    <2> DEFINE t == [th[p] EXCEPT !.at = "advance", !.n = gen]
    <2>0. th[p] \in Task /\ gen \in Nat /\ "advance" \in Step
      BY Typed DEF Step
    <2>1. t \in Task /\ t.at = "advance" /\ t.ret = th[p].ret /\ t.seen = th[p].seen
          /\ t.row = th[p].row
      BY <2>0 DEF Task
    <2>2. th' = [th EXCEPT ![p] = t]
      BY <1>5
    <2>3. /\ th' \in [Proc -> Task] /\ \A q \in Proc \ {p} : th'[q] = th[q]
          /\ th'[p] = t
      BY <2>1, <2>2, Typed
    <2>4. Moves(p)
      BY <2>1, <2>3 DEF Moves, Inv, Returns
    <2>5. KeepsHolding(p)
      BY <1>1, <1>5, <2>1, <2>3, StaysHolding
    <2> QED BY <1>1, <1>5, <2>3, <2>4, <2>5, QuietInv, Typed
  <1> QED BY <1>2, <1>3, <1>4, <1>5

LEMMA OnFailureInv ==
  ASSUME Inv, NEW p \in Proc, OnFailure(p)
  PROVE  Inv'
  <1>1. /\ th[p].at # "idle" /\ UNCHANGED <<drive, gen, batch, consecutive, outside>>
        /\ th[p].n + 1 \in Nat
    BY Typed DEF OnFailure, Task
  <1> DEFINE i == th[p].row
             attempt == th[p].n + 1
  <1>2. \/ /\ rows' = [rows EXCEPT ![i].st = "retry_wait", ![i].attempt = attempt]
           /\ Finish(p)
        \/ MarkRow(i, "dead_letter") /\ Goto(p, "deadread") /\ UNCHANGED inflight
    BY DEF OnFailure
  <1>3. CASE /\ rows' = [rows EXCEPT ![i].st = "retry_wait", ![i].attempt = attempt]
             /\ Finish(p)
    <2> HIDE DEF i, attempt
    <2>1. /\ rows \in [RowIds -> RowType] /\ attempt \in Nat
      BY <1>1, RowsType, Typed DEF Inv, RowIds, attempt
    <2>2. /\ DOMAIN rows' = RowIds
          /\ \A j \in RowIds : rows'[j] = IF j = i THEN [rows[j] EXCEPT !.st = "retry_wait",
                                                                       !.attempt = attempt]
                                                   ELSE rows[j]
          /\ rows' = [j \in RowIds |-> rows'[j]]
      BY <1>3, <2>1
    <2>3. ASSUME NEW j \in RowIds, NEW r, r = [rows[j] EXCEPT !.st = "retry_wait", !.attempt = attempt]
          PROVE  r \in RowType /\ r.st = "retry_wait" /\ Key(r) = Key(rows[j]) /\ r.who = rows[j].who
      <3>1. rows[j] \in RowType /\ "retry_wait" \in RowState
        BY <2>1 DEF RowState
      <3> QED BY <2>1, <2>3, <3>1 DEF RowType, Key
    <2>4. rows' \in [RowIds -> RowType]
      BY <2>1, <2>2, <2>3
    <2>5. rows' \in Seq(RowType) /\ RowIds' = RowIds
      BY <2>4, RowsAgain DEF Inv, RowIds
    <2>6. RowsKept /\ NoneCommitted
      BY <2>2, <2>3, <2>5 DEF RowsKept, NoneCommitted, Committed
    <2> QED BY <1>1, <1>3, <2>5, <2>6, FinishMoves, DriveUntouched, Typed, StepInv DEF outside
  <1>4. CASE MarkRow(i, "dead_letter") /\ Goto(p, "deadread") /\ UNCHANGED inflight
    <2>1. "deadread" \in Plain /\ "dead_letter" \in RowState \ {"admitted", "acknowledged"}
      BY DEF Plain, Step, RowState
    <2>2. rows' \in Seq(RowType) /\ RowsKept /\ NoneCommitted
      BY <1>4, <2>1, MarkKept
    <2>3. KeepsHolding(p)
      BY <1>1, <1>4, <2>1, GotoMoves, StaysHolding
    <2> QED BY <1>1, <1>4, <2>1, <2>2, <2>3, GotoMoves, DriveUntouched, Typed, StepInv DEF outside
  <1> QED BY <1>2, <1>3, <1>4

\* A task that goes on with another record of its own.
LEMMA TaskMoves ==
  ASSUME Inv, NEW p \in Proc, NEW t \in Task, th' = [th EXCEPT ![p] = t],
         t.at \in Plain, t.ret = "idle" \/ p = Disp,
         t.ret \in {"idle", "scanActive", "claim", "consider"},
         t.seen = th[p].seen \/ t.seen = drive' \/ t.seen = Blank
  PROVE  th' \in [Proc -> Task] /\ Moves(p) /\ th'[p] = t
  <1>1. /\ th' \in [Proc -> Task] /\ \A q \in Proc \ {p} : th'[q] = th[q]
        /\ th'[p] = t
    BY Typed
  <1> QED BY <1>1 DEF Moves, Plain

LEMMA TransitionKept ==
  ASSUME Inv, NEW st \in Status, TransitionTo(st)
  PROVE  drive' \in RecordType /\ DriveKept
  <1>1. drive \in RecordType
    BY Typed
  <1>2. /\ drive.rev \in Nat /\ drive.epoch \in Nat
        /\ drive' = [drive EXCEPT !.st = st, !.rev = drive.rev + 1]
    BY <1>1 DEF TransitionTo, RecordType
  <1>3. PICK n \in Nat : n = drive.rev + 1
    BY <1>2
  <1>4. drive' = [drive EXCEPT !.st = st, !.rev = n]
    BY <1>2, <1>3
  <1>5. /\ drive' \in RecordType /\ drive'.rev = n
        /\ drive'.epoch = drive.epoch /\ drive'.who = drive.who
    BY <1>1, <1>4 DEF RecordType
  <1> QED BY <1>2, <1>3, <1>5 DEF DriveKept

LEMMA ReadToSuspendInv ==
  ASSUME Inv, NEW p \in Proc, ReadToSuspend(p)
  PROVE  Inv'
  <1>1. th[p].at # "idle" /\ UNCHANGED <<store, gen, batch, consecutive, outside>>
    BY DEF ReadToSuspend, At
  <1>2. \/ Finish(p)
        \/ /\ drive.st \in {"active", "waiting", "paused"} /\ UNCHANGED inflight
           /\ \E step \in {"block", "pause"} : ReadAndGoto(p, step)
    BY DEF ReadToSuspend
  <1>3. CASE Finish(p)
    BY <1>1, <1>3, FinishMoves, QuietInv, Typed
  <1>4. CASE /\ drive.st \in {"active", "waiting", "paused"} /\ UNCHANGED inflight
             /\ \E step \in {"block", "pause"} : ReadAndGoto(p, step)
    <2>1. PICK step \in {"block", "pause"} : ReadAndGoto(p, step)
      BY <1>4
    <2>2. step \in Step \ {"ack", "ackUser", "recover"} /\ drive.st \notin Terminal
      BY <1>4 DEF Step, Terminal
    <2>3. UNCHANGED drive
      BY <1>1 DEF store
    <2>4. KeepsHolding(p)
      BY <1>1, <1>4, <2>1, <2>2, <2>3, ReadMoves, StaysHolding
    <2> QED BY <1>1, <1>4, <2>1, <2>2, <2>3, <2>4, ReadMoves, QuietInv, Typed
  <1> QED BY <1>2, <1>3, <1>4

LEMMA SuspendInv ==
  ASSUME Inv, NEW p \in Proc, Suspend(p)
  PROVE  Inv'
  <1>1. /\ th[p].at # "idle" /\ Finish(p)
        /\ UNCHANGED <<rows, gen, batch, consecutive, outside>>
    BY DEF Suspend
  <1>2. drive' \in RecordType /\ DriveKept
    <2>1. \/ UNCHANGED drive
          \/ \E st \in {"blocked", "paused"} : TransitionTo(st)
      BY DEF Suspend
    <2>2. {"blocked", "paused"} \subseteq Status
      BY DEF Status
    <2> QED BY <2>1, <2>2, TransitionKept, DriveUntouched, Typed
  <1> QED BY <1>1, <1>2, RowsUntouched, FinishMoves, Typed, StepInv DEF outside

LEMMA WakeCasInv ==
  ASSUME Inv, NEW p \in Proc, WakeCas(p)
  PROVE  Inv'
  <1>1. /\ th[p].at # "idle" /\ UNCHANGED <<rows, gen, batch, consecutive, outside>>
    BY DEF WakeCas, At
  <1>2. \/ UNCHANGED drive /\ Finish(p)
        \/ /\ TransitionTo("active") /\ UNCHANGED inflight
           /\ th' = [th EXCEPT ![p].at = IF p = Disp THEN "maybe" ELSE "wakegenManual",
                                ![p].seen = drive']
    BY DEF WakeCas
  <1>3. CASE UNCHANGED drive /\ Finish(p)
    BY <1>1, <1>3, RowsUntouched, DriveUntouched, FinishMoves, Typed, StepInv DEF outside
  <1>4. CASE /\ TransitionTo("active") /\ UNCHANGED inflight
             /\ th' = [th EXCEPT ![p].at = IF p = Disp THEN "maybe" ELSE "wakegenManual",
                                  ![p].seen = drive']
    <2> DEFINE step == IF p = Disp THEN "maybe" ELSE "wakegenManual"
               t == [th[p] EXCEPT !.at = step, !.seen = drive']
    <2>1. drive' \in RecordType /\ DriveKept
      BY <1>4, TransitionKept DEF Status
    <2>2. step \in Plain /\ th[p] \in Task
      BY Typed DEF Plain, Step
    <2> HIDE DEF step
    <2>3. /\ t \in Task /\ t.at = step /\ t.ret = th[p].ret /\ t.seen = drive'
          /\ t.row = th[p].row
      BY <2>1, <2>2 DEF Task, Plain
    <2>4. th' = [th EXCEPT ![p] = t]
      BY <1>4 DEF step
    <2>5. th' \in [Proc -> Task] /\ Moves(p) /\ th'[p] = t
      BY <2>2, <2>3, <2>4, TaskMoves DEF Inv, Returns
    <2>6. KeepsHolding(p)
      BY <1>1, <1>4, <2>2, <2>3, <2>5, StaysHolding DEF step
    <2> QED BY <1>1, <1>4, <2>1, <2>5, <2>6, RowsUntouched, Typed, StepInv DEF outside
  <1> QED BY <1>2, <1>3, <1>4

LEMMA ReleaseInv ==
  ASSUME Inv, NEW p \in Proc, Release(p)
  PROVE  Inv'
  <1>1. /\ th[p].at = "release" /\ UNCHANGED <<drive, gen, dispatcher, outside>>
        /\ th[p] \in Task
    BY Typed DEF Release, At
  <1>2. \/ /\ UNCHANGED rows
           /\ th' = [th EXCEPT ![p] = Idle] \/ th' = [th EXCEPT ![p] = [th[p] EXCEPT !.at = "resume"]]
        \/ \E i \in th[p].ids : /\ MarkRow(i, "pending")
                                /\ th' = [th EXCEPT ![p] = [th[p] EXCEPT !.ids = @ \ {i}]]
    BY DEF Release
  <1>3. PICK t : /\ th' = [th EXCEPT ![p] = t]
                 /\ \/ UNCHANGED rows /\ t \in {Idle, [th[p] EXCEPT !.at = "resume"]}
                    \/ \E i \in th[p].ids : /\ MarkRow(i, "pending")
                                            /\ t = [th[p] EXCEPT !.ids = @ \ {i}]
    BY <1>2
  <1>4. /\ t \in Task /\ t.at \in {"idle", "resume", "release"} /\ t.ret \in {th[p].ret, "idle"}
        /\ t.seen = th[p].seen \/ t.seen = Blank
        /\ t.at # "idle" => t.row = th[p].row
    <2>1. CASE t = Idle
      BY <2>1, IdleType DEF Idle
    <2>2. CASE t = [th[p] EXCEPT !.at = "resume"]
      BY <1>1, <2>2 DEF Task, Step
    <2>3. CASE \E i \in th[p].ids : t = [th[p] EXCEPT !.ids = @ \ {i}]
      BY <1>1, <2>3 DEF Task
    <2> QED BY <1>3, <2>1, <2>2, <2>3
  <1>5. t.at \in Plain
    BY <1>4 DEF Plain, Step
  <1>6. th' \in [Proc -> Task] /\ Moves(p) /\ th'[p] = t
    BY <1>3, <1>4, <1>5, TaskMoves DEF Inv, Returns
  <1>7. rows' \in Seq(RowType) /\ RowsKept /\ NoneCommitted
    <2>1. CASE UNCHANGED rows
      BY <2>1, RowsUntouched, Typed
    <2>2. CASE \E i \in th[p].ids : MarkRow(i, "pending")
      BY <2>2, MarkKept DEF RowState
    <2> QED BY <1>3, <2>1, <2>2
  <1>8. KeepsHolding(p)
    BY <1>1, <1>4, <1>6, StaysHolding DEF dispatcher
  <1> QED BY <1>1, <1>6, <1>7, <1>8, DriveUntouched, Typed, StepInv DEF dispatcher, outside

-----------------------------------------------------------------------------
(* The dispatcher's round.                                                 *)

LEMMA ScanWaitingInv == ASSUME Inv, ScanWaiting PROVE Inv'
  <1>1. Disp \in Proc /\ th[Disp] \in Task /\ UNCHANGED <<store, gen, dispatcher, outside>>
    BY ProcFacts, Typed DEF ScanWaiting
  <1>2. \/ Goto(Disp, "scanActive")
        \/ /\ drive.st = "waiting"
           /\ th' = [th EXCEPT ![Disp].at = "wakeCas", ![Disp].ret = "scanActive",
                               ![Disp].seen = drive]
    BY DEF ScanWaiting
  <1>3. CASE Goto(Disp, "scanActive")
    <2>1. "scanActive" \in Plain
      BY DEF Plain, Step
    <2>2. KeepsHolding(Disp)
      BY <1>1, <1>3, <2>1, GotoMoves, ProcFacts, StaysHolding DEF dispatcher
    <2> QED BY <1>1, <1>3, <2>1, <2>2, GotoMoves, QuietInv, Typed DEF dispatcher
  <1>4. CASE /\ drive.st = "waiting"
             /\ th' = [th EXCEPT ![Disp].at = "wakeCas", ![Disp].ret = "scanActive",
                                 ![Disp].seen = drive]
    <2> DEFINE t == [th[Disp] EXCEPT !.at = "wakeCas", !.ret = "scanActive", !.seen = drive]
    <2>1. t \in Task /\ t.at = "wakeCas" /\ t.ret = "scanActive" /\ t.seen = drive
      BY <1>1, Typed DEF Task, Step
    <2>2. /\ th' \in [Proc -> Task] /\ \A q \in Proc \ {Disp} : th'[q] = th[q]
          /\ th'[Disp] = t
      BY <1>1, <1>4, <2>1, Typed
    <2>3. Moves(Disp)
      BY <1>1, <1>4, <2>1, <2>2 DEF Moves, Terminal, store
    <2>4. KeepsHolding(Disp)
      BY <1>1, <2>1, <2>2, ProcFacts, StaysHolding DEF dispatcher
    <2> QED BY <1>1, <2>2, <2>3, <2>4, QuietInv, Typed DEF dispatcher
  <1> QED BY <1>2, <1>3, <1>4

LEMMA ScanActiveInv == ASSUME Inv, ScanActive PROVE Inv'
  <1>1. Disp \in Proc /\ th[Disp] \in Task /\ UNCHANGED <<store, gen, dispatcher, outside>>
        /\ UNCHANGED drive
    BY ProcFacts, Typed DEF ScanActive, store
  <1>2. PICK t : /\ th' = [th EXCEPT ![Disp] = t]
                 /\ \/ t = [th[Disp] EXCEPT !.at = "claim"]
                    \/ \E step \in {"rearm", "maybe"} :
                          t = [th[Disp] EXCEPT !.seen = drive, !.ret = "claim", !.at = step]
    BY <1>1, Typed DEF ScanActive, Goto
  <1>3. /\ t \in Task /\ t.at \in {"claim", "rearm", "maybe"} /\ t.ret \in {th[Disp].ret, "claim"}
        /\ t.seen = th[Disp].seen \/ t.seen = drive'
    BY <1>1, <1>2, Typed DEF Task, Step
  <1>4. t.at \in Plain
    BY <1>3 DEF Plain, Step
  <1>5. th' \in [Proc -> Task] /\ Moves(Disp) /\ th'[Disp] = t
    BY <1>1, <1>2, <1>3, <1>4, TaskMoves DEF Inv, Returns
  <1>6. KeepsHolding(Disp)
    BY <1>1, <1>3, <1>5, ProcFacts, StaysHolding DEF dispatcher
  <1> QED BY <1>1, <1>5, <1>6, QuietInv, Typed DEF dispatcher

LEMMA ClaimInv == ASSUME Inv, NEW late, Claim(late) PROVE Inv'
  <1> DEFINE S == {i \in RowIds : Claimable(Row(i)) /\ (Row(i).st = "retry_wait" => i \in late)}
  <1>1. Disp \in Proc /\ UNCHANGED <<drive, gen, inflight, consecutive, outside>>
    BY ProcFacts DEF Claim
  <1>2. "prepare" \in Plain /\ Goto(Disp, "prepare")
    BY DEF Plain, Step, Claim
  <1>3. /\ rows' = [i \in RowIds |-> IF i \in S THEN [rows[i] EXCEPT !.st = "claimed"] ELSE rows[i]]
        /\ batch' = [ids |-> S, view |-> Blank, tried |-> {}]
    BY DEF Claim, Row
  <1>4. \A i \in RowIds : /\ [rows[i] EXCEPT !.st = "claimed"] \in RowType
                          /\ [rows[i] EXCEPT !.st = "claimed"].st = "claimed"
                          /\ Key([rows[i] EXCEPT !.st = "claimed"]) = Key(rows[i])
                          /\ [rows[i] EXCEPT !.st = "claimed"].who = rows[i].who
    BY RowsType DEF Inv, RowType, RowState, Key
  <1>5. S \subseteq RowIds
    OBVIOUS
  <1> HIDE DEF S
  <1>6. rows' \in Seq(RowType) /\ RowIds' = RowIds
    <2>1. rows' \in [RowIds -> RowType]
      BY <1>3, <1>4, RowsType DEF Inv
    <2> QED BY <2>1, RowsAgain DEF Inv, RowIds
  <1>7. RowsKept /\ NoneCommitted
    BY <1>3, <1>4, <1>6 DEF RowsKept, NoneCommitted, Committed
  <1>8. batch' \in Round_ /\ batch'.ids = S
    BY <1>3, <1>5, IdleType DEF Round_
  <1>9. KeepsHolding(Disp)
    BY <1>1, <1>2, <1>3, <1>4, <1>5, <1>8, GotoMoves, ProcFacts DEF KeepsHolding
  <1> QED BY <1>1, <1>2, <1>6, <1>7, <1>8, <1>9, GotoMoves, DriveUntouched, Typed, StepInv DEF outside

LEMMA PrepareInv == ASSUME Inv, Prepare PROVE Inv'
  <1>1. Disp \in Proc /\ UNCHANGED <<store, gen, inflight, consecutive, outside>>
    BY ProcFacts DEF Prepare
  <1>2. "consider" \in Plain /\ Goto(Disp, "consider")
    BY DEF Plain, Step, Prepare
  <1>3. batch' \in Round_ /\ batch'.ids = batch.ids
    <2>1. batch' = [batch EXCEPT !.view = drive] /\ batch \in Round_ /\ drive \in RecordType
      BY Typed DEF Prepare
    <2> QED BY <2>1 DEF Round_
  <1>4. KeepsHolding(Disp)
    BY <1>1, <1>2, <1>3, GotoMoves, ProcFacts, StaysHolding
  <1> QED BY <1>1, <1>2, <1>3, <1>4, GotoMoves, RowsUntouched, DriveUntouched, Typed, StepInv
          DEF store, outside

\* While nobody moves, nothing has to be shown of the tasks.
LEMMA StandingStill ==
  ASSUME Inv, NEW p \in Proc, UNCHANGED th
  PROVE  Moves(p)
  BY DEF Inv, Returns, Reads, Moves, At

\* The creatures in a turn keep their rows.
LEMMA TurnsGoOn ==
  ASSUME Inv, RowsKept, NoneCommitted, NEW c \in Creature, th'[Settle(c)] = th[Settle(c)],
         inflight'[c] = inflight[c] \/ At(Settle(c), "idle")
  PROVE  ~At(Settle(c), "idle")' => InTurn(c, th[Settle(c)].row)'
  <1> SUFFICES ASSUME ~At(Settle(c), "idle")
               PROVE  InTurn(c, th[Settle(c)].row)'
    BY DEF At
  <1>1. PICK i : i = th[Settle(c)].row
    OBVIOUS
  <1>2. InTurn(c, i)
    BY <1>1 DEF Inv, Holding
  <1>3. InTurn(c, i)'
    BY <1>2, InTurnKept
  <1> QED BY <1>1, <1>3

LEMMA ConsiderInv == ASSUME Inv, NEW i \in RowIds, Consider(i) PROVE Inv'
  <1> DEFINE c == rows[i].who
             rest == [batch EXCEPT !.ids = @ \ {i}]
  <1>1. /\ Disp \in Proc /\ th[Disp].at = "consider" /\ i \in batch.ids
        /\ UNCHANGED <<drive, gen, outside>>
        /\ c \in Creature
    BY ProcFacts, RowsType DEF Consider, At, Inv, RowType
  <1>2. rest \in Round_ /\ rest.ids = batch.ids \ {i} /\ rest.tried = batch.tried
    BY Typed DEF Round_
  <1>3. CASE MarkRow(i, "superseded") /\ batch' = rest /\ UNCHANGED <<th, inflight, consecutive>>
    <2>1. rows' \in Seq(RowType) /\ RowsKept /\ NoneCommitted
      BY <1>3, MarkKept DEF RowState
    <2>2. KeepsHolding(Disp)
      BY <1>1, <1>2, <1>3, ProcFacts, StaysHolding
    <2> QED BY <1>1, <1>2, <1>3, <2>1, <2>2, StandingStill, DriveUntouched, Typed, StepInv DEF outside
  <1>4. CASE /\ batch' = rest /\ UNCHANGED <<rows, th, inflight>>
             /\ consecutive' = consecutive \/ consecutive' = [consecutive EXCEPT ![c] = 0]
    <2>1. KeepsHolding(Disp)
      BY <1>1, <1>2, <1>4, ProcFacts, StaysHolding
    <2>2. consecutive' \in [Creature -> 0..MaxConsecutive]
      BY <1>4, Typed, PolicyAssumption
    <2> QED BY <1>1, <1>2, <1>4, <2>1, <2>2, StandingStill, RowsUntouched, DriveUntouched, Typed, StepInv
            DEF outside
  <1>5. CASE /\ batch' = rest /\ UNCHANGED <<rows, inflight, consecutive>>
             /\ th' = [th EXCEPT ![Disp].at = "fail", ![Disp].ret = "consider",
                                 ![Disp].row = i, ![Disp].n = rows[i].attempt]
    <2> DEFINE t == [th[Disp] EXCEPT !.at = "fail", !.ret = "consider", !.row = i, !.n = rows[i].attempt]
    <2>1. rows[i].attempt \in Nat /\ th[Disp] \in Task
      BY <1>1, RowsType, Typed DEF Inv, RowType
    <2>2. t \in Task /\ t.at = "fail" /\ t.ret = "consider" /\ t.seen = th[Disp].seen
      BY <2>1 DEF Task, Step
    <2>3. th' = [th EXCEPT ![Disp] = t] /\ t.at \in Plain
      BY <1>5, <2>2 DEF Plain, Step
    <2>4. th' \in [Proc -> Task] /\ Moves(Disp) /\ th'[Disp] = t
      BY <1>1, <2>2, <2>3, TaskMoves
    <2>5. KeepsHolding(Disp)
      BY <1>1, <1>2, <1>5, <2>2, <2>4, ProcFacts, StaysHolding
    <2> QED BY <1>1, <1>2, <1>5, <2>4, <2>5, RowsUntouched, DriveUntouched, Typed, StepInv DEF outside
  <1>6. CASE /\ ~AlreadyAdmitted(i) /\ ~Busy(c)
             /\ batch' = [rest EXCEPT !.tried = @ \cup {c}]
             /\ inflight' = [inflight EXCEPT ![c] = i] /\ UNCHANGED <<rows, consecutive>>
             /\ th' = [th EXCEPT ![Disp].at = "deliver", ![Disp].ret = "consider",
                                 ![Disp].row = i, ![Disp].n = rows[i].attempt]
    <2> DEFINE t == [th[Disp] EXCEPT !.at = "deliver", !.ret = "consider", !.row = i,
                                     !.n = rows[i].attempt]
    <2>1. rows[i].attempt \in Nat /\ th[Disp] \in Task
      BY <1>1, RowsType, Typed DEF Inv, RowType
    <2>2. t \in Task /\ t.at = "deliver" /\ t.ret = "consider" /\ t.seen = th[Disp].seen /\ t.row = i
      BY <2>1 DEF Task, Step
    <2>3. th' = [th EXCEPT ![Disp] = t] /\ t.at \in Plain
      BY <1>6, <2>2 DEF Plain, Step
    <2>4. th' \in [Proc -> Task] /\ Moves(Disp) /\ th'[Disp] = t
      BY <1>1, <2>2, <2>3, TaskMoves
    <2>5. RowsKept /\ NoneCommitted /\ RowIds' = RowIds
      BY <1>6, RowsUntouched
    <2>6. inflight' \in [Creature -> RowIds \cup {0}] /\ inflight'[c] = i
      BY <1>1, <1>6, Typed
    <2>7. batch' \in Round_ /\ batch'.ids = batch.ids \ {i}
      BY <1>1, <1>2, <1>6 DEF Round_
    <2>8. inflight[c] = 0
      BY <1>6 DEF Busy
    <2>9. th[Settle(c)].at = "idle"
      <3>1. ~At(Settle(c), "idle") => th[Settle(c)].row \in RowIds /\ inflight[c] = th[Settle(c)].row
        BY <1>1 DEF Inv, Holding, InTurn
      <3>2. 0 \notin RowIds
        BY RowsType DEF Inv
      <3> QED BY <2>8, <3>1, <3>2 DEF At
    <2>10. \A d \in Creature : th'[Settle(d)] = th[Settle(d)]
      BY <2>3, ProcFacts, Typed
    <2>11. Given(th[Disp].row)'
      <3>1. th'[Disp].row = i
        BY <2>2, <2>4
      <3>2. ~AlreadyAdmitted(i)'
        BY <1>6, <2>5, NoOtherCommitted
      <3>3. Given(i)'
        BY <1>1, <1>6, <2>5, <2>6, <2>7, <2>9, <2>10, <3>2 DEF Given, At, Row
      <3> QED BY <3>1, <3>3
    <2>12. \A d \in Creature : ~At(Settle(d), "idle")' => InTurn(d, th[Settle(d)].row)'
      <3>1. \A d \in Creature : inflight'[d] = inflight[d] \/ At(Settle(d), "idle")
        BY <1>1, <1>6, <2>9, Typed DEF At
      <3> QED BY <2>5, <2>10, <3>1, TurnsGoOn
    <2>13. Holding'
      BY <2>11, <2>12 DEF Holding
    <2> QED BY <1>1, <1>6, <2>4, <2>5, <2>6, <2>7, <2>13, HandingInv, Typed DEF outside
  <1> QED BY <1>3, <1>4, <1>5, <1>6 DEF Consider, Row

\* The row that is being delivered.
LEMMA Delivering ==
  ASSUME Inv, th[Disp].at \in {"deliver", "admit"}, NEW i, i = th[Disp].row
  PROVE  /\ i \in RowIds \ batch.ids /\ rows[i].who \in Creature
         /\ inflight[rows[i].who] = i /\ th[Settle(rows[i].who)].at = "idle"
         /\ ~AlreadyAdmitted(i) /\ Given(i)
  <1>1. Given(i)
    BY DEF Inv, Holding
  <1> QED BY <1>1, RowsType DEF Given, At, Row, Inv, RowType

LEMMA DeliverInv == ASSUME Inv, Deliver PROVE Inv'
  <1>1. PICK i : i = th[Disp].row
    OBVIOUS
  <1> DEFINE c == rows[i].who
  <1>2. /\ Disp \in Proc /\ th[Disp].at = "deliver" /\ UNCHANGED <<store, gen, batch, outside>>
        /\ UNCHANGED rows
    BY ProcFacts DEF Deliver, At, store
  <1>3. /\ i \in RowIds \ batch.ids /\ c \in Creature /\ inflight[c] = i
        /\ th[Settle(c)].at = "idle" /\ ~AlreadyAdmitted(i) /\ Given(i)
    BY <1>1, <1>2, Delivering
  <1>4. RowsKept /\ NoneCommitted /\ RowIds' = RowIds
    BY <1>2, RowsUntouched
  <1>5. PICK step \in {"admit", "defer", "fail"} :
           /\ Goto(Disp, step)
           /\ step = "admit" => UNCHANGED <<inflight, consecutive>>
           /\ step # "admit" => inflight' = [inflight EXCEPT ![c] = 0]
           /\ consecutive' = consecutive \/ consecutive' = [consecutive EXCEPT ![c] = 0]
    BY <1>1 DEF Deliver, Row
  <1>6. step \in Plain
    BY DEF Plain, Step
  <1>7. th' \in [Proc -> Task] /\ Moves(Disp) /\ th'[Disp].at = step /\ th'[Disp].row = i
    BY <1>1, <1>2, <1>5, <1>6, GotoMoves
  <1>8. /\ consecutive' \in [Creature -> 0..MaxConsecutive]
        /\ inflight' \in [Creature -> RowIds \cup {0}]
    BY <1>5, Typed, PolicyAssumption
  <1>9. \A d \in Creature : th'[Settle(d)] = th[Settle(d)]
    BY <1>7, ProcFacts DEF Moves
  <1>10. step = "admit" => Given(th[Disp].row)'
    <2>1. step = "admit" => Given(i)'
      <3>1. ~AlreadyAdmitted(i)'
        BY <1>3, <1>4, NoOtherCommitted
      <3> QED BY <1>2, <1>3, <1>4, <1>5, <1>9, <3>1 DEF Given, At, Row
    <2> QED BY <1>7, <2>1
  <1>11. \A d \in Creature : ~At(Settle(d), "idle")' => InTurn(d, th[Settle(d)].row)'
    <2>1. \A d \in Creature : inflight'[d] = inflight[d] \/ At(Settle(d), "idle")
      BY <1>3, <1>5, Typed DEF At
    <2> QED BY <1>4, <1>9, <2>1, TurnsGoOn
  <1>12. Holding'
    BY <1>5, <1>7, <1>10, <1>11 DEF Holding
  <1> QED BY <1>2, <1>4, <1>7, <1>8, <1>12, HandingInv, Typed DEF store, outside

\* A row whose key has no other commitment may be committed, and the creatures
\* other than its own do not notice.
LEMMA CommitKept ==
  ASSUME Inv, NEW i \in RowIds, ~AlreadyAdmitted(i), RowIds' = RowIds,
         \A j \in RowIds \ {i} : rows'[j] = rows[j],
         Key(rows'[i]) = Key(rows[i]), rows'[i].who = rows[i].who
  PROVE  /\ OneCommitmentPerKey' /\ RowsKept /\ ~AlreadyAdmitted(i)'
         /\ \A j \in RowIds : rows[j].who # rows[i].who /\ ~AlreadyAdmitted(j) => ~AlreadyAdmitted(j)'
  <1>1. RowsKept
    BY DEF RowsKept
  <1>2. ~AlreadyAdmitted(i)'
    BY DEF AlreadyAdmitted, Row
  <1>3. \A j \in RowIds : Key(rows'[j]) = Key(rows[j])
    OBVIOUS
  <1>4. OneCommitmentPerKey'
    <2> SUFFICES ASSUME NEW j \in RowIds, NEW k \in RowIds, j # k,
                        rows'[j].st \in {"admitted", "acknowledged"},
                        rows'[k].st \in {"admitted", "acknowledged"},
                        Key(rows'[j]) = Key(rows'[k])
                 PROVE  FALSE
      BY DEF OneCommitmentPerKey, Row
    <2>1. CASE j = i
      BY <2>1, <1>3 DEF AlreadyAdmitted, Row
    <2>2. CASE k = i
      BY <2>2, <1>3 DEF AlreadyAdmitted, Row
    <2>3. CASE j # i /\ k # i
      BY <2>3, <1>3 DEF Inv, OneCommitmentPerKey, Row
    <2> QED BY <2>1, <2>2, <2>3
  <1>5. ASSUME NEW j \in RowIds, rows[j].who # rows[i].who, ~AlreadyAdmitted(j)
        PROVE  ~AlreadyAdmitted(j)'
    <2>1. Key(rows[i]) # Key(rows[j])
      BY <1>5 DEF Inv, Epochs, Key, Row
    <2> QED BY <1>3, <1>5, <2>1 DEF AlreadyAdmitted, Row
  <1> QED BY <1>1, <1>2, <1>4, <1>5

\* Tasks that begin anew have read nothing.
LEMMA Begun ==
  ASSUME Inv, UNCHANGED drive,
         \A p \in Proc : \/ th'[p] = th[p]
                         \/ /\ th'[p].at \in {"idle", "consider", "turn"}
                            /\ th'[p].ret = "idle" /\ th'[p].seen = Blank
  PROVE  Returns' /\ Reads'
  <1>1. Returns'
    BY DEF Inv, Returns
  <1>2. Blank.rev = 0 /\ drive.rev \in Nat /\ drive.rev > 0
    BY Typed DEF Blank, Inv, Reads, RecordType
  <1>3. ASSUME NEW p \in Proc
        PROVE  /\ th'[p].seen.rev <= drive.rev
               /\ th'[p].seen.rev = drive.rev => th'[p].seen = drive
               /\ th'[p].at \in {"block", "pause", "wakeCas"} => th'[p].seen.st \notin Terminal
    <2>1. CASE th'[p] = th[p]
      BY <2>1 DEF Inv, Reads
    <2>2. CASE /\ th'[p].at \in {"idle", "consider", "turn"} /\ th'[p].seen = Blank
      BY <1>2, <2>2
    <2> QED BY <2>1, <2>2
  <1>4. \A c \in Creature : th'[Rec(c)].at = "recover" => th'[Rec(c)].seen.who = c
    BY ProcFacts DEF Inv, Reads, At
  <1> QED BY <1>1, <1>2, <1>3, <1>4 DEF Reads, At

LEMMA AdmitInv == ASSUME Inv, Admit PROVE Inv'
  <1>1. PICK i : i = th[Disp].row
    OBVIOUS
  <1> DEFINE c == rows[i].who
             t == [Idle EXCEPT !.at = "turn", !.row = i, !.n = th[Disp].n]
  <1>2. /\ Disp \in Proc /\ th[Disp].at = "admit" /\ UNCHANGED <<drive, gen, batch, inflight, outside>>
        /\ th[Disp].n \in Nat
    BY ProcFacts, Typed DEF Admit, At, Task
  <1>3. /\ i \in RowIds \ batch.ids /\ c \in Creature /\ inflight[c] = i
        /\ th[Settle(c)].at = "idle" /\ ~AlreadyAdmitted(i)
    BY <1>1, <1>2, Delivering
  <1>4. MarkRow(i, "admitted") /\ "admitted" \in RowState
    BY <1>1 DEF Admit, RowState
  <1>5. /\ rows' \in Seq(RowType) /\ RowIds' = RowIds
        /\ \A j \in RowIds \ {i} : rows'[j] = rows[j]
        /\ rows'[i] = [rows[i] EXCEPT !.st = "admitted"]
    BY <1>3, <1>4, MarkType DEF Inv
  <1>6. Key(rows'[i]) = Key(rows[i]) /\ rows'[i].who = c /\ rows'[i].st = "admitted"
    BY <1>3, <1>5, RowsType DEF Inv, RowType, Key
  <1>7. /\ OneCommitmentPerKey' /\ RowsKept /\ ~AlreadyAdmitted(i)'
        /\ \A j \in RowIds : rows[j].who # c /\ ~AlreadyAdmitted(j) => ~AlreadyAdmitted(j)'
    BY <1>3, <1>5, <1>6, CommitKept
  <1>8. t \in Task /\ t.at = "turn" /\ t.row = i /\ t.ret = "idle" /\ t.seen = Blank
    BY <1>2, <1>3, IdleType DEF Idle, Task, Step
  <1>9. /\ th' = [th EXCEPT ![Disp] = [Idle EXCEPT !.at = "consider"], ![Settle(c)] = t]
        /\ consecutive' = [consecutive EXCEPT ![c] = IF Yielding(c) THEN @ ELSE @ + 1]
    BY <1>1 DEF Admit, Row
  <1>10. /\ [Idle EXCEPT !.at = "consider"] \in Task
         /\ [Idle EXCEPT !.at = "consider"].at = "consider"
         /\ [Idle EXCEPT !.at = "consider"].ret = "idle"
         /\ [Idle EXCEPT !.at = "consider"].seen = Blank
    BY IdleType DEF Idle, Task, Step
  <1> HIDE DEF t
  <1>11. /\ th' \in [Proc -> Task]
         /\ th'[Disp] = [Idle EXCEPT !.at = "consider"] /\ th'[Settle(c)] = t
         /\ \A q \in Proc \ {Disp, Settle(c)} : th'[q] = th[q]
    BY <1>2, <1>3, <1>8, <1>9, <1>10, ProcFacts, Typed
  <1>12. consecutive' \in [Creature -> 0..MaxConsecutive]
    <2>1. MaxConsecutive \in Nat /\ consecutive[c] \in 0..MaxConsecutive
      BY <1>3, Typed, PolicyAssumption
    <2>2. ~Yielding(c) => consecutive[c] + 1 \in 0..MaxConsecutive
      BY <2>1 DEF Yielding
    <2> QED BY <1>3, <1>9, <2>1, <2>2, Typed
  <1>13. TypeOK'
    BY <1>2, <1>5, <1>11, <1>12, Typed DEF TypeOK, Task, Round_, outside
  <1>14. Returns' /\ Reads'
    BY <1>2, <1>8, <1>10, <1>11, Begun
  <1>15. Epochs'
    BY <1>2, <1>7, <1>13, EpochsKept, DriveUntouched
  <1>16. Batched'
    BY <1>2, <1>3, <1>5, Typed DEF Inv, Batched, Row, Round_
  <1>17. \A d \in Creature : ~At(Settle(d), "idle")' => InTurn(d, th[Settle(d)].row)'
    <2> SUFFICES ASSUME NEW d \in Creature, th'[Settle(d)].at # "idle"
                 PROVE  InTurn(d, th[Settle(d)].row)'
      BY DEF At
    <2>1. CASE d = c
      <3>1. InTurn(d, i)'
        BY <1>2, <1>3, <1>5, <1>6, <1>7, <2>1 DEF InTurn, Row
      <3>2. th'[Settle(d)].row = i
        BY <1>8, <1>11, <2>1
      <3> QED BY <3>1, <3>2
    <2>2. CASE d # c
      <3>1. th'[Settle(d)] = th[Settle(d)]
        BY <1>3, <1>11, <2>2, ProcFacts
      <3>2. PICK j : j = th[Settle(d)].row
        OBVIOUS
      <3>3. j \in RowIds /\ rows[j].who = d /\ inflight[d] = j /\ ~AlreadyAdmitted(j)
        BY <3>1, <3>2 DEF Inv, Holding, InTurn, At, Row
      <3>4. InTurn(d, j)'
        BY <1>2, <1>5, <1>7, <2>2, <3>3 DEF InTurn, Row, RowsKept
      <3> QED BY <3>1, <3>2, <3>4
    <2> QED BY <2>1, <2>2
  <1>18. Holding'
    BY <1>10, <1>11, <1>17 DEF Holding
  <1> QED BY <1>7, <1>13, <1>14, <1>15, <1>16, <1>18 DEF Inv

LEMMA DeferInv == ASSUME Inv, Defer PROVE Inv'
  <1>1. /\ Disp \in Proc /\ th[Disp].at # "idle" /\ Finish(Disp)
        /\ MarkRow(th[Disp].row, "pending") /\ UNCHANGED <<drive, gen, batch, consecutive, outside>>
    BY ProcFacts DEF Defer, At
  <1>2. rows' \in Seq(RowType) /\ RowsKept /\ NoneCommitted
    BY <1>1, MarkKept DEF RowState
  <1> QED BY <1>1, <1>2, FinishMoves, DriveUntouched, Typed, StepInv DEF outside

LEMMA EndRoundInv == ASSUME Inv, EndRound PROVE Inv'
  <1>1. /\ Disp \in Proc /\ th' = [th EXCEPT ![Disp] = Idle]
        /\ UNCHANGED <<store, gen, inflight, consecutive, outside>>
        /\ batch' = [ids |-> {}, view |-> Blank, tried |-> {}]
    BY ProcFacts DEF EndRound
  <1>2. Idle \in Task /\ Idle.at = "idle" /\ Idle.ret = "idle" /\ Idle.seen = Blank /\ "idle" \in Plain
    BY IdleType DEF Idle, Plain, Step
  <1>3. th' \in [Proc -> Task] /\ Moves(Disp) /\ th'[Disp] = Idle
    BY <1>1, <1>2, TaskMoves
  <1>4. batch' \in Round_ /\ batch'.ids \subseteq batch.ids
    BY <1>1, IdleType DEF Round_
  <1>5. KeepsHolding(Disp)
    BY <1>1, <1>2, <1>3, <1>4, ProcFacts, StaysHolding
  <1> QED BY <1>1, <1>3, <1>4, <1>5, RowsUntouched, DriveUntouched, Typed, StepInv DEF store, outside

-----------------------------------------------------------------------------
(* The settlement of a turn.                                               *)

LEMMA TurnEndsInv == ASSUME Inv, NEW c \in Creature, TurnEnds(c) PROVE Inv'
  <1>1. /\ Settle(c) \in Proc /\ Settle(c) # Disp /\ th[Settle(c)].at = "turn"
        /\ UNCHANGED <<store, gen, dispatcher, outside>>
    BY ProcFacts DEF TurnEnds, At
  <1>2. PICK step \in {"ack", "fail", "ackUser", "interrupted"} : Goto(Settle(c), step)
    BY DEF TurnEnds
  <1>3. /\ th' \in [Proc -> Task] /\ \A q \in Proc \ {Settle(c)} : th'[q] = th[q]
        /\ th'[Settle(c)].at = step /\ th'[Settle(c)].ret = th[Settle(c)].ret
        /\ th'[Settle(c)].seen = th[Settle(c)].seen /\ th'[Settle(c)].row = th[Settle(c)].row
    <2>1. PICK p \in Proc : p = Settle(c)
      BY <1>1
    <2>2. th[p] \in Task /\ step \in Step
      BY Typed DEF Step
    <2>3. PICK t : t = [th[p] EXCEPT !.at = step]
      OBVIOUS
    <2>4. /\ t \in Task /\ t.at = step /\ t.ret = th[p].ret
          /\ t.seen = th[p].seen /\ t.row = th[p].row
      BY <2>2, <2>3 DEF Task
    <2>5. th' = [th EXCEPT ![p] = t]
      BY <1>2, <2>1, <2>3 DEF Goto
    <2>6. th' \in [Proc -> Task] /\ th'[p] = t /\ \A q \in Proc \ {p} : th'[q] = th[q]
      BY <2>4, <2>5, Typed
    <2> QED BY <2>1, <2>4, <2>6
  <1>4. Moves(Settle(c))
    BY <1>1, <1>2, <1>3 DEF Moves, Inv, Returns
  <1>5. KeepsHolding(Settle(c))
    BY <1>1, <1>2, <1>3, StaysHolding DEF dispatcher
  <1> QED BY <1>1, <1>3, <1>4, <1>5, QuietInv, Typed DEF dispatcher

LEMMA AcknowledgeInv == ASSUME Inv, NEW p \in Proc, Acknowledge(p) PROVE Inv'
  <1>1. PICK i : i = th[p].row
    OBVIOUS
  <1>2. /\ th[p].at \in {"ack", "ackUser"} /\ UNCHANGED <<drive, gen, dispatcher, outside>>
        /\ rows' = [rows EXCEPT ![i].st = "acknowledged", ![i].acked = TRUE,
                                ![i].byUser = @ \/ At(p, "ackUser")]
        /\ \E step \in {"ackread", "userread"} : Goto(p, step)
    BY <1>1 DEF Acknowledge
  <1>3. PICK c \in Creature : p = Settle(c)
    BY <1>2 DEF Inv, Returns
  <1>4. i \in RowIds /\ rows[i].who = c /\ inflight[c] = i /\ ~AlreadyAdmitted(i)
    BY <1>1, <1>2, <1>3 DEF Inv, Holding, InTurn, At, Row
  <1>5. PICK step \in {"ackread", "userread"} : Goto(p, step)
    BY <1>2
  <1>6. step \in Plain
    BY DEF Plain, Step
  <1>7. th' \in [Proc -> Task] /\ Moves(p) /\ th'[p].at = step /\ th'[p].row = i
    BY <1>1, <1>5, <1>6, GotoMoves
  <1>8. /\ rows' \in Seq(RowType) /\ RowIds' = RowIds
        /\ \A j \in RowIds \ {i} : rows'[j] = rows[j]
        /\ Key(rows'[i]) = Key(rows[i]) /\ rows'[i].who = c /\ rows'[i].st = "acknowledged"
    <2> DEFINE b == rows[i].byUser \/ At(p, "ackUser")
               r == [rows[i] EXCEPT !.st = "acknowledged", !.acked = TRUE, !.byUser = b]
    <2>1. b \in BOOLEAN
      BY <1>4, RowsType DEF Inv, RowType, At
    <2>2. rows' = [rows EXCEPT ![i] = r]
      BY <1>2
    <2> HIDE DEF b
    <2>3. r \in RowType /\ Key(r) = Key(rows[i]) /\ r.who = c /\ r.st = "acknowledged"
      <3>1. rows[i] \in RowType /\ "acknowledged" \in RowState
        BY <1>4, RowsType DEF Inv, RowState
      <3> QED BY <1>4, <2>1, <3>1 DEF RowType, Key
    <2> HIDE DEF r
    <2>4. rows \in [RowIds -> RowType]
      BY RowsType, Typed DEF Inv, RowIds
    <2>5. rows' \in [RowIds -> RowType]
      BY <2>2, <2>3, <2>4
    <2> QED BY <1>4, <2>2, <2>3, <2>4, <2>5, RowsAgain DEF Inv, RowIds
  <1>9. /\ OneCommitmentPerKey' /\ RowsKept /\ ~AlreadyAdmitted(i)'
        /\ \A j \in RowIds : rows[j].who # c /\ ~AlreadyAdmitted(j) => ~AlreadyAdmitted(j)'
    BY <1>4, <1>8, CommitKept
  <1>10. TypeOK'
    BY <1>2, <1>7, <1>8, Typed DEF TypeOK, Task, Round_, dispatcher, outside
  <1>11. Returns'
    BY <1>7 DEF Inv, Returns, Moves
  <1>12. Epochs' /\ Reads'
    BY <1>2, <1>7, <1>9, <1>10, EpochsKept, ReadsKept, DriveUntouched
  <1>13. Batched'
    BY <1>2, <1>8, Typed DEF Inv, Batched, Row, Round_, dispatcher
  <1>14. p # Disp /\ \A q \in Proc \ {p} : th'[q] = th[q]
    BY <1>3, <1>7, ProcFacts DEF Moves
  <1>15. ASSUME th'[Disp].at \in {"deliver", "admit"}
         PROVE  Given(th[Disp].row)'
    <2>1. PICK j : j = th[Disp].row
      OBVIOUS
    <2>2. th'[Disp] = th[Disp]
      BY <1>14, ProcFacts
    <2>3. /\ j \in RowIds \ batch.ids /\ rows[j].who \in Creature
          /\ inflight[rows[j].who] = j /\ th[Settle(rows[j].who)].at = "idle"
          /\ ~AlreadyAdmitted(j)
      BY <1>15, <2>1, <2>2, Delivering
    <2>4. rows[j].who # c
      BY <1>2, <1>3, <2>3
    <2>5. th'[Settle(rows[j].who)].at = "idle" /\ rows'[j].who = rows[j].who
      BY <1>3, <1>9, <1>14, <2>3, <2>4, ProcFacts DEF RowsKept
    <2>6. Given(j)'
      BY <1>2, <1>8, <1>9, <2>3, <2>4, <2>5 DEF Given, At, Row, dispatcher
    <2> QED BY <2>1, <2>2, <2>6
  <1>16. ASSUME NEW d \in Creature, th'[Settle(d)].at # "idle"
         PROVE  InTurn(d, th[Settle(d)].row)'
    <2>1. CASE d = c
      <3>1. InTurn(c, i)'
        BY <1>2, <1>4, <1>8, <1>9 DEF InTurn, Row, dispatcher
      <3> QED BY <1>3, <1>7, <2>1, <3>1
    <2>2. CASE d # c
      <3>1. th'[Settle(d)] = th[Settle(d)]
        BY <1>3, <1>14, <2>2, ProcFacts
      <3>2. PICK j : j = th[Settle(d)].row
        OBVIOUS
      <3>3. j \in RowIds /\ rows[j].who = d /\ inflight[d] = j /\ ~AlreadyAdmitted(j)
        BY <1>16, <3>1, <3>2 DEF Inv, Holding, InTurn, At, Row
      <3>4. InTurn(d, j)'
        BY <1>2, <1>8, <1>9, <2>2, <3>3 DEF InTurn, Row, RowsKept, dispatcher
      <3> QED BY <3>1, <3>2, <3>4
    <2> QED BY <2>1, <2>2
  <1>17. Holding'
    BY <1>15, <1>16 DEF Holding, At
  <1> QED BY <1>9, <1>10, <1>11, <1>12, <1>13, <1>17 DEF Inv

LEMMA AckReadInv == ASSUME Inv, NEW p \in Proc, p # Disp, AckRead(p) PROVE Inv'
  <1>1. th[p].at # "idle" /\ UNCHANGED <<store, gen, dispatcher, outside>> /\ UNCHANGED drive
        /\ ReadAndGoto(p, "rearm")
    BY DEF AckRead, At, store
  <1>2. "rearm" \in Step
    BY DEF Step
  <1>3. /\ th' \in [Proc -> Task] /\ Moves(p)
        /\ th'[p].at = "rearm" /\ th'[p].row = th[p].row
    BY <1>1, <1>2, ReadMoves
  <1>4. KeepsHolding(p)
    BY <1>1, <1>3, StaysHolding DEF dispatcher
  <1> QED BY <1>1, <1>3, <1>4, QuietInv, Typed DEF dispatcher

-----------------------------------------------------------------------------
(* Stopping, starting and reconciling.                                     *)

\* A step of a task that neither delivers nor settles, on the rows as they are.
LEMMA AsideInv ==
  ASSUME Inv, NEW p \in Proc, p # Disp, \A c \in Creature : p # Settle(c),
         NEW t \in Task, th' = [th EXCEPT ![p] = t],
         t.at \in Plain, t.ret = "idle",
         t.seen = th[p].seen \/ t.seen = drive' \/ t.seen = Blank,
         rows' \in Seq(RowType), RowsKept, NoneCommitted,
         drive' \in RecordType, DriveKept, UNCHANGED dispatcher,
         due' \in BOOLEAN, gen' \in Nat, ops' \in 0..MaxOps, up' \in [Creature -> BOOLEAN]
  PROVE  Inv'
  <1>1. th' \in [Proc -> Task] /\ Moves(p)
    BY TaskMoves
  <1>2. KeepsHolding(p)
    BY StaysHolding DEF dispatcher
  <1> QED BY <1>1, <1>2, Typed, StepInv DEF dispatcher

LEMMA ListClaimsInv == ASSUME Inv, NEW c \in Creature, ListClaims(c) PROVE Inv'
  <1>1. /\ StopOf(c) \in Proc /\ StopOf(c) # Disp /\ \A d \in Creature : StopOf(c) # Settle(d)
        /\ th[StopOf(c)] \in Task /\ th[StopOf(c)].ret = "idle"
        /\ UNCHANGED <<store, gen, dispatcher, outside>> /\ UNCHANGED <<rows, drive>>
    BY ProcFacts, Typed DEF ListClaims, Inv, Returns, store
  <1>2. \/ th' = [th EXCEPT ![StopOf(c)] = [th[StopOf(c)] EXCEPT !.at = "release", !.ids = Claims]]
        \/ th' = [th EXCEPT ![StopOf(c)] = Idle]
    BY DEF ListClaims
  <1>3. /\ Claims \subseteq RowIds /\ {"release", "idle"} \subseteq Plain /\ "release" \in Step
        /\ Idle \in Task /\ Idle.at = "idle" /\ Idle.ret = "idle" /\ Idle.seen = Blank
    BY IdleType DEF Claims, Plain, Step, Idle
  <1>4. PICK t \in Task : /\ th' = [th EXCEPT ![StopOf(c)] = t]
                          /\ t.at \in Plain /\ t.ret = "idle"
                          /\ t.seen = th[StopOf(c)].seen \/ t.seen = Blank
    <2> DEFINE r == [th[StopOf(c)] EXCEPT !.at = "release", !.ids = Claims]
    <2>1. r \in Task /\ r.at = "release" /\ r.ret = "idle" /\ r.seen = th[StopOf(c)].seen
      BY <1>1, <1>3 DEF Task
    <2> QED BY <1>2, <1>3, <2>1
  <1> QED BY <1>1, <1>4, AsideInv, RowsUntouched, DriveUntouched, Typed DEF outside

-----------------------------------------------------------------------------
(* The generation that is rebuilt from the rows.                           *)

LEMMA LeastNat ==
  ASSUME NEW T, T \subseteq Nat, T # {}
  PROVE  \E x \in T : \A y \in T : x <= y
  <1>1. OpToRel(<, Nat) = {ss \in Nat \X Nat : ss[1] < ss[2]}
    BY Zenon DEF OpToRel
  <1>2. PICK R : R = {ss \in Nat \X Nat : ss[1] < ss[2]}
    OBVIOUS
  <1>3. IsWellFoundedOn(R, Nat)
    BY <1>1, <1>2, NatLessThanWellFounded
  <1>4. PICK x \in T : \A y \in T : ~(<<y, x>> \in R)
    BY <1>3, WFMin
  <1>5. ASSUME NEW y \in T
        PROVE  x <= y
    <2>1. ~(y < x)
      BY <1>2, <1>4
    <2> QED BY <2>1
  <1> QED BY <1>5

\* By the shortest prefix that would have no greatest element.
LEMMA GreatestOf ==
  ASSUME NEW n \in Nat, n > 0, NEW f \in [1..n -> Nat]
  PROVE  \E k \in 1..n : \A i \in 1..n : f[i] <= f[k]
  <1> DEFINE Tops(m) == {k \in 1..m : \A i \in 1..m : f[i] <= f[k]}
             Bad == {m \in Nat : m > 0 /\ m <= n /\ Tops(m) = {}}
  <1>1. ASSUME Bad # {}
        PROVE  FALSE
    <2>1. PICK m \in Bad : \A y \in Bad : m <= y
      <3> HIDE DEF Tops
      <3> QED BY <1>1, LeastNat
    <2>2. CASE m = 1
      <3>1. 1 \in Tops(1)
        OBVIOUS
      <3> QED BY <2>2, <3>1
    <2>3. CASE m # 1
      <3>1. m - 1 \in Nat /\ m - 1 > 0 /\ m - 1 <= n /\ m - 1 \notin Bad
        <4> HIDE DEF Tops
        <4> QED BY <2>1, <2>3
      <3>2. PICK k : k \in Tops(m - 1)
        <4> HIDE DEF Tops
        <4> QED BY <3>1
      <3>3. k \in 1..m /\ m \in 1..n /\ \A i \in 1..m : i = m \/ i \in 1..(m - 1)
        BY <3>1, <3>2
      <3>4. CASE f[k] <= f[m]
        <4>1. \A i \in 1..m : f[i] <= f[m]
          BY <3>2, <3>3, <3>4
        <4> QED BY <3>3, <4>1
      <3>5. CASE ~(f[k] <= f[m])
        <4>1. \A i \in 1..m : f[i] <= f[k]
          BY <3>2, <3>3, <3>5
        <4> QED BY <3>3, <4>1
      <3> QED BY <3>4, <3>5
    <2> QED BY <2>2, <2>3
  <1>2. n \notin Bad
    <2> HIDE DEF Bad
    <2> QED BY <1>1
  <1>3. PICK k : k \in Tops(n)
    <2> HIDE DEF Tops
    <2> QED BY <1>2
  <1> QED BY <1>3

LEMMA HighestGenerationType ==
  ASSUME TypeOK
  PROVE  HighestGeneration \in Nat
  <1>1. CASE RowIds = {}
    BY <1>1 DEF HighestGeneration
  <1>2. CASE RowIds # {}
    <2>1. PICK n \in Nat : n = Len(rows) /\ RowIds = 1..n
      BY RowsType
    <2>2. n > 0
      BY <1>2, <2>1
    <2>3. PICK f : f = [i \in 1..n |-> rows[i].gen]
      OBVIOUS
    <2>4. f \in [1..n -> Nat]
      BY <2>1, <2>3, RowsType DEF RowType
    <2>5. PICK k \in 1..n : \A i \in 1..n : f[i] <= f[k]
      BY <2>2, <2>4, GreatestOf
    <2>6. \E g \in {Row(i).gen : i \in RowIds} : \A i \in RowIds : Row(i).gen <= g
      BY <2>1, <2>3, <2>5 DEF Row
    <2>7. HighestGeneration \in {Row(i).gen : i \in RowIds}
      BY <1>2, <2>6 DEF HighestGeneration
    <2> QED BY <2>7, RowsType DEF Row, RowType
  <1> QED BY <1>1, <1>2

-----------------------------------------------------------------------------
(* Reconciling a creature's Drive.                                         *)

LEMMA RecFacts ==
  ASSUME Inv, NEW c \in Creature
  PROVE  /\ Rec(c) \in Proc /\ Rec(c) # Disp /\ \A d \in Creature : Rec(c) # Settle(d)
         /\ th[Rec(c)] \in Task /\ th[Rec(c)].ret = "idle"
  BY ProcFacts, Typed DEF Inv, Returns

\* A task of a creature that only goes to another step.
LEMMA AsideGoto ==
  ASSUME Inv, NEW p \in Proc, p # Disp, \A c \in Creature : p # Settle(c),
         NEW step \in Plain, Goto(p, step), UNCHANGED <<store, dispatcher, due>>,
         gen' \in Nat, ops' \in 0..MaxOps, up' \in [Creature -> BOOLEAN]
  PROVE  Inv'
  <1>1. th[p] \in Task /\ th[p].ret = "idle" /\ step \in Step /\ UNCHANGED <<rows, drive>>
    BY Typed DEF Inv, Returns, Plain, store
  <1>2. PICK t : t = [th[p] EXCEPT !.at = step]
    OBVIOUS
  <1>3. t \in Task /\ t.at = step /\ t.ret = "idle" /\ t.seen = th[p].seen
    BY <1>1, <1>2 DEF Task
  <1>4. th' = [th EXCEPT ![p] = t]
    BY <1>2 DEF Goto
  <1> QED BY <1>1, <1>3, <1>4, AsideInv, RowsUntouched, DriveUntouched, Typed

LEMMA RebuildInv == ASSUME Inv, NEW c \in Creature, Rebuild(c) PROVE Inv'
  <1>1. /\ Goto(Rec(c), "look") /\ UNCHANGED <<store, dispatcher, outside>>
        /\ gen' \in {gen, HighestGeneration}
    BY DEF Rebuild, Rebuilt
  <1>2. gen' \in Nat /\ "look" \in Plain
    BY <1>1, HighestGenerationType, Typed DEF Inv, Plain, Step
  <1> QED BY <1>1, <1>2, RecFacts, AsideGoto, Typed DEF outside

LEMMA ResumeInv == ASSUME Inv, NEW c \in Creature, Resume(c) PROVE Inv'
  <1>1. /\ UNCHANGED <<store, gen, dispatcher, outside>>
        /\ \E step \in {"rearmElseMaybe", "maybeElseRearm"} : Goto(Rec(c), step)
    BY DEF Resume
  <1>2. PICK step \in Plain : Goto(Rec(c), step)
    BY <1>1 DEF Plain, Step
  <1> QED BY <1>1, <1>2, RecFacts, AsideGoto, Typed DEF outside

LEMMA TurnsUsedType ==
  ASSUME TypeOK, NEW S
  PROVE  TurnsUsed(S) \in Nat
  <1>1. IsFiniteSet(RowIds)
    BY RowsType, FS_Interval
  <1>2. IsFiniteSet({i \in RowIds \ S : Row(i).st = "acknowledged"})
    BY <1>1, FS_Subset
  <1> QED BY <1>2, FS_CardinalityType DEF TurnsUsed

LEMMA LookInv == ASSUME Inv, NEW c \in Creature, Look(c) PROVE Inv'
  <1> DEFINE U == {i \in RowIds : ClassifyUncertain(Row(i))}
  <1>1. /\ UNCHANGED <<store, gen, dispatcher, outside>> /\ UNCHANGED <<rows, drive>>
        /\ drive \in RecordType
    BY Typed DEF Look, store
  <1>2. PICK t : /\ th' = [th EXCEPT ![Rec(c)] = t]
                 /\ \/ t = Idle
                    \/ /\ drive.who = c
                       /\ t = [Idle EXCEPT
                                 !.at = IF U = {} THEN "release" ELSE "recover",
                                 !.seen = drive,
                                 !.ids = IF U = {} THEN Claims ELSE U,
                                 !.claims = IF U = {} THEN {} ELSE Claims,
                                 !.n = TurnsUsed(U),
                                 !.ok = RecoveryVerdict(U)]
    BY DEF Look
  <1>3. /\ t \in Task /\ t.at \in {"idle", "release", "recover"} /\ t.ret = "idle"
        /\ t.seen = drive \/ t.seen = Blank
        /\ t.at = "recover" => t.seen = drive /\ drive.who = c
    <2>1. CASE t = Idle
      BY <2>1, IdleType DEF Idle
    <2>2. CASE t # Idle
      <3>1. /\ U \subseteq RowIds /\ Claims \subseteq RowIds /\ TurnsUsed(U) \in Nat
            /\ RecoveryVerdict(U) \in BOOLEAN
        BY TurnsUsedType, Typed DEF Inv, Claims, RecoveryVerdict
      <3>2. PICK step, ids, claims, n, ok :
               /\ step \in {"release", "recover"} /\ ids \subseteq RowIds /\ claims \subseteq RowIds
               /\ n \in Nat /\ ok \in BOOLEAN
               /\ t = [Idle EXCEPT !.at = step, !.seen = drive, !.ids = ids, !.claims = claims,
                                   !.n = n, !.ok = ok]
        <4>1. PICK step : step = IF U = {} THEN "release" ELSE "recover"
          OBVIOUS
        <4>2. PICK ids : ids = IF U = {} THEN Claims ELSE U
          OBVIOUS
        <4>3. PICK claims : claims = IF U = {} THEN {} ELSE Claims
          OBVIOUS
        <4>4. t = [Idle EXCEPT !.at = step, !.seen = drive, !.ids = ids, !.claims = claims,
                               !.n = TurnsUsed(U), !.ok = RecoveryVerdict(U)]
          BY <1>2, <2>2, <4>1, <4>2, <4>3
        <4> HIDE DEF U
        <4> QED BY <3>1, <4>1, <4>2, <4>3, <4>4
      <3> HIDE DEF U
      <3>3. step \in Step /\ Idle \in Task /\ Idle.ret = "idle"
        BY <3>2, IdleType DEF Step, Idle
      <3> QED BY <1>1, <1>2, <2>2, <3>2, <3>3 DEF Task
    <2> QED BY <2>1, <2>2
  <1> HIDE DEF U
  <1>4. /\ th' \in [Proc -> Task] /\ th'[Rec(c)] = t
        /\ \A q \in Proc \ {Rec(c)} : th'[q] = th[q]
    BY <1>2, <1>3, RecFacts, Typed
  <1>5. Moves(Rec(c))
    BY <1>1, <1>3, <1>4 DEF Moves
  <1>6. KeepsHolding(Rec(c))
    BY <1>1, RecFacts, StaysHolding DEF dispatcher
  <1> QED BY <1>1, <1>4, <1>5, <1>6, RecFacts, QuietInv, Typed DEF dispatcher

\* Rows whose states change to what is no commitment.
LEMMA RestatedKept ==
  ASSUME Inv, NEW f, DOMAIN f = RowIds, f = [i \in RowIds |-> f[i]],
         \A i \in RowIds : \/ f[i] = rows[i]
                           \/ \E st \in {"pending", "superseded"} : f[i] = [rows[i] EXCEPT !.st = st]
  PROVE  /\ f \in [RowIds -> RowType] /\ f \in Seq(RowType) /\ Len(f) = Len(rows)
         /\ \A i \in RowIds : /\ Key(f[i]) = Key(rows[i]) /\ f[i].who = rows[i].who
                              /\ f[i].st \in {rows[i].st, "pending", "superseded"}
  <1>1. ASSUME NEW i \in RowIds
        PROVE  /\ f[i] \in RowType /\ Key(f[i]) = Key(rows[i]) /\ f[i].who = rows[i].who
               /\ f[i].st \in {rows[i].st, "pending", "superseded"}
    <2>1. rows[i] \in RowType
      BY RowsType DEF Inv
    <2>2. CASE f[i] = rows[i]
      BY <2>1, <2>2
    <2>3. ASSUME NEW st \in {"pending", "superseded"}, f[i] = [rows[i] EXCEPT !.st = st]
          PROVE  /\ f[i] \in RowType /\ Key(f[i]) = Key(rows[i]) /\ f[i].who = rows[i].who
                 /\ f[i].st = st
      BY <2>1, <2>3 DEF RowType, RowState, Key
    <2> QED BY <2>2, <2>3
  <1>2. f \in [RowIds -> RowType]
    BY <1>1
  <1> QED BY <1>1, <1>2, RowsAgain DEF Inv

LEMMA RestatedInv ==
  ASSUME Inv, rows' \in Seq(RowType), Len(rows') = Len(rows),
         \A i \in RowIds : /\ Key(rows'[i]) = Key(rows[i]) /\ rows'[i].who = rows[i].who
                           /\ rows'[i].st \in {rows[i].st, "pending", "superseded"}
  PROVE  RowsKept /\ NoneCommitted
  <1>1. RowIds' = RowIds
    BY RowsType, LenProperties DEF Inv, RowIds
  <1> QED BY <1>1 DEF RowsKept, NoneCommitted, Committed

LEMMA RecoverInv == ASSUME Inv, NEW c \in Creature, Recover(c) PROVE Inv'
  <1> DEFINE p == Rec(c)
             released == [i \in RowIds |-> IF i \in th[p].claims /\ Row(i).st = "claimed"
                                           THEN [Row(i) EXCEPT !.st = "pending"] ELSE Row(i)]
             S == th[p].ids
  <1>1. /\ th[p].at = "recover" /\ th' = [th EXCEPT ![p] = Idle]
        /\ UNCHANGED <<drive, gen, dispatcher, outside>>
        /\ rows' = IF RecoveryAdmitted(p) THEN Recovered(released, S) ELSE released
    BY DEF Recover, At
  <1>2. /\ released \in [RowIds -> RowType] /\ released \in Seq(RowType) /\ Len(released) = Len(rows)
        /\ \A i \in RowIds : /\ Key(released[i]) = Key(rows[i]) /\ released[i].who = rows[i].who
                             /\ released[i].st \in {rows[i].st, "pending", "superseded"}
    <2>1. \A i \in RowIds : \/ released[i] = rows[i]
                            \/ released[i] = [rows[i] EXCEPT !.st = "pending"]
      BY DEF Row
    <2> HIDE DEF released
    <2>2. DOMAIN released = RowIds /\ released = [i \in RowIds |-> released[i]]
      BY DEF released
    <2> QED BY <2>1, <2>2, RestatedKept
  <1> HIDE DEF released, S
  <1>3. rows' \in Seq(RowType) /\ RowsKept /\ NoneCommitted
    <2>1. CASE ~RecoveryAdmitted(p)
      BY <1>1, <1>2, <2>1, RestatedInv
    <2>2. CASE RecoveryAdmitted(p)
      <3>1. drive.who = c
        BY <1>1, <2>2 DEF RecoveryAdmitted, StillJustified, Inv, Reads, At
      <3>2. drive.who # None /\ gen \in Nat
        BY <3>1, CreatureAssumption, Typed
      <3> DEFINE f == Superseding(released, S)
      <3>3. f = [i \in RowIds |-> IF i \in S THEN [released[i] EXCEPT !.st = "superseded"]
                                  ELSE released[i]]
        BY <1>2 DEF Superseding
      <3> HIDE DEF f
      <3>4. ASSUME NEW i \in RowIds
            PROVE  /\ f[i] \in RowType /\ Key(f[i]) = Key(rows[i]) /\ f[i].who = rows[i].who
                   /\ f[i].st \in {rows[i].st, "pending", "superseded"}
        <4>1. released[i] \in RowType /\ "superseded" \in RowState
          BY <1>2 DEF RowState
        <4>2. CASE i \notin S
          BY <1>2, <3>3, <4>1, <4>2
        <4>3. CASE i \in S
          <5>1. f[i] = [released[i] EXCEPT !.st = "superseded"]
            BY <3>3, <4>3
          <5> QED BY <1>2, <4>1, <5>1 DEF RowType, Key
        <4> QED BY <4>2, <4>3
      <3>5. f \in [RowIds -> RowType]
        BY <3>3, <3>4
      <3>6. f \in Seq(RowType) /\ Len(f) = Len(rows) /\ DOMAIN f = RowIds
        BY <3>5, RowsAgain DEF Inv
      <3>7. rows' = Append(f, NewRow(gen, "recovery")) /\ NewRow(gen, "recovery") \in RowType
        BY <1>1, <2>2, <3>2, NewRowType DEF f, Recovered, Inv
      <3>8. /\ rows' \in Seq(RowType) /\ DOMAIN rows' = RowIds \cup {Len(f) + 1}
            /\ \A i \in RowIds : rows'[i] = f[i]
            /\ rows'[Len(f) + 1] = NewRow(gen, "recovery")
        BY <3>6, <3>7, AppendType
      <3>9. RowsKept
        BY <3>4, <3>8 DEF RowsKept, RowIds, NewRow
      <3>10. NoneCommitted
        BY <3>4, <3>8 DEF NoneCommitted, Committed
      <3> QED BY <3>8, <3>9, <3>10
    <2> QED BY <2>1, <2>2
  <1>4. Idle \in Task /\ Idle.at \in Plain /\ Idle.ret = "idle" /\ Idle.seen = Blank
    BY IdleType DEF Idle, Plain, Step
  <1> QED BY <1>1, <1>3, <1>4, RecFacts, AsideInv, DriveUntouched, Typed DEF outside

-----------------------------------------------------------------------------
(* The environment.                                                        *)

LEMMA CtlFacts ==
  ASSUME Inv
  PROVE  /\ Ctl \in Proc /\ Ctl # Disp /\ \A c \in Creature : Ctl # Settle(c)
         /\ th[Ctl] \in Task /\ th[Ctl].ret = "idle"
  BY ProcFacts, Typed DEF Inv, Returns

LEMMA Performed ==
  ASSUME Inv, NEW op, Performs(op)
  PROVE  ops' \in 0..MaxOps
  BY Typed, PolicyAssumption DEF Performs

\* The operator changes what is stored and no task moves.
LEMMA OperatorInv ==
  ASSUME Inv, UNCHANGED <<th, dispatcher, gen, due, up>>,
         rows' \in Seq(RowType), RowsKept, NoneCommitted,
         drive' \in RecordType, DriveKept, ops' \in 0..MaxOps
  PROVE  Inv'
  <1>1. Moves(Ctl) /\ KeepsHolding(Ctl)
    BY CtlFacts, StandingStill, StaysHolding DEF dispatcher
  <1> QED BY <1>1, CtlFacts, Typed, StepInv DEF dispatcher

LEMMA UpdateDriveInv == ASSUME Inv, UpdateDrive PROVE Inv'
  <1>1. /\ drive' = [drive EXCEPT !.rev = @ + 1] /\ drive \in RecordType
        /\ UNCHANGED <<rows, gen, th, dispatcher, due, up>> /\ ops' \in 0..MaxOps
    BY Typed, Performed DEF UpdateDrive
  <1>2. drive' \in RecordType /\ DriveKept
    BY <1>1 DEF RecordType, DriveKept
  <1> QED BY <1>1, <1>2, RowsUntouched, OperatorInv, Typed

LEMMA ReassignKept ==
  ASSUME Inv, NEW c \in Creature \cup {None}, Reassign(c)
  PROVE  /\ drive' \in RecordType /\ DriveKept
         /\ rows' \in Seq(RowType) /\ RowsKept /\ NoneCommitted
  <1>1. /\ drive' = [drive EXCEPT !.rev = @ + 1, !.epoch = @ + 1, !.who = c]
        /\ drive \in RecordType
    BY Typed DEF Reassign
  <1>2. drive' \in RecordType /\ DriveKept
    <2>1. PICK r \in Nat, e \in Nat : r = drive.rev + 1 /\ e = drive.epoch + 1
      BY <1>1 DEF RecordType
    <2>2. drive' = [drive EXCEPT !.rev = r, !.epoch = e, !.who = c]
      BY <1>1, <2>1
    <2>3. drive' \in RecordType /\ drive'.rev = r /\ drive'.epoch = e
      BY <1>1, <2>2 DEF RecordType
    <2> QED BY <1>1, <2>1, <2>3 DEF RecordType, DriveKept
  <1> DEFINE S == {i \in RowIds : Pending(Row(i))}
  <1>3. /\ rows' = Superseding(rows, S)
    BY DEF Reassign
  <1> HIDE DEF S
  <1>4. rows' = [i \in RowIds |-> IF i \in S THEN [rows[i] EXCEPT !.st = "superseded"] ELSE rows[i]]
    BY <1>3 DEF Superseding, RowIds
  <1>5. \A i \in RowIds : rows'[i] = rows[i] \/ rows'[i] = [rows[i] EXCEPT !.st = "superseded"]
    BY <1>4
  <1>6. DOMAIN rows' = RowIds /\ rows' = [i \in RowIds |-> rows'[i]]
    BY <1>4
  <1>7. /\ rows' \in Seq(RowType) /\ Len(rows') = Len(rows)
        /\ \A i \in RowIds : /\ Key(rows'[i]) = Key(rows[i]) /\ rows'[i].who = rows[i].who
                             /\ rows'[i].st \in {rows[i].st, "pending", "superseded"}
    BY <1>5, <1>6, RestatedKept
  <1> QED BY <1>2, <1>7, RestatedInv

LEMMA AssignInv == ASSUME Inv, NEW c \in Creature, Assign(c) PROVE Inv'
  <1>1. /\ Reassign(c) /\ UNCHANGED <<gen, dispatcher, due, up>> /\ ops' \in 0..MaxOps
        /\ th' = [th EXCEPT ![Ctl].at = "maybe", ![Ctl].seen = drive']
    BY Performed DEF Assign, Reassign
  <1>2. /\ drive' \in RecordType /\ DriveKept
        /\ rows' \in Seq(RowType) /\ RowsKept /\ NoneCommitted
    BY <1>1, ReassignKept
  <1>3. PICK t : t = [th[Ctl] EXCEPT !.at = "maybe", !.seen = drive']
    OBVIOUS
  <1>4. th' = [th EXCEPT ![Ctl] = t]
    BY <1>1, <1>3
  <1>5. "maybe" \in Step /\ "maybe" \in Plain
    BY DEF Plain, Step
  <1>6. t \in Task /\ t.at = "maybe" /\ t.ret = "idle" /\ t.seen = drive'
    BY <1>2, <1>3, <1>5, CtlFacts DEF Task
  <1>7. gen' \in Nat /\ due' \in BOOLEAN /\ up' \in [Creature -> BOOLEAN]
    BY <1>1, Typed
  <1>8. th' \in [Proc -> Task] /\ Moves(Ctl)
    <2>1. /\ th' \in [Proc -> Task] /\ th'[Ctl] = t
          /\ \A q \in Proc \ {Ctl} : th'[q] = th[q]
      BY <1>4, <1>6, CtlFacts, Typed
    <2> QED BY <1>6, <2>1 DEF Moves
  <1>9. KeepsHolding(Ctl)
    BY <1>1, CtlFacts, StaysHolding DEF dispatcher
  <1> QED BY <1>1, <1>2, <1>7, <1>8, <1>9, CtlFacts, Typed, StepInv DEF dispatcher

LEMMA UnassignInv == ASSUME Inv, Unassign PROVE Inv'
  <1>1. Reassign(None) /\ UNCHANGED <<th, gen, dispatcher, due, up>> /\ ops' \in 0..MaxOps
    BY Performed DEF Unassign, Reassign
  <1> QED BY <1>1, ReassignKept, OperatorInv

LEMMA TransitionInv == ASSUME Inv, NEW st \in Status, Transition(st) PROVE Inv'
  <1>1. /\ TransitionTo(st) /\ ops' \in 0..MaxOps
        /\ UNCHANGED <<rows, gen, dispatcher, due, up>>
        /\ \/ UNCHANGED th
           \/ th' = [th EXCEPT ![Ctl].at = "wakegen", ![Ctl].seen = drive']
    BY Performed DEF Transition
  <1>2. drive' \in RecordType /\ DriveKept
    BY <1>1, TransitionKept
  <1>3. rows' \in Seq(RowType) /\ RowsKept /\ NoneCommitted
    BY <1>1, RowsUntouched, Typed
  <1>4. CASE UNCHANGED th
    BY <1>1, <1>2, <1>3, <1>4, OperatorInv
  <1>5. CASE th' = [th EXCEPT ![Ctl].at = "wakegen", ![Ctl].seen = drive']
    <2>1. PICK t : t = [th[Ctl] EXCEPT !.at = "wakegen", !.seen = drive']
      OBVIOUS
    <2>2. th' = [th EXCEPT ![Ctl] = t]
      BY <1>5, <2>1
    <2>3. "wakegen" \in Step /\ "wakegen" \in Plain
      BY DEF Plain, Step
    <2>4. t \in Task /\ t.at = "wakegen" /\ t.ret = "idle" /\ t.seen = drive'
      BY <1>2, <2>1, <2>3, CtlFacts DEF Task
    <2>5. gen' \in Nat /\ due' \in BOOLEAN /\ up' \in [Creature -> BOOLEAN]
      BY <1>1, Typed
    <2>6. th' \in [Proc -> Task] /\ Moves(Ctl)
      <3>1. /\ th' \in [Proc -> Task] /\ th'[Ctl] = t
            /\ \A q \in Proc \ {Ctl} : th'[q] = th[q]
        BY <2>2, <2>4, CtlFacts, Typed
      <3> QED BY <2>4, <3>1 DEF Moves
    <2>7. KeepsHolding(Ctl)
      BY <1>1, CtlFacts, StaysHolding DEF dispatcher
    <2> QED BY <1>1, <1>2, <1>3, <2>5, <2>6, <2>7, CtlFacts, Typed, StepInv DEF dispatcher
  <1> QED BY <1>1, <1>4, <1>5

LEMMA WakeDriveInv == ASSUME Inv, WakeDrive PROVE Inv'
  <1>1. /\ UNCHANGED <<store, gen, dispatcher, due, up>> /\ ops' \in 0..MaxOps
        /\ UNCHANGED <<rows, drive>>
    BY Performed DEF WakeDrive, store
  <1>2. PICK step \in {"wakeCas", "wakegenManual"} :
           /\ ReadAndGoto(Ctl, step)
           /\ step = "wakeCas" => drive.st = "waiting"
    BY DEF WakeDrive
  <1>3. /\ step \in Step \ {"ack", "ackUser", "recover"}
        /\ step \in {"block", "pause", "wakeCas"} => drive.st \notin Terminal
    BY <1>2 DEF Step, Terminal
  <1>4. /\ th' \in [Proc -> Task] /\ Moves(Ctl)
    BY <1>1, <1>2, <1>3, ReadMoves, CtlFacts
  <1>5. KeepsHolding(Ctl)
    BY <1>1, CtlFacts, StaysHolding DEF dispatcher
  <1> QED BY <1>1, <1>4, <1>5, CtlFacts, RowsUntouched, DriveUntouched, Typed, StepInv DEF dispatcher

LEMMA ReplayDeadLetterInv == ASSUME Inv, ReplayDeadLetter PROVE Inv'
  <1>1. /\ drive.who # None /\ rows' = Append(rows, NewRow(gen, "retry"))
        /\ UNCHANGED <<drive, gen, th, dispatcher, due, up>> /\ ops' \in 0..MaxOps
    BY Performed DEF ReplayDeadLetter
  <1> QED BY <1>1, AppendKept, DriveUntouched, OperatorInv, Typed

LEMMA StopCreatureInv == ASSUME Inv, NEW c \in Creature, StopCreature(c) PROVE Inv'
  <1>1. /\ Goto(StopOf(c), "list") /\ UNCHANGED <<store, gen, dispatcher, due>>
        /\ ops' \in 0..MaxOps /\ up' = [up EXCEPT ![c] = FALSE]
    BY Performed DEF StopCreature
  <1>2. up' \in [Creature -> BOOLEAN] /\ "list" \in Plain
    BY <1>1, Typed DEF Plain, Step
  <1> QED BY <1>1, <1>2, ProcFacts, AsideGoto, Typed

LEMMA StartCreatureInv == ASSUME Inv, NEW c \in Creature, StartCreature(c) PROVE Inv'
  <1>1. /\ UNCHANGED <<store, gen, dispatcher, due, ops>> /\ up' = [up EXCEPT ![c] = TRUE]
        /\ Goto(Rec(c), "rebuild") \/ UNCHANGED th
    BY DEF StartCreature
  <1>2. up' \in [Creature -> BOOLEAN] /\ "rebuild" \in Plain
    BY <1>1, Typed DEF Plain, Step
  <1>3. CASE Goto(Rec(c), "rebuild")
    BY <1>1, <1>2, <1>3, RecFacts, AsideGoto, Typed
  <1>4. CASE UNCHANGED th
    <2>1. Moves(Ctl) /\ KeepsHolding(Ctl)
      BY <1>1, <1>4, CtlFacts, StandingStill, StaysHolding DEF dispatcher
    <2> QED BY <1>1, <1>2, <1>4, <2>1, CtlFacts, RowsUntouched, DriveUntouched, Typed, StepInv
            DEF dispatcher, store
  <1> QED BY <1>1, <1>3, <1>4

LEMMA CrashInv == ASSUME Inv, Crash PROVE Inv'
  <1>1. /\ th' = [p \in Proc |-> Idle] /\ batch' = [ids |-> {}, view |-> Blank, tried |-> {}]
        /\ inflight' = [c \in Creature |-> 0] /\ consecutive' = [c \in Creature |-> 0]
        /\ up' = [c \in Creature |-> FALSE] /\ gen' = HighestGeneration
        /\ UNCHANGED <<rows, drive, due>> /\ ops' \in 0..MaxOps
    BY Performed DEF Crash, store
  <1>2. RowsKept /\ NoneCommitted /\ RowIds' = RowIds /\ DriveKept
    BY <1>1, RowsUntouched, DriveUntouched
  <1>3. Idle \in Task /\ Idle.at = "idle" /\ Idle.ret = "idle" /\ Idle.seen = Blank
    BY IdleType DEF Idle
  <1>4. \A p \in Proc : th'[p] = Idle
    BY <1>1
  <1>5. TypeOK'
    <2>1. th' \in [Proc -> Task] /\ batch' \in Round_
      BY <1>1, <1>3, IdleType DEF Round_
    <2>2. inflight' \in [Creature -> RowIds \cup {0}]
      BY <1>1
    <2>3. consecutive' \in [Creature -> 0..MaxConsecutive] /\ up' \in [Creature -> BOOLEAN]
      BY <1>1, PolicyAssumption
    <2>4. gen' \in Nat
      BY <1>1, HighestGenerationType DEF Inv
    <2> QED BY <1>1, <1>2, <2>1, <2>2, <2>3, <2>4, Typed DEF TypeOK, Task, Round_
  <1>6. Returns' /\ Reads'
    BY <1>1, <1>3, <1>4, Begun
  <1>7. Holding'
    BY <1>3, <1>4, ProcFacts DEF Holding, At
  <1>8. Batched'
    BY <1>1 DEF Batched
  <1> QED BY <1>2, <1>5, <1>6, <1>7, <1>8, EpochsKept, CommitmentsKept DEF Inv

LEMMA BecomesDueInv == ASSUME Inv, BecomesDue PROVE Inv'
  <1>1. due' = TRUE /\ UNCHANGED <<store, gen, th, dispatcher, up, ops>>
    BY DEF BecomesDue
  <1>2. Moves(Ctl) /\ KeepsHolding(Ctl)
    BY <1>1, CtlFacts, StandingStill, StaysHolding DEF dispatcher
  <1> QED BY <1>1, <1>2, CtlFacts, RowsUntouched, DriveUntouched, Typed, StepInv DEF dispatcher, store

-----------------------------------------------------------------------------
(* The invariant.                                                          *)

LEMMA InitInv == ASSUME Init PROVE Inv
  <1>1. /\ rows = <<>> /\ RowIds = {} /\ drive \in RecordType /\ drive.rev = 1 /\ drive.epoch = 0
        /\ due \in BOOLEAN /\ gen = 0 /\ ops = 0
        /\ batch = [ids |-> {}, view |-> Blank, tried |-> {}]
        /\ inflight = [c \in Creature |-> 0] /\ consecutive = [c \in Creature |-> 0]
        /\ up = [c \in Creature |-> TRUE]
    BY PolicyAssumption DEF Init, RowIds, RecordType, Status
  <1>2. PICK t : t = [Idle EXCEPT !.at = "maybe", !.seen = drive]
    OBVIOUS
  <1>3. /\ \A p \in Proc : th[p] = IF p = Ctl THEN t ELSE Idle
        /\ th = [p \in Proc |-> th[p]]
    BY <1>2 DEF Init
  <1>4. /\ Idle \in Task /\ Idle.at = "idle" /\ Idle.ret = "idle" /\ Idle.seen = Blank
        /\ "maybe" \in Step /\ Blank.rev = 0
    BY IdleType DEF Idle, Step, Blank
  <1>5. t \in Task /\ t.at = "maybe" /\ t.ret = "idle" /\ t.seen = drive
    BY <1>1, <1>2, <1>4 DEF Task
  <1>6. TypeOK
    <2>1. th \in [Proc -> Task] /\ batch \in Round_ /\ inflight \in [Creature -> RowIds \cup {0}]
      BY <1>1, <1>3, <1>4, <1>5, IdleType DEF Round_
    <2>2. consecutive \in [Creature -> 0..MaxConsecutive] /\ up \in [Creature -> BOOLEAN]
          /\ ops \in 0..MaxOps /\ gen \in Nat
      BY <1>1, PolicyAssumption
    <2>3. rows \in Seq(RowType)
      BY <1>1
    <2> QED BY <1>1, <2>1, <2>2, <2>3 DEF TypeOK, Task, Round_
  <1>7. Returns
    BY <1>3, <1>4, <1>5 DEF Returns
  <1>8. Reads
    BY <1>1, <1>3, <1>4, <1>5, ProcFacts DEF Reads, At
  <1>9. Holding
    BY <1>3, <1>4, ProcFacts DEF Holding, At
  <1> QED BY <1>1, <1>6, <1>7, <1>8, <1>9 DEF Inv, Epochs, Batched, OneCommitmentPerKey

LEMMA NextInv == ASSUME Inv, [Next]_vars PROVE Inv'
  <1>1. ASSUME NEW p \in Proc, Procedure(p)
        PROVE  Inv'
    BY <1>1, EnsureWakeGenerationInv, MaybeEnqueueInv, EnqueueInv, ReevaluateReadinessInv,
       AdvanceInv, OnFailureInv, ReadToSuspendInv, SuspendInv, WakeCasInv, ReleaseInv DEF Procedure
  <1>2. CASE Round
    BY <1>2, ScanWaitingInv, ScanActiveInv, ClaimInv, PrepareInv, ConsiderInv, DeliverInv,
       AdmitInv, DeferInv, EndRoundInv DEF Round
  <1>3. ASSUME NEW c \in Creature, Settling(c)
        PROVE  Inv'
    BY <1>3, ProcFacts, TurnEndsInv, AcknowledgeInv, AckReadInv DEF Settling
  <1>4. ASSUME NEW c \in Creature, Lifecycle(c)
        PROVE  Inv'
    BY <1>4, ListClaimsInv, RebuildInv, LookInv, RecoverInv, ResumeInv DEF Lifecycle
  <1>5. CASE Environment
    BY <1>5, UpdateDriveInv, UnassignInv, WakeDriveInv, ReplayDeadLetterInv, CrashInv, BecomesDueInv,
       AssignInv, StopCreatureInv, StartCreatureInv, TransitionInv DEF Environment
  <1>6. CASE UNCHANGED vars
    <2>1. UNCHANGED <<th, dispatcher, gen, due, up, rows, drive, ops>>
      BY <1>6 DEF vars, dispatcher
    <2> QED BY <2>1, RowsUntouched, DriveUntouched, Typed, OperatorInv
  <1> QED BY <1>1, <1>2, <1>3, <1>4, <1>5, <1>6 DEF Next

\* The inductive invariant holds of every behaviour.
THEOREM Invariance == Spec => []Inv
  BY InitInv, NextInv, PTL DEF Spec

\* Every variable keeps its type, and no task holds a row that the repository
\* does not have, for any creatures, policies and operations.
THEOREM TypeCorrect == Spec => []TypeOK
  <1>1. Inv => TypeOK
    BY DEF Inv
  <1> QED BY <1>1, Invariance, PTL

\* Of the rows with one epoch, revision and generation at most one is ever
\* admitted or acknowledged (delivery.py, _already_admitted).
THEOREM DeliversOnce == Spec => []OneCommitmentPerKey
  <1>1. Inv => OneCommitmentPerKey
    BY DEF Inv
  <1> QED BY <1>1, Invariance, PTL

\* A creature is in one Drive turn at a time, and is marked as busy with its row
\* until the settlement of the turn has finished (delivery.py, _inflight).
THEOREM OneTurnAtATime == Spec => []NoOverlappingTurns
  <1>1. Inv => NoOverlappingTurns
    <2> SUFFICES ASSUME Inv PROVE NoOverlappingTurns
      OBVIOUS
    <2>1. At(Disp, "admit") => At(Settle(Row(th[Disp].row).who), "idle")
      BY DEF Inv, Holding, Given, At
    <2>2. \A c \in Creature : ~At(Settle(c), "idle") => inflight[c] = th[Settle(c)].row
      BY DEF Inv, Holding, InTurn
    <2> QED BY <2>1, <2>2 DEF NoOverlappingTurns
  <1> QED BY <1>1, Invariance, PTL

-----------------------------------------------------------------------------
(* A terminal status is left for retirement only.                          *)

LEMMA OpenWhenCurrent ==
  ASSUME Inv, NEW p \in Proc, th[p].at \in {"block", "pause", "wakeCas"}, Current(th[p].seen)
  PROVE  drive.st \notin Terminal
  BY DEF Inv, Reads, Current

LEMMA StaysEnded ==
  ASSUME Inv, [Next]_vars, drive.st \in Terminal
  PROVE  drive'.st \in {drive.st, "retired"}
  <1>1. ASSUME NEW p \in Proc, Procedure(p)
        PROVE  UNCHANGED drive
    <2>1. Suspend(p) => UNCHANGED drive
      BY OpenWhenCurrent DEF Suspend
    <2>2. WakeCas(p) => UNCHANGED drive
      BY OpenWhenCurrent DEF WakeCas, At
    <2> QED BY <1>1, <2>1, <2>2
            DEF Procedure, EnsureWakeGeneration, MaybeEnqueue, Enqueue, ReevaluateReadiness, Advance,
                OnFailure, ReadToSuspend, Release, store
  <1>2. CASE Round
    BY <1>2 DEF Round, ScanWaiting, ScanActive, Claim, Prepare, Consider, Deliver, Admit, Defer,
                EndRound, store
  <1>3. ASSUME NEW c \in Creature, Settling(c) \/ Lifecycle(c)
        PROVE  UNCHANGED drive
    BY <1>3 DEF Settling, TurnEnds, Acknowledge, AckRead, Lifecycle, ListClaims, Rebuild, Look,
                Recover, Resume, store
  <1>4. CASE Environment
    <2>1. drive \in RecordType
      BY Typed
    <2>2. ASSUME NEW st \in Status, Transition(st)
          PROVE  drive'.st = "retired"
      <3>1. <<drive.st, st>> \in GenericTransitions /\ drive'.st = st
        BY <2>1, <2>2 DEF Transition, TransitionTo, RecordType
      <3> QED BY <3>1 DEF GenericTransitions, Terminal
    <2>3. ASSUME NEW c, Reassign(c)
          PROVE  drive'.st = drive.st
      BY <2>1, <2>3 DEF Reassign, RecordType
    <2>4. UpdateDrive => drive'.st = drive.st
      BY <2>1 DEF UpdateDrive, RecordType
    <2> QED BY <1>4, <2>2, <2>3, <2>4
            DEF Environment, Unassign, Assign, WakeDrive, ReplayDeadLetter, Crash, BecomesDue,
                StopCreature, StartCreature, store
  <1> QED BY <1>1, <1>2, <1>3, <1>4 DEF Next, vars

\* No write that a task decided on from an older record reopens a Drive that is
\* completed, failed, cancelled or retired (policy.py, GENERIC_TRANSITIONS).
THEOREM EndedDrivesStayEnded == Spec => TerminalStays
  <1>1. Inv /\ [Next]_vars => (drive.st \in Terminal => drive'.st \in {drive.st, "retired"})
    BY StaysEnded
  <1> QED BY <1>1, Invariance, PTL DEF Spec, TerminalStays

-----------------------------------------------------------------------------
(* What was admitted is superseded only by its recovery.                   *)

Replaced(i) == /\ ~Row(i).acked
               /\ Len(rows') = Len(rows) + 1
               /\ rows'[Len(rows')].reason = "recovery"
Superseded(i) == Row(i).st = "admitted" /\ rows'[i].st = "superseded"

LEMMA MarkSupersedes ==
  ASSUME Inv, NEW i \in RowIds, NEW j, NEW st \in RowState, MarkRow(j, st), Superseded(i)
  PROVE  j = i /\ st = "superseded" /\ rows[j].st = "admitted"
  <1>1. rows'[i] = IF i = j THEN [rows[i] EXCEPT !.st = st] ELSE rows[i]
    BY MarkType DEF Inv
  <1> QED BY <1>1, RowsType DEF Superseded, Row, Inv, RowType

LEMMA AppendSupersedes ==
  ASSUME Inv, drive.who # None, NEW g \in Nat, NEW reason \in {"ready", "retry", "recovery"},
         rows' = Append(rows, NewRow(g, reason)), NEW i \in RowIds
  PROVE  ~Superseded(i)
  <1>1. rows'[i] = rows[i]
    BY Typed, NewRowType, AppendType DEF Inv, RowIds
  <1> QED BY <1>1 DEF Superseded, Row

LEMMA ProcedureSupersedes ==
  ASSUME Inv, NEW p \in Proc, Procedure(p), NEW i \in RowIds
  PROVE  ~Superseded(i)
  <1>1. CASE UNCHANGED rows
    BY <1>1 DEF Superseded, Row
  <1>2. ASSUME NEW g \in Nat, WriteRow(p, g)
        PROVE  ~Superseded(i)
    BY <1>1, <1>2, AppendSupersedes DEF WriteRow
  <1>3. CASE OnFailure(p)
    <2>1. CASE MarkRow(th[p].row, "dead_letter")
      BY <2>1, MarkSupersedes DEF RowState
    <2>2. ASSUME NEW j, NEW n,
                 rows' = [rows EXCEPT ![j].st = "retry_wait", ![j].attempt = n]
          PROVE  ~Superseded(i)
      <3>1. /\ i \in DOMAIN rows
            /\ rows[i] \in RowType
        BY RowsType DEF Inv, RowIds
      <3>2. rows'[i] = IF i = j THEN [rows[i] EXCEPT !.st = "retry_wait", !.attempt = n] ELSE rows[i]
        BY <2>2, <3>1
      <3>3. rows'[i] = rows[i] \/ rows'[i].st = "retry_wait"
        BY <3>1, <3>2 DEF RowType
      <3> QED BY <3>3 DEF Superseded, Row
    <2> QED BY <1>3, <2>1, <2>2 DEF OnFailure
  <1>4. CASE Release(p)
    <2>1. ASSUME NEW j, MarkRow(j, "pending")
          PROVE  ~Superseded(i)
      BY <2>1, MarkSupersedes DEF RowState
    <2> QED BY <1>1, <1>4, <2>1 DEF Release
  <1>5. CASE Enqueue(p)
    BY <1>2, <1>5, Typed DEF Enqueue
  <1>6. CASE Advance(p)
    <2>1. th[p].n + 1 \in Nat
      BY Typed DEF Task
    <2> QED BY <1>2, <1>6, <2>1 DEF Advance
  <1> QED BY <1>1, <1>3, <1>4, <1>5, <1>6
          DEF Procedure, EnsureWakeGeneration, MaybeEnqueue, ReevaluateReadiness, ReadToSuspend,
              Suspend, WakeCas, store

LEMMA RoundSupersedes ==
  ASSUME Inv, Round, NEW i \in RowIds
  PROVE  ~Superseded(i)
  <1>1. CASE UNCHANGED rows
    BY <1>1 DEF Superseded, Row
  <1>2. ASSUME NEW late, Claim(late)
        PROVE  ~Superseded(i)
    <2>1. rows[i] \in RowType
      BY RowsType DEF Inv
    <2>2. rows'[i] = rows[i] \/ rows'[i] = [rows[i] EXCEPT !.st = "claimed"]
      BY <1>2 DEF Claim, Row
    <2> QED BY <2>1, <2>2 DEF Superseded, Row, RowType
  <1>3. ASSUME NEW j \in RowIds, Consider(j)
        PROVE  ~Superseded(i)
    <2>1. rows[j].st # "admitted" /\ (UNCHANGED rows \/ MarkRow(j, "superseded"))
      BY <1>3 DEF Consider, Inv, Batched, Row
    <2> QED BY <1>1, <2>1, MarkSupersedes DEF RowState
  <1>4. CASE Admit \/ Defer
    <2>1. \E st \in {"admitted", "pending"} : MarkRow(th[Disp].row, st)
      BY <1>4 DEF Admit, Defer
    <2> QED BY <2>1, MarkSupersedes DEF RowState
  <1> QED BY <1>1, <1>2, <1>3, <1>4
          DEF Round, ScanWaiting, ScanActive, Prepare, Deliver, EndRound, store

LEMMA RecoverSupersedes ==
  ASSUME Inv, NEW c \in Creature, Recover(c), NEW i \in RowIds, Superseded(i)
  PROVE  Replaced(i)
  <1> DEFINE p == Rec(c)
             released == [j \in RowIds |-> IF j \in th[p].claims /\ Row(j).st = "claimed"
                                           THEN [Row(j) EXCEPT !.st = "pending"] ELSE Row(j)]
             S == th[p].ids
  <1>1. /\ th[p].at = "recover" /\ UNCHANGED <<drive, gen>>
        /\ rows' = IF RecoveryAdmitted(p) THEN Recovered(released, S) ELSE released
    BY DEF Recover, At
  <1>2. /\ DOMAIN released = RowIds /\ rows[i].st = "admitted" /\ released[i] = rows[i]
    BY DEF Superseded, Row
  <1>3. released \in [RowIds -> RowType]
    <2>1. \A j \in RowIds : [rows[j] EXCEPT !.st = "pending"] \in RowType /\ rows[j] \in RowType
      BY RowsType DEF Inv, RowType, RowState
    <2> QED BY <2>1 DEF Row
  <1> HIDE DEF released, S
  <1>4. RecoveryAdmitted(p)
    BY <1>1, <1>2 DEF Superseded
  <1>5. drive.who # None /\ gen \in Nat
    BY <1>1, <1>4, CreatureAssumption, Typed DEF RecoveryAdmitted, StillJustified, Inv, Reads, At
  <1> DEFINE f == Superseding(released, S)
  <1>6. f = [j \in RowIds |-> IF j \in S THEN [released[j] EXCEPT !.st = "superseded"]
                                         ELSE released[j]]
    BY <1>2 DEF Superseding
  <1> HIDE DEF f
  <1>7. f \in [RowIds -> RowType]
    <2>1. \A j \in RowIds : [released[j] EXCEPT !.st = "superseded"] \in RowType
      BY <1>3 DEF RowType, RowState
    <2> QED BY <1>3, <1>6, <2>1
  <1>8. f \in Seq(RowType) /\ Len(f) = Len(rows) /\ DOMAIN f = RowIds
    BY <1>7, RowsAgain DEF Inv
  <1>9. rows' = Append(f, NewRow(gen, "recovery")) /\ NewRow(gen, "recovery") \in RowType
    BY <1>1, <1>4, <1>5, NewRowType DEF f, Recovered, Inv
  <1>10. /\ Len(rows') = Len(rows) + 1 /\ rows'[i] = f[i]
         /\ rows'[Len(rows')] = NewRow(gen, "recovery")
    BY <1>8, <1>9, AppendProperties
  <1>11. i \in S
    BY <1>2, <1>6, <1>10 DEF Superseded
  <1>12. ~Row(i).acked
    BY <1>4, <1>11 DEF RecoveryAdmitted, StillJustified, S, ClassifyUncertain
  <1> QED BY <1>10, <1>12 DEF Replaced, NewRow

LEMMA ReassignSupersedes ==
  ASSUME Inv, NEW c, Reassign(c), NEW i \in RowIds
  PROVE  ~Superseded(i)
  <1>1. CASE i \in {j \in RowIds : Pending(Row(j))}
    BY <1>1 DEF Superseded, Pending
  <1>2. CASE i \notin {j \in RowIds : Pending(Row(j))}
    BY <1>2 DEF Superseded, Reassign, Superseding, RowIds, Row
  <1> QED BY <1>1, <1>2

LEMMA StepReplaces ==
  ASSUME Inv, [Next]_vars, NEW i \in RowIds, Superseded(i)
  PROVE  Replaced(i)
  <1>1. ~UNCHANGED rows
    BY DEF Superseded, Row
  <1>2. ASSUME NEW c \in Creature, Settling(c)
        PROVE  FALSE
    <2>1. Acknowledge(Settle(c))
      BY <1>1, <1>2 DEF Settling, TurnEnds, AckRead, store
    <2>2. PICK j : j = th[Settle(c)].row
      OBVIOUS
    <2>3. PICK b : rows' = [rows EXCEPT ![j].st = "acknowledged", ![j].acked = TRUE, ![j].byUser = b]
      BY <2>1, <2>2 DEF Acknowledge
    <2>4. i \in DOMAIN rows /\ rows[i] \in RowType
      BY RowsType DEF Inv, RowIds
    <2>5. rows'[i] = IF i = j THEN [rows[i] EXCEPT !.st = "acknowledged", !.acked = TRUE, !.byUser = b]
                              ELSE rows[i]
      BY <2>3, <2>4
    <2>6. rows'[i] = rows[i] \/ rows'[i].st = "acknowledged"
      BY <2>4, <2>5 DEF RowType
    <2> QED BY <2>6 DEF Superseded, Row
  <1>3. ASSUME NEW c \in Creature, Lifecycle(c)
        PROVE  Replaced(i)
    BY <1>1, <1>3, RecoverSupersedes DEF Lifecycle, ListClaims, Rebuild, Look, Resume, store
  <1>4. CASE Environment
    <2>1. ASSUME ReplayDeadLetter
          PROVE  FALSE
      BY <2>1, AppendSupersedes, Typed DEF ReplayDeadLetter
    <2> QED BY <1>1, <1>4, <2>1, ReassignSupersedes
            DEF Environment, UpdateDrive, Unassign, Assign, WakeDrive, Crash, BecomesDue,
                StopCreature, StartCreature, Transition, store
  <1> QED BY <1>1, <1>2, <1>3, <1>4, ProcedureSupersedes, RoundSupersedes DEF Next, vars

\* An admitted row is superseded only in the transaction that writes the recovery
\* replacing it, and only while it is not acknowledged (reconcile.py,
\* _recover_uncertain): neither the dispatcher nor a reassignment drops it.
THEOREM AdmittedWorkIsReplaced == Spec => UncertainIsReplaced
  <1>1. Inv /\ [Next]_vars => \A i \in RowIds : Superseded(i) => Replaced(i)
    BY StepReplaces
  <1>2. Inv /\ [Next]_vars =>
           (\A i \in RowIds :
               Row(i).st = "admitted" /\ rows'[i].st = "superseded"
               => /\ ~Row(i).acked
                  /\ Len(rows') = Len(rows) + 1
                  /\ rows'[Len(rows')].reason = "recovery")
    BY <1>1 DEF Superseded, Replaced
  <1> QED BY <1>2, Invariance, PTL DEF Spec, UncertainIsReplaced

-----------------------------------------------------------------------------
(* One recovery of an epoch.  A recovery that is superseded stays so unless *)
(* some task has it in hand; while the assignee may still write one, none   *)
(* in hand is superseded, so the rows that are not tell how many there are. *)

Writing == {"turn", "ack", "ackUser", "fail", "interrupted", "deliver", "admit", "defer"}
Recovering == {"rebuild", "look", "recover"}

\* The rows some task is going to write, whatever has become of them.
Holds(p, i) ==
    \/ th[p].at \in Writing /\ th[p].row = i
    \/ th[p].at = "release" /\ i \in th[p].ids
InHand(i) == i \in batch.ids \/ \E p \in Proc : Holds(p, i)

InPlay(i) == rows[i].reason = "recovery" /\ (rows[i].st # "superseded" \/ InHand(i))
OneInPlay ==
    \A i, j \in RowIds : InPlay(i) /\ InPlay(j) /\ rows[i].epoch = rows[j].epoch => i = j

Roles ==
    \A p \in Proc :
        /\ th[p].at \in Writing => p = Disp \/ \E c \in Creature : p = Settle(c)
        /\ th[p].at = "release" => \E c \in Creature : p = Rec(c)

NeverStopped ==
    \A c \in Creature : /\ th[StopOf(c)].at = "idle"
                        /\ up[c] \/ th[Rec(c)].at = "idle"

\* The dispatcher's row is in nobody's turn.
Taken ==
    th[Disp].at \in Writing =>
        /\ th[Disp].row \in RowIds
        /\ th[Settle(rows[th[Disp].row].who)].at = "idle"

\* Claims are released by the assignee, or are of an epoch that has passed.
ReleasedByOwner ==
    \A c \in Creature : th[Rec(c)].at = "release" =>
        \A i \in th[Rec(c)].ids : rows[i].epoch = drive.epoch => drive.who = c

\* While the assignee may still write a recovery, one that somebody is going to
\* write counts as the epoch's.
MayRecover(c) == ~up[c] \/ th[Rec(c)].at \in Recovering
Counts(i) ==
    /\ rows[i].st # "superseded"
    /\ \A d \in Creature : Holds(Settle(d), i) => rows[i].st = "admitted"
Fresh ==
    \A c \in Creature : MayRecover(c) /\ drive.who = c =>
        \A i \in RowIds :
            InHand(i) /\ rows[i].reason = "recovery" /\ rows[i].epoch = drive.epoch => Counts(i)

RInv == OneInPlay /\ Roles /\ NeverStopped /\ Taken /\ ReleasedByOwner /\ Fresh

Grows ==
    /\ RowIds \subseteq RowIds'
    /\ \A i \in RowIds : /\ rows'[i].reason = rows[i].reason /\ rows'[i].epoch = rows[i].epoch
                         /\ rows'[i].who = rows[i].who
    /\ \A i \in RowIds' \ RowIds : rows'[i].reason # "recovery"

LEMMA InPlayKept ==
  ASSUME OneInPlay, Grows, \A i \in RowIds : InPlay(i)' => InPlay(i)
  PROVE  OneInPlay'
  BY DEF OneInPlay, Grows, InPlay

\* A held row of the current epoch was of it before.
LEMMA EpochBefore ==
  ASSUME Inv, Inv', DriveKept, Grows, NEW i \in RowIds, rows'[i].epoch = drive'.epoch
  PROVE  drive'.epoch = drive.epoch /\ drive'.who = drive.who /\ rows[i].epoch = drive.epoch
  <1>1. /\ drive.epoch \in Nat /\ drive'.epoch \in Nat /\ rows[i].epoch \in Nat
        /\ rows[i].epoch <= drive.epoch
    BY RowsType DEF Inv, TypeOK, RecordType, RowType, Epochs, Row
  <1> QED BY <1>1 DEF DriveKept, Grows

\* Two tasks hold one row only where one of them releases claims.
LEMMA OneTurn ==
  ASSUME Inv, RInv, NEW d \in Creature, NEW i, Holds(Settle(d), i), NEW p \in Proc,
         th[p].at \in Writing, th[p].row = i
  PROVE  p = Settle(d)
  <1>1. th[Settle(d)].at \in Writing /\ th[Settle(d)].row = i
    BY ProcFacts DEF Holds, RInv, Roles
  <1>2. th[Settle(d)].at # "idle" /\ i \in RowIds /\ rows[i].who = d
    BY <1>1 DEF Inv, Holding, InTurn, At, Row, Writing
  <1>3. p # Disp
    BY <1>2 DEF RInv, Taken
  <1>4. PICK c \in Creature : p = Settle(c)
    BY <1>3 DEF RInv, Roles
  <1>5. rows[i].who = c
    BY <1>4 DEF Inv, Holding, InTurn, At, Row, Writing
  <1> QED BY <1>2, <1>4, <1>5

\* Task p lets go of its row, having written it or not.
Acting == Writing \cup Recovering \cup {"release"}
LetsGo(p) ==
    /\ \A q \in Proc \ {p} : th'[q] = th[q]
    /\ \/ th'[p].at \notin Acting
       \/ th'[p] = th[p]
       \/ th[p].at = "release" /\ th'[p].at = "release" /\ th'[p].ids \subseteq th[p].ids
       \/ th[p].at \in Writing /\ th'[p].at \in Writing /\ th'[p].row = th[p].row
    /\ th[p].at # "idle" \/ p \in {Disp, Ctl} \/ th'[p] = th[p]
    /\ \A i \in RowIds : \/ rows'[i].st = rows[i].st
                         \/ Holds(p, i) /\ th'[p].at \notin Writing /\ rows'[i].st # "superseded"

LEMMA LetsGoKept ==
  ASSUME Inv, Inv', RInv, NEW p \in Proc, LetsGo(p), Grows, DriveKept,
         batch'.ids \subseteq batch.ids, UNCHANGED up
  PROVE  RInv'
  <1>1. ASSUME NEW q \in Proc, NEW i, Holds(q, i)'
        PROVE  Holds(q, i)
    BY <1>1 DEF Holds, LetsGo, Acting, Writing
  <1>2. \A i : InHand(i)' => InHand(i)
    BY <1>1 DEF InHand
  <1>3. OneInPlay'
    <2>1. \A i \in RowIds : InPlay(i)' => InPlay(i)
      BY <1>2 DEF InPlay, LetsGo, Grows, InHand
    <2> QED BY <2>1, InPlayKept DEF RInv
  <1>4. Roles'
    BY DEF RInv, Roles, LetsGo, Acting, Writing
  <1>5. NeverStopped'
    BY ProcFacts DEF RInv, NeverStopped, LetsGo
  <1>6. Taken'
    <2> SUFFICES ASSUME th'[Disp].at \in Writing
                 PROVE  /\ th'[Disp].row \in RowIds'
                        /\ th'[Settle(rows'[th'[Disp].row].who)].at = "idle"
      BY DEF Taken
    <2>1. th[Disp].at \in Writing /\ th'[Disp].row = th[Disp].row
      BY ProcFacts DEF LetsGo, Acting, Writing
    <2>2. PICK i \in RowIds : i = th[Disp].row
      BY <2>1 DEF RInv, Taken
    <2>3. rows[i].who \in Creature /\ rows'[i].who = rows[i].who /\ i \in RowIds'
      BY RowsType DEF Inv, RowType, Grows
    <2>4. th[Settle(rows[i].who)].at = "idle"
      BY <2>1, <2>2 DEF RInv, Taken
    <2>5. th'[Settle(rows[i].who)] = th[Settle(rows[i].who)]
      BY <2>3, <2>4, ProcFacts DEF LetsGo
    <2> QED BY <2>1, <2>2, <2>3, <2>4, <2>5
  <1>7. ReleasedByOwner'
    <2> SUFFICES ASSUME NEW c \in Creature, th'[Rec(c)].at = "release",
                        NEW i \in th'[Rec(c)].ids, rows'[i].epoch = drive'.epoch
                 PROVE  drive'.who = c
      BY DEF ReleasedByOwner
    <2>1. th[Rec(c)].at = "release" /\ i \in th[Rec(c)].ids
      BY ProcFacts DEF LetsGo, Acting, Writing
    <2>2. i \in RowIds
      BY <2>1, ProcFacts DEF Inv, TypeOK
    <2> QED BY <2>1, <2>2, EpochBefore DEF RInv, ReleasedByOwner
  <1>8. Fresh'
    <2> SUFFICES ASSUME NEW c \in Creature, MayRecover(c)', drive'.who = c,
                        NEW i \in RowIds', InHand(i)', rows'[i].reason = "recovery",
                        rows'[i].epoch = drive'.epoch
                 PROVE  Counts(i)'
      BY DEF Fresh
    <2>1. i \in RowIds
      BY DEF Grows
    <2>2. /\ drive.who = c /\ rows[i].epoch = drive.epoch /\ rows[i].reason = "recovery"
      BY <2>1, EpochBefore DEF Grows
    <2>3. MayRecover(c)
      BY ProcFacts DEF MayRecover, LetsGo, Acting, Recovering, Writing
    <2>4. Counts(i)
      BY <1>2, <2>1, <2>2, <2>3 DEF RInv, Fresh
    <2>5. rows'[i].st # "superseded"
      BY <2>1, <2>4 DEF LetsGo, Counts
    <2>6. ASSUME NEW d \in Creature, Holds(Settle(d), i)'
          PROVE  rows'[i].st = "admitted"
      <3>1. Holds(Settle(d), i) /\ rows[i].st = "admitted"
        BY <1>1, <2>4, <2>6, ProcFacts DEF Counts
      <3>2. th'[Settle(d)].at \in Writing
        BY <2>6, ProcFacts, <1>4 DEF Holds, Roles
      <3>3. CASE rows'[i].st # rows[i].st
        <4>1. Holds(p, i) /\ th'[p].at \notin Writing
          BY <2>1, <3>3 DEF LetsGo
        <4>2. CASE th[p].at \in Writing
          BY <3>1, <3>2, <4>1, <4>2, OneTurn DEF Holds, Writing
        <4>3. CASE th[p].at = "release"
          <5>1. PICK r \in Creature : p = Rec(r)
            BY <4>3 DEF RInv, Roles
          <5>2. r = c
            BY <2>2, <4>1, <4>3, <5>1 DEF RInv, ReleasedByOwner, Holds, Writing
          <5> QED BY <2>3, <4>3, <5>1, <5>2 DEF MayRecover, RInv, NeverStopped, Recovering
        <4> QED BY <4>1, <4>2, <4>3 DEF Holds
      <3> QED BY <3>1, <3>3
    <2> QED BY <2>5, <2>6 DEF Counts
  <1> QED BY <1>3, <1>4, <1>5, <1>6, <1>7, <1>8 DEF RInv

\* What the rows are after the writes there are.
LEMMA UntouchedGrows ==
  ASSUME UNCHANGED rows
  PROVE  Grows /\ \A i \in RowIds : rows'[i].st = rows[i].st
  BY DEF Grows, RowIds

LEMMA AppendGrows ==
  ASSUME Inv, drive.who # None, NEW g \in Nat, NEW reason \in {"ready", "retry"},
         rows' = Append(rows, NewRow(g, reason))
  PROVE  Grows /\ \A i \in RowIds : rows'[i].st = rows[i].st
  <1>1. rows \in Seq(RowType) /\ NewRow(g, reason) \in RowType
    BY Typed, NewRowType DEF Inv
  <1>2. /\ RowIds' = RowIds \cup {Len(rows) + 1} /\ \A i \in RowIds : rows'[i] = rows[i]
        /\ rows'[Len(rows) + 1] = NewRow(g, reason)
    BY <1>1, AppendType DEF RowIds
  <1>3. NewRow(g, reason).reason = reason
    BY DEF NewRow
  <1> QED BY <1>2, <1>3 DEF Grows

LEMMA MarkGrows ==
  ASSUME Inv, NEW i, NEW st \in RowState, MarkRow(i, st)
  PROVE  Grows /\ RowIds' = RowIds
         /\ \A j \in RowIds : rows'[j].st = IF j = i THEN st ELSE rows[j].st
  <1>1. /\ RowIds' = RowIds
        /\ \A j \in RowIds : rows'[j] = IF j = i THEN [rows[j] EXCEPT !.st = st] ELSE rows[j]
    BY MarkType DEF Inv
  <1>2. \A j \in RowIds : rows[j] \in RowType
    BY RowsType DEF Inv
  <1> QED BY <1>1, <1>2 DEF Grows, RowType

\* Task p leaves what it was doing, the others stay.
Leaves(p) == (\A q \in Proc \ {p} : th'[q] = th[q]) /\ th'[p].at \notin Acting

LEMMA SetLeaves ==
  ASSUME Inv, NEW p \in Proc, NEW t, th' = [th EXCEPT ![p] = t], t.at \notin Acting
  PROVE  Leaves(p)
  BY Typed DEF Leaves

LEMMA GotoLeaves ==
  ASSUME Inv, NEW p \in Proc, NEW step, step \notin Acting,
         Goto(p, step) \/ ReadAndGoto(p, step)
  PROVE  Leaves(p)
  <1>1. th[p] \in Task /\ th \in [Proc -> Task]
    BY Typed
  <1>2. \/ th' = [th EXCEPT ![p] = [th[p] EXCEPT !.at = step]]
        \/ th' = [th EXCEPT ![p] = [th[p] EXCEPT !.at = step, !.seen = drive]]
    BY DEF Goto, ReadAndGoto
  <1>3. /\ [th[p] EXCEPT !.at = step].at = step
        /\ [th[p] EXCEPT !.at = step, !.seen = drive].at = step
    BY <1>1 DEF Task
  <1> QED BY <1>2, <1>3, SetLeaves

LEMMA EndingLeaves ==
  ASSUME Inv, NEW p \in Proc, NEW step, step \notin Acting, EndingAt(p, step)
  PROVE  Leaves(p)
  <1>1. /\ th' = [th EXCEPT ![p] = [Idle EXCEPT !.at = step]]
        /\ [Idle EXCEPT !.at = step].at = step
    BY DEF EndingAt, Idle
  <1> QED BY <1>1, SetLeaves

LEMMA FinishLeaves ==
  ASSUME Inv, NEW p \in Proc, Finish(p)
  PROVE  Leaves(p)
  <1>1. th[p].ret \notin Acting
    BY DEF Inv, Returns, Acting, Writing, Recovering
  <1> QED BY <1>1, EndingLeaves DEF Finish

LEMMA LeavesKept ==
  ASSUME Inv, Inv', RInv, NEW p \in Proc, Leaves(p), th[p].at # "idle" \/ p \in {Disp, Ctl},
         Grows, DriveKept, batch'.ids \subseteq batch.ids, UNCHANGED up,
         \A i \in RowIds : \/ rows'[i].st = rows[i].st
                           \/ Holds(p, i) /\ rows'[i].st # "superseded"
  PROVE  RInv'
  BY LetsGoKept DEF LetsGo, Leaves, Acting

-----------------------------------------------------------------------------
LEMMA QuietStepsRec ==
  ASSUME Inv, Inv', RInv, NEW p \in Proc,
         \/ EnsureWakeGeneration(p) \/ MaybeEnqueue(p) \/ ReevaluateReadiness(p)
         \/ ReadToSuspend(p) \/ Suspend(p) \/ WakeCas(p)
  PROVE  RInv'
  <1>1. th[p].at # "idle" /\ UNCHANGED <<rows, batch, up>>
    BY DEF EnsureWakeGeneration, MaybeEnqueue, ReevaluateReadiness, ReadToSuspend, Suspend, WakeCas,
           At, store, dispatcher, outside
  <1>2. DriveKept
    <2>1. \/ UNCHANGED drive
          \/ \E st \in {"blocked", "paused", "active"} : TransitionTo(st)
      BY DEF EnsureWakeGeneration, MaybeEnqueue, ReevaluateReadiness, ReadToSuspend, Suspend, WakeCas,
             store
    <2>2. {"blocked", "paused", "active"} \subseteq Status
      BY DEF Status
    <2> QED BY <2>1, <2>2, TransitionKept, DriveUntouched
  <1>3. Leaves(p)
    <2> DEFINE Steps == {"maybe", "maybeManual", "enqueue", "rearm", "block", "pause", "advance",
                         "wakegenManual"}
    <2>1. \A step \in Steps : step \notin Acting
      BY DEF Acting, Writing, Recovering
    <2>2. \/ Finish(p) \/ \E step \in Steps : Goto(p, step) \/ ReadAndGoto(p, step)
          \/ th' = [th EXCEPT ![p].at = "advance", ![p].n = gen]
          \/ th' = [th EXCEPT ![p].at = IF p = Disp THEN "maybe" ELSE "wakegenManual",
                              ![p].seen = drive']
      BY DEF EnsureWakeGeneration, MaybeEnqueue, ReevaluateReadiness, ReadToSuspend, Suspend, WakeCas
    <2>3. th[p] \in Task
      BY Typed
    <2>4. CASE th' = [th EXCEPT ![p].at = "advance", ![p].n = gen]
      <3>1. th' = [th EXCEPT ![p] = [th[p] EXCEPT !.at = "advance", !.n = gen]]
        BY <2>4
      <3>2. [th[p] EXCEPT !.at = "advance", !.n = gen].at = "advance"
        BY <2>3 DEF Task
      <3> QED BY <3>1, <3>2, <2>1, SetLeaves
    <2>5. CASE th' = [th EXCEPT ![p].at = IF p = Disp THEN "maybe" ELSE "wakegenManual",
                                ![p].seen = drive']
      <3> DEFINE step == IF p = Disp THEN "maybe" ELSE "wakegenManual"
      <3>1. th' = [th EXCEPT ![p] = [th[p] EXCEPT !.at = step, !.seen = drive']]
        BY <2>5
      <3>2. [th[p] EXCEPT !.at = step, !.seen = drive'].at = step
        BY <2>3 DEF Task
      <3> QED BY <3>1, <3>2, <2>1, SetLeaves
    <2> QED BY <2>1, <2>2, <2>4, <2>5, GotoLeaves, FinishLeaves
  <1> QED BY <1>1, <1>2, <1>3, UntouchedGrows, LeavesKept

LEMMA WritesRec ==
  ASSUME Inv, Inv', RInv, NEW p \in Proc, Enqueue(p) \/ Advance(p)
  PROVE  RInv'
  <1>1. th[p].at # "idle" /\ UNCHANGED <<drive, batch, up>>
    BY DEF Enqueue, Advance, At, outside
  <1>2. PICK g \in Nat : WriteRow(p, g)
    <2>1. th[p].n \in Nat
      BY Typed DEF Task
    <2>2. th[p].n + 1 \in Nat
      BY <2>1
    <2> QED BY <2>2, Typed DEF Enqueue, Advance
  <1>3. CASE drive.who # None
    <2>1. rows' = Append(rows, NewRow(g, "ready")) /\ Finish(p)
      BY <1>2, <1>3 DEF WriteRow
    <2> QED BY <1>1, <1>3, <2>1, AppendGrows, FinishLeaves, DriveUntouched, LeavesKept
  <1>4. CASE drive.who = None
    <2>1. UNCHANGED rows /\ EndingAt(p, "idle") /\ "idle" \notin Acting
      BY <1>2, <1>4 DEF WriteRow, Acting, Writing, Recovering
    <2> QED BY <1>1, <2>1, UntouchedGrows, EndingLeaves, DriveUntouched, LeavesKept
  <1> QED BY <1>3, <1>4

LEMMA OnFailureRec ==
  ASSUME Inv, Inv', RInv, NEW p \in Proc, OnFailure(p)
  PROVE  RInv'
  <1>1. /\ th[p].at \in {"fail", "interrupted"} /\ UNCHANGED <<drive, batch, up>>
    BY DEF OnFailure, outside
  <1> DEFINE i == th[p].row
             attempt == th[p].n + 1
  <1>2. \/ /\ rows' = [rows EXCEPT ![i].st = "retry_wait", ![i].attempt = attempt]
           /\ Finish(p)
        \/ MarkRow(i, "dead_letter") /\ Goto(p, "deadread")
    BY DEF OnFailure
  <1>3. Holds(p, i)
    BY <1>1 DEF Holds, Writing
  <1> HIDE DEF i, attempt
  <1>4. Leaves(p)
    BY <1>2, GotoLeaves, FinishLeaves DEF Acting, Writing, Recovering
  <1>5. Grows /\ \A j \in RowIds : rows'[j].st = rows[j].st \/ (j = i /\ rows'[j].st # "superseded")
    <2>1. CASE rows' = [rows EXCEPT ![i].st = "retry_wait", ![i].attempt = attempt]
      <3>1. rows \in [RowIds -> RowType]
        BY RowsType DEF Inv, TypeOK, RowIds
      <3>2. DOMAIN rows' = RowIds
        BY <2>1, <3>1
      <3>3. \A j \in RowIds : rows'[j] = IF j = i THEN [rows[j] EXCEPT !.st = "retry_wait",
                                                                       !.attempt = attempt]
                                                   ELSE rows[j]
        BY <2>1, <3>1
      <3>4. \A j \in RowIds : rows[j] \in RowType
        BY <3>1
      <3> QED BY <3>2, <3>3, <3>4 DEF Grows, RowIds, RowType
    <2>2. CASE MarkRow(i, "dead_letter")
      BY <2>2, MarkGrows DEF RowState
    <2> QED BY <1>2, <2>1, <2>2
  <1> QED BY <1>1, <1>3, <1>4, <1>5, DriveUntouched, LeavesKept

LEMMA ReleaseRec ==
  ASSUME Inv, Inv', RInv, NEW p \in Proc, Release(p)
  PROVE  RInv'
  <1>1. /\ th[p].at = "release" /\ UNCHANGED <<drive, batch, up>> /\ th[p] \in Task
    BY Typed DEF Release, At, dispatcher, outside
  <1>2. \/ /\ UNCHANGED rows
           /\ th' = [th EXCEPT ![p] = Idle] \/ th' = [th EXCEPT ![p] = [th[p] EXCEPT !.at = "resume"]]
        \/ \E i \in th[p].ids : /\ MarkRow(i, "pending")
                                /\ th' = [th EXCEPT ![p] = [th[p] EXCEPT !.ids = @ \ {i}]]
    BY DEF Release
  <1>3. CASE /\ UNCHANGED rows
             /\ th' = [th EXCEPT ![p] = Idle] \/ th' = [th EXCEPT ![p] = [th[p] EXCEPT !.at = "resume"]]
    <2>1. Idle.at = "idle" /\ [th[p] EXCEPT !.at = "resume"].at = "resume"
      BY <1>1 DEF Task, Idle
    <2>2. Leaves(p)
      BY <1>3, <2>1, SetLeaves DEF Acting, Writing, Recovering
    <2> QED BY <1>1, <1>3, <2>2, UntouchedGrows, DriveUntouched, LeavesKept
  <1>4. ASSUME NEW i \in th[p].ids, MarkRow(i, "pending"),
               th' = [th EXCEPT ![p] = [th[p] EXCEPT !.ids = @ \ {i}]]
        PROVE  RInv'
    <2>1. /\ \A q \in Proc \ {p} : th'[q] = th[q]
          /\ th'[p].at = "release" /\ th'[p].ids \subseteq th[p].ids
      BY <1>1, <1>4, Typed DEF Task
    <2>2. Grows /\ \A j \in RowIds : rows'[j].st = rows[j].st \/ (j = i /\ rows'[j].st = "pending")
      BY <1>4, MarkGrows DEF RowState
    <2>3. Holds(p, i)
      BY <1>1 DEF Holds
    <2>4. LetsGo(p)
      BY <1>1, <2>1, <2>2, <2>3 DEF LetsGo, Writing
    <2> QED BY <1>1, <2>2, <2>4, DriveUntouched, LetsGoKept
  <1> QED BY <1>2, <1>3, <1>4

-----------------------------------------------------------------------------
(* The steps that leave.                                                   *)

LEMMA PlainRoundRec ==
  ASSUME Inv, Inv', RInv, ScanWaiting \/ ScanActive \/ Prepare \/ EndRound
  PROVE  RInv'
  <1>1. /\ UNCHANGED <<rows, drive, up>> /\ batch'.ids \subseteq batch.ids /\ Disp \in Proc
        /\ th[Disp] \in Task
    <2>1. batch \in Round_ /\ Disp \in Proc /\ th[Disp] \in Task
      BY ProcFacts, Typed
    <2>2. CASE ScanWaiting \/ ScanActive
      BY <2>1, <2>2 DEF ScanWaiting, ScanActive, store, dispatcher, outside
    <2>3. CASE Prepare
      BY <2>1, <2>3 DEF Prepare, store, outside, Round_
    <2>4. CASE EndRound
      BY <2>1, <2>4 DEF EndRound, store, outside
    <2> QED BY <2>2, <2>3, <2>4
  <1>2. PICK t : /\ th' = [th EXCEPT ![Disp] = t]
                 /\ t.at \in {"scanActive", "wakeCas", "claim", "rearm", "maybe", "consider", "idle"}
    <2>1. \/ \E step \in {"scanActive", "claim", "consider"} : Goto(Disp, step)
          \/ th' = [th EXCEPT ![Disp].at = "wakeCas", ![Disp].ret = "scanActive", ![Disp].seen = drive]
          \/ \E step \in {"rearm", "maybe"} :
                th' = [th EXCEPT ![Disp].seen = drive, ![Disp].ret = "claim", ![Disp].at = step]
          \/ th' = [th EXCEPT ![Disp] = Idle]
      <3>1. CASE ScanWaiting
        BY <3>1 DEF ScanWaiting
      <3>2. CASE ScanActive
        <4> DEFINE step == IF \E j \in RowIds : Row(j).epoch = drive.epoch THEN "rearm" ELSE "maybe"
        <4>1. \/ Goto(Disp, "claim")
              \/ th' = [th EXCEPT ![Disp].seen = drive, ![Disp].ret = "claim", ![Disp].at = step]
          BY <3>2 DEF ScanActive
        <4>2. step \in {"rearm", "maybe"}
          OBVIOUS
        <4> HIDE DEF step
        <4> QED BY <4>1, <4>2
      <3>3. CASE Prepare \/ EndRound
        BY <3>3 DEF Prepare, EndRound
      <3> QED BY <3>1, <3>2, <3>3
    <2>2. CASE th' = [th EXCEPT ![Disp] = Idle]
      <3>1. Idle.at = "idle"
        BY DEF Idle
      <3> QED BY <2>2, <3>1
    <2>3. ASSUME NEW step \in {"scanActive", "claim", "consider"}, Goto(Disp, step)
          PROVE  \E t : th' = [th EXCEPT ![Disp] = t] /\ t.at = step
      <3>1. th' = [th EXCEPT ![Disp] = [th[Disp] EXCEPT !.at = step]]
        BY <2>3 DEF Goto
      <3>2. [th[Disp] EXCEPT !.at = step].at = step
        BY <1>1 DEF Task
      <3> QED BY <3>1, <3>2
    <2>4. ASSUME NEW step, NEW ret,
                 th' = [th EXCEPT ![Disp] = [th[Disp] EXCEPT !.at = step, !.ret = ret, !.seen = drive]]
          PROVE  \E t : th' = [th EXCEPT ![Disp] = t] /\ t.at = step
      <3>1. [th[Disp] EXCEPT !.at = step, !.ret = ret, !.seen = drive].at = step
        BY <1>1 DEF Task
      <3> QED BY <2>4, <3>1
    <2>5. CASE th' = [th EXCEPT ![Disp].at = "wakeCas", ![Disp].ret = "scanActive",
                                ![Disp].seen = drive]
      <3>1. th' = [th EXCEPT ![Disp] = [th[Disp] EXCEPT !.at = "wakeCas", !.ret = "scanActive",
                                                        !.seen = drive]]
        BY <2>5
      <3> QED BY <3>1, <2>4
    <2>6. ASSUME NEW step \in {"rearm", "maybe"},
                 th' = [th EXCEPT ![Disp].seen = drive, ![Disp].ret = "claim", ![Disp].at = step]
          PROVE  \E t : th' = [th EXCEPT ![Disp] = t] /\ t.at = step
      <3>1. th' = [th EXCEPT ![Disp] = [th[Disp] EXCEPT !.seen = drive, !.ret = "claim", !.at = step]]
        BY <2>6
      <3>2. [th[Disp] EXCEPT !.seen = drive, !.ret = "claim", !.at = step].at = step
        BY <1>1 DEF Task
      <3> QED BY <3>1, <3>2
    <2> QED BY <2>1, <2>2, <2>3, <2>5, <2>6
  <1>3. Leaves(Disp)
    BY <1>1, <1>2, SetLeaves DEF Acting, Writing, Recovering
  <1> QED BY <1>1, <1>3, UntouchedGrows, DriveUntouched, LeavesKept

LEMMA DeferRec == ASSUME Inv, Inv', RInv, Defer PROVE RInv'
  <1>1. /\ th[Disp].at = "defer" /\ UNCHANGED <<drive, batch, up>> /\ Disp \in Proc
        /\ MarkRow(th[Disp].row, "pending") /\ Finish(Disp)
    BY ProcFacts DEF Defer, At, outside
  <1>2. Holds(Disp, th[Disp].row)
    BY <1>1 DEF Holds, Writing
  <1>3. Grows /\ \A j \in RowIds : rows'[j].st = IF j = th[Disp].row THEN "pending" ELSE rows[j].st
    BY <1>1, MarkGrows DEF RowState
  <1> QED BY <1>1, <1>2, <1>3, FinishLeaves, DriveUntouched, LeavesKept

LEMMA StaysAtWork ==
  ASSUME Inv, Inv', RInv, NEW p \in Proc, th[p].at \in Writing, NEW step \in Writing, Goto(p, step),
         UNCHANGED <<rows, drive, up>>, batch'.ids \subseteq batch.ids
  PROVE  RInv'
  <1>1. th[p] \in Task /\ th \in [Proc -> Task] /\ th[p].at # "idle"
    BY Typed DEF Writing
  <1>2. th'[p].at = step /\ th'[p].row = th[p].row /\ \A q \in Proc \ {p} : th'[q] = th[q]
    BY <1>1 DEF Goto, Task
  <1>3. LetsGo(p)
    BY <1>1, <1>2 DEF LetsGo
  <1> QED BY <1>3, UntouchedGrows, DriveUntouched, LetsGoKept

LEMMA DeliverRec == ASSUME Inv, Inv', RInv, Deliver PROVE RInv'
  <1>1. /\ th[Disp].at = "deliver" /\ UNCHANGED <<rows, drive, batch, up>> /\ Disp \in Proc
        /\ \E step \in {"admit", "defer", "fail"} : Goto(Disp, step)
    BY ProcFacts DEF Deliver, At, store, outside
  <1> QED BY <1>1, StaysAtWork DEF Writing

LEMMA TurnEndsRec == ASSUME Inv, Inv', RInv, NEW c \in Creature, TurnEnds(c) PROVE RInv'
  <1>1. /\ th[Settle(c)].at = "turn" /\ UNCHANGED <<rows, drive, batch, up>> /\ Settle(c) \in Proc
        /\ \E step \in {"ack", "fail", "ackUser", "interrupted"} : Goto(Settle(c), step)
    BY ProcFacts DEF TurnEnds, At, store, dispatcher, outside
  <1> QED BY <1>1, StaysAtWork DEF Writing

LEMMA AcknowledgeRec == ASSUME Inv, Inv', RInv, NEW p \in Proc, Acknowledge(p) PROVE RInv'
  <1>1. /\ th[p].at \in {"ack", "ackUser"} /\ UNCHANGED <<drive, batch, up>>
        /\ \E step \in {"ackread", "userread"} : Goto(p, step)
    BY DEF Acknowledge, dispatcher, outside
  <1> DEFINE i == th[p].row
             user == At(p, "ackUser")
  <1>2. Holds(p, i)
    BY <1>1 DEF Holds, Writing
  <1>3. Leaves(p)
    BY <1>1, GotoLeaves DEF Acting, Writing, Recovering
  <1>4. rows' = [rows EXCEPT ![i].st = "acknowledged", ![i].acked = TRUE, ![i].byUser = @ \/ user]
    BY DEF Acknowledge
  <1> HIDE DEF i, user
  <1>5. rows \in [RowIds -> RowType]
    BY RowsType DEF Inv, TypeOK, RowIds
  <1>6. /\ DOMAIN rows' = RowIds
        /\ \A j \in RowIds : j # i => rows'[j] = rows[j]
        /\ i \in RowIds => rows'[i] = [rows[i] EXCEPT !.st = "acknowledged", !.acked = TRUE,
                                                      !.byUser = @ \/ user]
    BY <1>4, <1>5
  <1>7. i \in RowIds => /\ rows'[i].st = "acknowledged" /\ rows'[i].reason = rows[i].reason
                        /\ rows'[i].epoch = rows[i].epoch /\ rows'[i].who = rows[i].who
    BY <1>5, <1>6 DEF RowType
  <1>8. Grows
    BY <1>6, <1>7 DEF Grows, RowIds
  <1> QED BY <1>1, <1>2, <1>3, <1>6, <1>7, <1>8, DriveUntouched, LeavesKept

LEMMA AsideRec ==
  ASSUME Inv, Inv', RInv, NEW p \in Proc, AckRead(p) \/ \E c \in Creature : p = Rec(c) /\ Resume(c)
  PROVE  RInv'
  <1>1. /\ th[p].at \in {"ackread", "resume"} /\ UNCHANGED <<rows, drive, batch, up>>
        /\ \E step \in {"rearm", "rearmElseMaybe", "maybeElseRearm"} :
              Goto(p, step) \/ ReadAndGoto(p, step)
    BY DEF AckRead, Resume, At, store, dispatcher, outside
  <1>2. Leaves(p)
    BY <1>1, GotoLeaves DEF Acting, Writing, Recovering
  <1> QED BY <1>1, <1>2, UntouchedGrows, DriveUntouched, LeavesKept

-----------------------------------------------------------------------------
(* The steps that take rows in hand.                                       *)

LEMMA FreshKept ==
  ASSUME Inv, Inv', RInv, Grows, DriveKept,
         \A c \in Creature : MayRecover(c)' => MayRecover(c),
         \A c \in Creature, i \in RowIds :
            /\ MayRecover(c) /\ MayRecover(c)' /\ drive.who = c
            /\ rows[i].epoch = drive.epoch /\ InHand(i)'
            /\ InHand(i) => Counts(i)
            => Counts(i)'
  PROVE  Fresh'
  <1> SUFFICES ASSUME NEW c \in Creature, MayRecover(c)', drive'.who = c,
                      NEW i \in RowIds', InHand(i)', rows'[i].reason = "recovery",
                      rows'[i].epoch = drive'.epoch
               PROVE  Counts(i)'
    BY DEF Fresh
  <1>1. i \in RowIds
    BY DEF Grows
  <1>2. drive.who = c /\ rows[i].epoch = drive.epoch /\ rows[i].reason = "recovery"
    BY <1>1, EpochBefore DEF Grows
  <1>3. InHand(i) => Counts(i)
    BY <1>1, <1>2 DEF RInv, Fresh
  <1> QED BY <1>1, <1>2, <1>3

\* The assignee that may still recover is not releasing claims, and nobody else
\* releases any of this epoch.
LEMMA NotReleased ==
  ASSUME Inv, RInv, NEW c \in Creature, MayRecover(c), drive.who = c,
         NEW i \in RowIds, rows[i].epoch = drive.epoch, NEW p \in Proc, th[p].at = "release"
  PROVE  i \notin th[p].ids
  <1> SUFFICES ASSUME i \in th[p].ids PROVE FALSE
    OBVIOUS
  <1>1. PICK r \in Creature : p = Rec(r)
    BY DEF RInv, Roles
  <1>2. r = c
    BY <1>1 DEF RInv, ReleasedByOwner
  <1> QED BY <1>1, <1>2 DEF MayRecover, RInv, NeverStopped, Recovering

LEMMA ClaimRec == ASSUME Inv, Inv', RInv, NEW late, Claim(late) PROVE RInv'
  <1> DEFINE S == {i \in RowIds : Claimable(rows[i]) /\ (rows[i].st = "retry_wait" => i \in late)}
  <1>1. Disp \in Proc /\ UNCHANGED <<drive, up>> /\ Goto(Disp, "prepare")
    BY ProcFacts DEF Claim, outside
  <1>2. /\ rows' = [i \in RowIds |-> IF i \in S THEN [rows[i] EXCEPT !.st = "claimed"] ELSE rows[i]]
        /\ batch'.ids = S
    BY DEF Claim, Row
  <1>3. S \subseteq RowIds /\ \A i \in S : rows[i].st \notin {"superseded", "admitted"}
    BY DEF Claimable
  <1> HIDE DEF S
  <1>4. /\ Grows /\ RowIds' = RowIds
        /\ \A i \in RowIds : rows'[i].st = IF i \in S THEN "claimed" ELSE rows[i].st
    <2>1. \A i \in RowIds : rows[i] \in RowType
      BY RowsType DEF Inv
    <2> QED BY <1>2, <2>1 DEF Grows, RowIds, RowType
  <1>5. Leaves(Disp)
    BY <1>1, GotoLeaves DEF Acting, Writing, Recovering
  <1>6. \A q \in Proc : \A i : Holds(q, i)' => Holds(q, i)
    BY <1>5 DEF Holds, Leaves, Acting
  <1>7. OneInPlay'
    <2>1. \A i \in RowIds : InPlay(i)' => InPlay(i)
      BY <1>2, <1>3, <1>4, <1>6 DEF InPlay, InHand, Grows
    <2> QED BY <1>4, <2>1, InPlayKept DEF RInv
  <1>8. Roles' /\ NeverStopped' /\ Taken' /\ ReleasedByOwner'
    <2>1. Roles'
      BY <1>5 DEF RInv, Roles, Leaves, Acting
    <2>2. NeverStopped'
      BY <1>1, <1>5, ProcFacts DEF RInv, NeverStopped, Leaves
    <2>3. Taken'
      BY <1>5 DEF Taken, Leaves, Acting
    <2>4. ReleasedByOwner'
      <3> SUFFICES ASSUME NEW c \in Creature, th'[Rec(c)].at = "release",
                          NEW i \in th'[Rec(c)].ids, rows'[i].epoch = drive'.epoch
                   PROVE  drive'.who = c
        BY DEF ReleasedByOwner
      <3>1. th'[Rec(c)] = th[Rec(c)] /\ i \in RowIds
        BY <1>5, ProcFacts DEF Leaves, Inv, TypeOK
      <3> QED BY <1>1, <1>4, <3>1 DEF RInv, ReleasedByOwner, Grows
    <2> QED BY <2>1, <2>2, <2>3, <2>4
  <1>9. Fresh'
    <2>1. \A c \in Creature : MayRecover(c)' => MayRecover(c)
      BY <1>1, <1>5, ProcFacts DEF MayRecover, Leaves
    <2>2. ASSUME NEW c \in Creature, NEW i \in RowIds, InHand(i) => Counts(i), InHand(i)'
          PROVE  Counts(i)'
      <3>1. rows'[i].st # "superseded"
        BY <1>2, <1>3, <1>4, <1>6, <2>2 DEF InHand, Counts
      <3>2. ASSUME NEW d \in Creature, Holds(Settle(d), i)'
            PROVE  rows'[i].st = "admitted"
        <4>1. Holds(Settle(d), i)
          BY <1>6, <3>2, ProcFacts
        <4>2. rows[i].st = "admitted"
          BY <2>2, <4>1, ProcFacts DEF InHand, Counts
        <4> QED BY <1>3, <1>4, <4>2
      <3> QED BY <3>1, <3>2 DEF Counts
    <2> QED BY <1>1, <1>4, <2>1, <2>2, DriveUntouched, FreshKept
  <1> QED BY <1>7, <1>8, <1>9 DEF RInv

LEMMA ConsiderRec == ASSUME Inv, Inv', RInv, NEW i \in RowIds, Consider(i) PROVE RInv'
  <1> DEFINE c == rows[i].who
             step(at) == [th[Disp] EXCEPT !.at = at, !.ret = "consider", !.row = i, !.n = rows[i].attempt]
  <1>1. /\ th[Disp].at = "consider" /\ i \in batch.ids /\ Disp \in Proc /\ UNCHANGED <<drive, up>>
        /\ batch \in Round_ /\ th[Disp] \in Task /\ c \in Creature
    BY ProcFacts, Typed, RowsType DEF Consider, At, outside, Inv, RowType
  <1>2. \/ MarkRow(i, "superseded") /\ batch'.ids = batch.ids \ {i} /\ UNCHANGED th
        \/ UNCHANGED <<rows, th>> /\ batch'.ids \subseteq batch.ids
        \/ /\ UNCHANGED rows /\ batch'.ids \subseteq batch.ids /\ inflight[c] = 0
           /\ \E at \in {"fail", "deliver"} : th' = [th EXCEPT ![Disp] = step(at)]
    <2> DEFINE rest == [batch EXCEPT !.ids = @ \ {i}]
    <2>1. /\ rest.ids = batch.ids \ {i}
          /\ [rest EXCEPT !.tried = @ \cup {c}].ids = batch.ids \ {i}
      BY <1>1 DEF Round_
    <2>2. \/ MarkRow(i, "superseded") /\ batch' = rest /\ UNCHANGED th
          \/ UNCHANGED <<rows, th>> /\ batch' = rest
          \/ /\ UNCHANGED rows /\ batch' = rest /\ inflight[c] = 0
             /\ th' = [th EXCEPT ![Disp] = step("fail")]
          \/ /\ UNCHANGED rows /\ batch' = [rest EXCEPT !.tried = @ \cup {c}] /\ inflight[c] = 0
             /\ th' = [th EXCEPT ![Disp] = step("deliver")]
      BY DEF Consider, Busy, Row
    <2> HIDE DEF rest, step
    <2> QED BY <2>1, <2>2
  <1>3. CASE UNCHANGED <<rows, th>> /\ batch'.ids \subseteq batch.ids
    <2>1. LetsGo(Disp)
      BY <1>1, <1>3 DEF LetsGo
    <2> QED BY <1>1, <1>3, <2>1, UntouchedGrows, DriveUntouched, LetsGoKept
  <1>4. CASE MarkRow(i, "superseded") /\ batch'.ids = batch.ids \ {i} /\ UNCHANGED th
    <2>1. /\ Grows /\ RowIds' = RowIds
          /\ \A j \in RowIds : rows'[j].st = IF j = i THEN "superseded" ELSE rows[j].st
      BY <1>4, MarkGrows DEF RowState
    <2>2. \A q \in Proc : \A j : Holds(q, j)' <=> Holds(q, j)
      BY <1>4 DEF Holds
    <2>3. \A j : InHand(j)' => InHand(j)
      BY <1>4, <2>2 DEF InHand
    <2>4. OneInPlay'
      <3>1. \A j \in RowIds : InPlay(j)' => InPlay(j)
        BY <2>1, <2>3 DEF InPlay, Grows
      <3> QED BY <2>1, <3>1, InPlayKept DEF RInv
    <2>5. Roles' /\ NeverStopped' /\ Taken'
      BY <1>1, <1>4 DEF RInv, Roles, NeverStopped, Taken, Writing
    <2>6. ReleasedByOwner'
      <3>1. \A d \in Creature : th[Rec(d)].ids \subseteq RowIds
        BY ProcFacts DEF Inv, TypeOK
      <3> QED BY <1>1, <1>4, <2>1, <3>1 DEF RInv, ReleasedByOwner, Grows
    <2>7. Fresh'
      <3>1. \A d \in Creature : MayRecover(d)' => MayRecover(d)
        BY <1>1, <1>4 DEF MayRecover
      <3>2. ASSUME NEW d \in Creature, NEW j \in RowIds, MayRecover(d), drive.who = d,
                   rows[j].epoch = drive.epoch, InHand(j)', InHand(j) => Counts(j)
            PROVE  Counts(j)'
        <4>1. Counts(j)
          BY <2>3, <3>2
        <4>2. CASE j # i
          BY <2>1, <2>2, <4>1, <4>2, ProcFacts DEF Counts
        <4>3. CASE j = i
          <5>1. PICK q \in Proc : Holds(q, i)
            BY <1>4, <2>2, <3>2, <4>3 DEF InHand
          <5>2. th[q].at \in Writing /\ th[q].row = i
            BY <3>2, <4>3, <5>1, NotReleased DEF Holds
          <5>3. PICK e \in Creature : q = Settle(e)
            BY <1>1, <5>2 DEF RInv, Roles, Writing
          <5>4. rows[i].st = "admitted"
            BY <4>1, <4>3, <5>1, <5>3 DEF Counts
          <5> QED BY <1>1, <5>4 DEF Inv, Batched, Row
        <4> QED BY <4>2, <4>3
      <3> QED BY <1>1, <2>1, <3>1, <3>2, DriveUntouched, FreshKept
    <2> QED BY <2>4, <2>5, <2>6, <2>7 DEF RInv
  <1>5. ASSUME UNCHANGED rows, batch'.ids \subseteq batch.ids, inflight[c] = 0,
               NEW at \in {"fail", "deliver"}, th' = [th EXCEPT ![Disp] = step(at)]
        PROVE  RInv'
    <2>1. /\ \A q \in Proc \ {Disp} : th'[q] = th[q]
          /\ th'[Disp].at = at /\ th'[Disp].row = i
      BY <1>1, <1>5, Typed DEF Task
    <2>2. Grows /\ RowIds' = RowIds /\ DriveKept
      BY <1>1, <1>5, UntouchedGrows, DriveUntouched DEF RowIds
    <2>3. \A q \in Proc \ {Disp} : \A j : Holds(q, j)' => Holds(q, j)
      BY <2>1 DEF Holds
    <2>4. \A j : InHand(j)' => InHand(j)
      BY <1>1, <1>5, <2>1, <2>3 DEF InHand, Holds, Writing
    <2>5. OneInPlay'
      <3>1. \A j \in RowIds : InPlay(j)' => InPlay(j)
        BY <1>5, <2>4 DEF InPlay
      <3> QED BY <2>2, <3>1, InPlayKept DEF RInv
    <2>6. Roles'
      BY <2>1 DEF RInv, Roles
    <2>7. NeverStopped'
      BY <1>1, <2>1, ProcFacts DEF RInv, NeverStopped
    <2>8. Taken'
      <3>1. th[Settle(c)].at = "idle"
        <4>1. th[Settle(c)].at # "idle" => InTurn(c, th[Settle(c)].row)
          BY <1>1 DEF Inv, Holding, At
        <4> QED BY <1>5, <4>1, RowsType DEF InTurn, Inv
      <3>2. th'[Settle(c)] = th[Settle(c)]
        BY <1>1, <2>1, ProcFacts
      <3>3. th'[Disp].row \in RowIds' /\ rows'[th'[Disp].row].who = c
        BY <1>5, <2>1, <2>2
      <3>4. th'[Settle(rows'[th'[Disp].row].who)].at = "idle"
        BY <3>1, <3>2, <3>3
      <3> QED BY <3>3, <3>4 DEF Taken
    <2>9. ReleasedByOwner'
      BY <1>1, <1>5, <2>1, ProcFacts DEF RInv, ReleasedByOwner
    <2>10. Fresh'
      <3>1. \A d \in Creature : MayRecover(d)' => MayRecover(d)
        BY <1>1, <2>1, ProcFacts DEF MayRecover
      <3>2. \A j \in RowIds : InHand(j)' /\ (InHand(j) => Counts(j)) => Counts(j)'
        BY <1>5, <2>3, <2>4, ProcFacts DEF Counts
      <3> QED BY <2>2, <3>1, <3>2, FreshKept
    <2> QED BY <2>5, <2>6, <2>7, <2>8, <2>9, <2>10 DEF RInv
  <1> QED BY <1>2, <1>3, <1>4, <1>5

LEMMA AdmitRec == ASSUME Inv, Inv', RInv, Admit PROVE RInv'
  <1> DEFINE i == th[Disp].row
             c == rows[i].who
  <1>1. /\ th[Disp].at = "admit" /\ Disp \in Proc /\ UNCHANGED <<drive, batch, up>>
        /\ MarkRow(i, "admitted")
        /\ th' = [th EXCEPT ![Disp] = [Idle EXCEPT !.at = "consider"],
                            ![Settle(c)] = [Idle EXCEPT !.at = "turn", !.row = i, !.n = th[Disp].n]]
    BY ProcFacts DEF Admit, At, Row, outside
  <1>2. /\ i \in RowIds /\ c \in Creature /\ th[Settle(c)].at = "idle"
        /\ Settle(c) \in Proc /\ Settle(c) # Disp
    BY <1>1, RowsType, ProcFacts DEF RInv, Taken, Writing, Inv, RowType
  <1>3. Holds(Disp, i)
    BY <1>1 DEF Holds, Writing
  <1> HIDE DEF i, c
  <1>4. /\ \A q \in Proc \ {Disp, Settle(c)} : th'[q] = th[q]
        /\ th'[Disp].at = "consider"
        /\ th'[Settle(c)].at = "turn" /\ th'[Settle(c)].row = i
    BY <1>1, <1>2, Typed DEF Idle
  <1>5. /\ Grows /\ RowIds' = RowIds
        /\ \A j \in RowIds : rows'[j].st = IF j = i THEN "admitted" ELSE rows[j].st
    BY <1>1, MarkGrows DEF RowState
  <1>6. \A q \in Proc : \A j : Holds(q, j)' => Holds(q, j) \/ (q = Settle(c) /\ j = i)
    BY <1>4 DEF Holds, Writing
  <1>7. \A j : InHand(j)' => InHand(j)
    BY <1>1, <1>3, <1>6 DEF InHand
  <1>8. OneInPlay'
    <2>1. \A j \in RowIds : InPlay(j)' => InPlay(j)
      BY <1>1, <1>3, <1>5, <1>7 DEF InPlay, Grows, InHand
    <2> QED BY <1>5, <2>1, InPlayKept DEF RInv
  <1>9. Roles'
    BY <1>2, <1>4 DEF RInv, Roles, Writing
  <1>10. NeverStopped'
    <2>1. \A d \in Creature : th'[Rec(d)] = th[Rec(d)] /\ th'[StopOf(d)] = th[StopOf(d)]
      BY <1>2, <1>4, ProcFacts
    <2> QED BY <1>1, <2>1 DEF RInv, NeverStopped
  <1>11. Taken'
    BY <1>4 DEF Taken, Writing
  <1>12. ReleasedByOwner'
    <2>1. \A d \in Creature : th'[Rec(d)] = th[Rec(d)] /\ th[Rec(d)].ids \subseteq RowIds
      BY <1>2, <1>4, ProcFacts DEF Inv, TypeOK
    <2> QED BY <1>1, <1>5, <2>1 DEF RInv, ReleasedByOwner, Grows
  <1>13. Fresh'
    <2>1. \A d \in Creature : MayRecover(d)' => MayRecover(d)
      BY <1>1, <1>2, <1>4, ProcFacts DEF MayRecover
    <2>2. \A j \in RowIds : InHand(j)' /\ (InHand(j) => Counts(j)) => Counts(j)'
      BY <1>5, <1>6, <1>7, ProcFacts DEF Counts
    <2> QED BY <1>1, <1>5, <2>1, <2>2, DriveUntouched, FreshKept
  <1> QED BY <1>8, <1>9, <1>10, <1>11, <1>12, <1>13 DEF RInv

-----------------------------------------------------------------------------
(* Reconciliation.                                                         *)

LEMMA RebuildRec == ASSUME Inv, Inv', RInv, NEW c \in Creature, Rebuild(c) PROVE RInv'
  <1>1. /\ th[Rec(c)].at = "rebuild" /\ UNCHANGED <<rows, drive, batch, up>> /\ Rec(c) \in Proc
        /\ Goto(Rec(c), "look")
    BY ProcFacts DEF Rebuild, At, store, dispatcher, outside
  <1>2. /\ \A q \in Proc \ {Rec(c)} : th'[q] = th[q]
        /\ th'[Rec(c)].at = "look"
    BY <1>1, Typed DEF Goto, Task
  <1>3. \A q \in Proc : \A i : Holds(q, i)' <=> Holds(q, i)
    BY <1>1, <1>2 DEF Holds, Writing
  <1>4. \A i : InHand(i)' <=> InHand(i)
    BY <1>1, <1>3 DEF InHand
  <1>5. Grows /\ RowIds' = RowIds
    BY <1>1, UntouchedGrows DEF RowIds
  <1>6. OneInPlay'
    <2>1. \A i \in RowIds : InPlay(i)' => InPlay(i)
      BY <1>1, <1>4 DEF InPlay
    <2> QED BY <1>5, <2>1, InPlayKept DEF RInv
  <1>7. Roles'
    BY <1>2 DEF RInv, Roles, Writing
  <1>8. NeverStopped'
    BY <1>1, <1>2, ProcFacts DEF RInv, NeverStopped
  <1>9. Taken'
    <2>1. th'[Disp] = th[Disp] /\ \A d \in Creature : th'[Settle(d)] = th[Settle(d)]
      BY <1>1, <1>2, ProcFacts
    <2> QED BY <1>1, <1>5, <2>1, RowsType DEF RInv, Taken, Inv, RowType
  <1>10. ReleasedByOwner'
    BY <1>1, <1>2, ProcFacts DEF RInv, ReleasedByOwner
  <1>11. Fresh'
    <2>1. \A d \in Creature : MayRecover(d)' => MayRecover(d)
      BY <1>1, <1>2, ProcFacts DEF MayRecover, Recovering
    <2>2. \A i \in RowIds : InHand(i)' /\ (InHand(i) => Counts(i)) => Counts(i)'
      BY <1>1, <1>3, <1>4, ProcFacts DEF Counts
    <2> QED BY <1>1, <1>5, <2>1, <2>2, DriveUntouched, FreshKept
  <1> QED BY <1>6, <1>7, <1>8, <1>9, <1>10, <1>11 DEF RInv

LEMMA LookRec == ASSUME Inv, Inv', RInv, NEW c \in Creature, Look(c) PROVE RInv'
  <1>1. /\ th[Rec(c)].at = "look" /\ UNCHANGED <<rows, drive, batch, up>> /\ Rec(c) \in Proc
        /\ \A d \in Creature : Rec(c) # Settle(d)
    BY ProcFacts DEF Look, At, store, dispatcher, outside
  <1>2. /\ \A q \in Proc \ {Rec(c)} : th'[q] = th[q]
        /\ th'[Rec(c)].at \in {"idle", "release", "recover"}
        /\ th'[Rec(c)].at = "release" => th'[Rec(c)].ids = Claims /\ drive.who = c
    BY <1>1, Typed DEF Look, Idle
  <1>3. \A i \in RowIds : InHand(i)' => InHand(i) \/ rows[i].st = "claimed"
    BY <1>1, <1>2 DEF InHand, Holds, Claims, Writing, Row
  <1>4. \A d \in Creature : \A i : Holds(Settle(d), i)' <=> Holds(Settle(d), i)
    BY <1>1, <1>2, ProcFacts DEF Holds
  <1>5. Grows /\ RowIds' = RowIds
    BY <1>1, UntouchedGrows DEF RowIds
  <1>6. OneInPlay'
    <2>1. \A i \in RowIds : InPlay(i)' => InPlay(i)
      BY <1>1, <1>3 DEF InPlay
    <2> QED BY <1>5, <2>1, InPlayKept DEF RInv
  <1>7. Roles'
    BY <1>2 DEF RInv, Roles, Writing
  <1>8. NeverStopped'
    BY <1>1, <1>2, ProcFacts DEF RInv, NeverStopped
  <1>9. Taken'
    <2>1. th'[Disp] = th[Disp] /\ \A d \in Creature : th'[Settle(d)] = th[Settle(d)]
      BY <1>1, <1>2, ProcFacts
    <2> QED BY <1>1, <1>5, <2>1, RowsType DEF RInv, Taken, Inv, RowType
  <1>10. ReleasedByOwner'
    <2> SUFFICES ASSUME NEW d \in Creature, th'[Rec(d)].at = "release",
                        NEW i \in th'[Rec(d)].ids, rows'[i].epoch = drive'.epoch
                 PROVE  drive'.who = d
      BY DEF ReleasedByOwner
    <2>1. CASE d = c
      BY <1>1, <1>2, <2>1
    <2>2. CASE d # c
      <3>1. th'[Rec(d)] = th[Rec(d)]
        BY <1>2, <2>2, ProcFacts DEF Rec
      <3> QED BY <1>1, <3>1 DEF RInv, ReleasedByOwner
    <2> QED BY <2>1, <2>2
  <1>11. Fresh'
    <2>1. \A d \in Creature : MayRecover(d)' => MayRecover(d)
      BY <1>1, <1>2, ProcFacts DEF MayRecover, Recovering
    <2>2. ASSUME NEW i \in RowIds, InHand(i)', InHand(i) => Counts(i)
          PROVE  Counts(i)'
      <3>1. \A d \in Creature : Holds(Settle(d), i) => InHand(i)
        BY ProcFacts DEF InHand
      <3> QED BY <1>1, <1>3, <1>4, <2>2, <3>1 DEF Counts
    <2> QED BY <1>1, <1>5, <2>1, <2>2, DriveUntouched, FreshKept
  <1> QED BY <1>6, <1>7, <1>8, <1>9, <1>10, <1>11 DEF RInv

LEMMA RecoverRec == ASSUME Inv, Inv', RInv, NEW c \in Creature, Recover(c) PROVE RInv'
  <1> DEFINE p == Rec(c)
             released == [i \in RowIds |-> IF i \in th[p].claims /\ Row(i).st = "claimed"
                                           THEN [Row(i) EXCEPT !.st = "pending"] ELSE Row(i)]
             S == th[p].ids
  <1>1. /\ th[p].at = "recover" /\ th' = [th EXCEPT ![p] = Idle] /\ p \in Proc
        /\ UNCHANGED <<drive, gen, batch, up>>
        /\ rows' = IF RecoveryAdmitted(p) THEN Recovered(released, S) ELSE released
    BY ProcFacts DEF Recover, At, dispatcher, outside
  <1>2. Leaves(p) /\ th'[p].at = "idle"
    BY <1>1, SetLeaves, Typed DEF Idle, Acting, Writing, Recovering
  <1>3. MayRecover(c) /\ ~MayRecover(c)'
    BY <1>1, <1>2 DEF MayRecover, RInv, NeverStopped, Recovering
  <1>4. /\ DOMAIN released = RowIds
        /\ \A i \in RowIds : /\ released[i] \in RowType
                             /\ released[i].reason = rows[i].reason
                             /\ released[i].epoch = rows[i].epoch /\ released[i].who = rows[i].who
                             /\ \/ released[i].st = rows[i].st
                                \/ rows[i].st = "claimed" /\ released[i].st = "pending"
    <2>1. \A i \in RowIds : rows[i] \in RowType
      BY RowsType DEF Inv
    <2> QED BY <2>1 DEF Row, RowType, RowState
  <1>5. released \in [RowIds -> RowType]
    BY <1>4
  <1>6. released \in Seq(RowType) /\ Len(released) = Len(rows)
    BY <1>5, RowsAgain DEF Inv
  <1>7. \A q \in Proc : q # p => th'[q] = th[q]
    BY <1>2 DEF Leaves
  <1>8. \A d \in Creature : /\ th'[Settle(d)] = th[Settle(d)] /\ th'[StopOf(d)] = th[StopOf(d)]
                            /\ d # c => th'[Rec(d)] = th[Rec(d)]
    BY <1>7, ProcFacts DEF Rec
  <1>9. th'[Disp] = th[Disp] /\ th[p].at # "idle"
    BY <1>1, <1>7, ProcFacts
  <1>10. \A d \in Creature : MayRecover(d)' => MayRecover(d)
    BY <1>1, <1>3, <1>8 DEF MayRecover
  <1>11. /\ \A d \in Creature : up'[d] \/ th'[Rec(d)].at = "idle"
         /\ \A d \in Creature : th'[Rec(d)].at = "release" => th'[Rec(d)] = th[Rec(d)]
    BY <1>1, <1>2, <1>8 DEF RInv, NeverStopped
  <1> HIDE DEF released, S, p
  <1>12. \A q \in Proc : \A i : Holds(q, i)' => Holds(q, i)
    BY <1>2 DEF Holds, Leaves, Acting
  <1>13. \A i : InHand(i)' => InHand(i)
    BY <1>1, <1>12 DEF InHand
  <1>14. Roles' /\ NeverStopped'
    <2>1. Roles'
      BY <1>2, <1>7 DEF RInv, Roles, Acting, Leaves
    <2> QED BY <2>1, <1>8, <1>11 DEF RInv, NeverStopped
  <1>15. ASSUME RowIds \subseteq RowIds',
                \A i \in RowIds : rows'[i].epoch = rows[i].epoch /\ rows'[i].who = rows[i].who
         PROVE  Taken' /\ ReleasedByOwner'
    <2>1. Taken'
      <3> SUFFICES ASSUME th[Disp].at \in Writing
                   PROVE  /\ th[Disp].row \in RowIds'
                          /\ th'[Settle(rows'[th[Disp].row].who)].at = "idle"
        BY <1>9 DEF Taken
      <3>1. PICK i \in RowIds : i = th[Disp].row
        BY DEF RInv, Taken
      <3>2. rows[i].who \in Creature /\ th[Settle(rows[i].who)].at = "idle"
        BY <3>1, RowsType DEF RInv, Taken, Inv, RowType
      <3> QED BY <1>8, <1>15, <3>1, <3>2
    <2>2. ReleasedByOwner'
      <3>1. \A d \in Creature : th[Rec(d)].ids \subseteq RowIds
        BY ProcFacts DEF Inv, TypeOK
      <3> QED BY <1>1, <1>11, <1>15, <3>1 DEF RInv, ReleasedByOwner
    <2> QED BY <2>1, <2>2
  <1>16. CASE ~RecoveryAdmitted(p)
    <2>1. /\ Grows /\ RowIds' = RowIds
          /\ \A i \in RowIds : \/ rows'[i].st = rows[i].st
                               \/ rows[i].st = "claimed" /\ rows'[i].st = "pending"
      BY <1>1, <1>4, <1>16 DEF Grows, RowIds
    <2>2. OneInPlay'
      <3>1. \A i \in RowIds : InPlay(i)' => InPlay(i)
        BY <1>13, <2>1 DEF InPlay, Grows
      <3> QED BY <2>1, <3>1, InPlayKept DEF RInv
    <2>3. Fresh'
      <3>1. \A i \in RowIds : InHand(i)' /\ (InHand(i) => Counts(i)) => Counts(i)'
        <4>1. ASSUME NEW i \in RowIds, InHand(i)', InHand(i) => Counts(i)
              PROVE  Counts(i)'
          <5>1. Counts(i) /\ \A d \in Creature : Holds(Settle(d), i)' => Holds(Settle(d), i)
            BY <1>12, <1>13, <4>1, ProcFacts
          <5> QED BY <2>1, <5>1 DEF Counts
        <4> QED BY <4>1
      <3> QED BY <1>1, <1>10, <2>1, <3>1, DriveUntouched, FreshKept
    <2> QED BY <1>14, <1>15, <2>1, <2>2, <2>3 DEF RInv, Grows
  <1>17. CASE RecoveryAdmitted(p)
    <2>1. /\ drive.who = c /\ drive.who # None /\ gen \in Nat
          /\ \A i \in RowIds : ~(/\ rows[i].reason = "recovery" /\ rows[i].epoch = drive.epoch
                                 /\ rows[i].st # "superseded")
      <3>1. drive = th[p].seen /\ RecoveryOfEpoch(drive.epoch) = {}
        BY <1>17 DEF RecoveryAdmitted, StillJustified
      <3>2. th[Rec(c)].at = "recover" => th[Rec(c)].seen.who = c
        BY DEF Inv, Reads, At
      <3> QED BY <1>1, <3>1, <3>2, Typed, CreatureAssumption DEF p, RecoveryOfEpoch, Row
    <2> DEFINE f == Superseding(released, S)
    <2>2. f = [i \in RowIds |-> IF i \in S THEN [released[i] EXCEPT !.st = "superseded"]
                                ELSE released[i]]
      BY <1>4 DEF Superseding
    <2> HIDE DEF f
    <2>3. \A i \in RowIds : /\ f[i] \in RowType
                            /\ f[i].reason = rows[i].reason
                            /\ f[i].epoch = rows[i].epoch /\ f[i].who = rows[i].who
                            /\ f[i].st # "superseded" => rows[i].st # "superseded"
      <3>1. ASSUME NEW i \in RowIds
            PROVE  /\ f[i] \in RowType
                   /\ f[i].reason = rows[i].reason
                   /\ f[i].epoch = rows[i].epoch /\ f[i].who = rows[i].who
                   /\ f[i].st # "superseded" => rows[i].st # "superseded"
        <4>1. CASE i \notin S
          BY <1>4, <2>2, <4>1
        <4>2. CASE i \in S
          <5>1. f[i] = [released[i] EXCEPT !.st = "superseded"] /\ released[i] \in RowType
            BY <1>4, <2>2, <4>2
          <5> QED BY <1>4, <5>1 DEF RowType, RowState
        <4> QED BY <4>1, <4>2
      <3> QED BY <3>1
    <2>4. f \in [RowIds -> RowType]
      BY <2>2, <2>3
    <2>5. f \in Seq(RowType) /\ DOMAIN f = RowIds
      BY <2>4, RowsAgain DEF Inv
    <2>6. rows' = Append(f, NewRow(gen, "recovery")) /\ NewRow(gen, "recovery") \in RowType
      BY <1>1, <1>17, <2>1, NewRowType DEF f, Recovered, Inv
    <2> DEFINE k == Len(f) + 1
    <2>7. /\ RowIds' = RowIds \cup {k} /\ \A i \in RowIds : rows'[i] = f[i]
          /\ rows'[k].epoch = drive.epoch
      <3>1. NewRow(gen, "recovery").epoch = drive.epoch
        BY DEF NewRow
      <3> QED BY <2>5, <2>6, <3>1, AppendType DEF RowIds
    <2> HIDE DEF k
    <2>8. \A i \in RowIds : InPlay(i)' => InPlay(i)
      BY <1>13, <2>3, <2>7 DEF InPlay
    <2>9. \A i \in RowIds : InPlay(i) => rows[i].epoch # drive.epoch
      <3>1. ASSUME NEW i \in RowIds, InPlay(i), rows[i].epoch = drive.epoch
            PROVE  FALSE
        <4>1. rows[i].st = "superseded" /\ InHand(i) /\ rows[i].reason = "recovery"
          BY <2>1, <3>1 DEF InPlay
        <4>2. Counts(i)
          BY <1>3, <2>1, <3>1, <4>1 DEF RInv, Fresh
        <4> QED BY <4>1, <4>2 DEF Counts
      <3> QED BY <3>1
    <2>10. OneInPlay'
      BY <2>3, <2>7, <2>8, <2>9 DEF RInv, OneInPlay
    <2>11. Fresh'
      BY <1>1, <1>3, <2>1 DEF Fresh
    <2> QED BY <1>14, <1>15, <2>3, <2>7, <2>10, <2>11 DEF RInv
  <1> QED BY <1>16, <1>17

-----------------------------------------------------------------------------
(* The environment.                                                        *)

\* The operator's task starts a procedure, or none does.
LEMMA OperatorRec ==
  ASSUME Inv, Inv', RInv, Leaves(Ctl) \/ UNCHANGED th, Grows, DriveKept, UNCHANGED <<batch, up>>,
         \A i \in RowIds : rows'[i].st = rows[i].st
  PROVE  RInv'
  <1>1. Ctl \in Proc
    BY ProcFacts
  <1>2. LetsGo(Ctl)
    BY <1>1 DEF LetsGo, Leaves, Acting
  <1> QED BY <1>1, <1>2, LetsGoKept

LEMMA OperatorsRec ==
  ASSUME Inv, Inv', RInv,
         UpdateDrive \/ WakeDrive \/ ReplayDeadLetter \/ BecomesDue \/ UNCHANGED vars
         \/ \E st \in Status : Transition(st)
  PROVE  RInv'
  <1>1. Ctl \in Proc /\ th[Ctl] \in Task
    BY CtlFacts
  <1>2. CASE UpdateDrive
    <2>1. UNCHANGED <<rows, th, batch, up>> /\ drive' = [drive EXCEPT !.rev = @ + 1]
          /\ drive \in RecordType
      BY <1>2, Typed DEF UpdateDrive, dispatcher
    <2>2. DriveKept
      BY <2>1 DEF RecordType, DriveKept
    <2> QED BY <2>1, <2>2, UntouchedGrows, OperatorRec
  <1>3. CASE WakeDrive
    <2>1. /\ UNCHANGED <<rows, drive, batch, up>>
          /\ \E step \in {"wakeCas", "wakegenManual"} : ReadAndGoto(Ctl, step)
      BY <1>3 DEF WakeDrive, store, dispatcher
    <2>2. Leaves(Ctl)
      BY <1>1, <2>1, GotoLeaves DEF Acting, Writing, Recovering
    <2> QED BY <2>1, <2>2, UntouchedGrows, DriveUntouched, OperatorRec
  <1>4. CASE ReplayDeadLetter
    <2>1. /\ UNCHANGED <<drive, th, batch, up>> /\ drive.who # None
          /\ rows' = Append(rows, NewRow(gen, "retry"))
      BY <1>4 DEF ReplayDeadLetter, dispatcher
    <2> QED BY <2>1, AppendGrows, DriveUntouched, OperatorRec, Typed
  <1>5. CASE BecomesDue \/ UNCHANGED vars
    <2>1. UNCHANGED <<rows, drive, th, batch, up>>
      BY <1>5 DEF BecomesDue, vars, store, dispatcher
    <2> QED BY <2>1, UntouchedGrows, DriveUntouched, OperatorRec
  <1>6. ASSUME NEW st \in Status, Transition(st)
        PROVE  RInv'
    <2>1. /\ UNCHANGED <<rows, batch, up>> /\ TransitionTo(st)
          /\ \/ UNCHANGED th
             \/ th' = [th EXCEPT ![Ctl].at = "wakegen", ![Ctl].seen = drive']
      BY <1>6 DEF Transition, dispatcher
    <2>2. CASE th' = [th EXCEPT ![Ctl].at = "wakegen", ![Ctl].seen = drive']
      <3>1. th' = [th EXCEPT ![Ctl] = [th[Ctl] EXCEPT !.at = "wakegen", !.seen = drive']]
        BY <2>2
      <3>2. [th[Ctl] EXCEPT !.at = "wakegen", !.seen = drive'].at = "wakegen"
        BY <1>1 DEF Task
      <3>3. Leaves(Ctl)
        BY <1>1, <3>1, <3>2, SetLeaves DEF Acting, Writing, Recovering
      <3> QED BY <2>1, <3>3, UntouchedGrows, TransitionKept, OperatorRec
    <2>3. CASE UNCHANGED th
      BY <2>1, <2>3, UntouchedGrows, TransitionKept, OperatorRec
    <2> QED BY <2>1, <2>2, <2>3
  <1> QED BY <1>2, <1>3, <1>4, <1>5, <1>6

\* A new epoch: what is in hand belongs to those before.
LEMMA ReassignRec ==
  ASSUME Inv, Inv', RInv, NEW c \in Creature \cup {None}, Reassign(c), Leaves(Ctl) \/ UNCHANGED th
  PROVE  RInv'
  <1>1. drive.epoch \in Nat /\ drive'.epoch = drive.epoch + 1 /\ UNCHANGED <<batch, up>>
    BY Typed DEF Reassign, RecordType, dispatcher
  <1> DEFINE T == {i \in RowIds : Pending(Row(i))}
  <1>2. rows' = Superseding(rows, T)
    BY DEF Reassign
  <1> HIDE DEF T
  <1>3. /\ Grows /\ RowIds' = RowIds
        /\ \A i \in RowIds : rows'[i].st = IF i \in T THEN "superseded" ELSE rows[i].st
    <2>1. /\ RowIds' = RowIds
          /\ \A i \in RowIds : rows'[i] = IF i \in T THEN [rows[i] EXCEPT !.st = "superseded"]
                                          ELSE rows[i]
      BY <1>2, SupersedingType DEF Inv, RowIds
    <2>2. \A i \in RowIds : rows[i] \in RowType
      BY RowsType DEF Inv
    <2> QED BY <2>1, <2>2 DEF Grows, RowType
  <1>4. DriveKept
    BY ReassignKept
  <1>5. Ctl \in Proc /\ \A q \in Proc : th'[q] = th[q] \/ (q = Ctl /\ th'[q].at \notin Acting)
    BY ProcFacts DEF Leaves
  <1>6. \A q \in Proc : \A i : Holds(q, i)' => Holds(q, i)
    BY <1>5 DEF Holds, Acting
  <1>7. \A i : InHand(i)' => InHand(i)
    BY <1>1, <1>6 DEF InHand
  <1>8. OneInPlay'
    <2>1. \A i \in RowIds : InPlay(i)' => InPlay(i)
      BY <1>3, <1>7 DEF InPlay, Grows
    <2> QED BY <1>3, <2>1, InPlayKept DEF RInv
  <1>9. Roles'
    BY <1>5 DEF RInv, Roles, Acting
  <1>10. \A d \in Creature : /\ th'[Settle(d)] = th[Settle(d)] /\ th'[Rec(d)] = th[Rec(d)]
                             /\ th'[StopOf(d)] = th[StopOf(d)]
    BY <1>5, ProcFacts
  <1>11. NeverStopped'
    BY <1>1, <1>10 DEF RInv, NeverStopped
  <1>12. Taken'
    <2>1. th'[Disp] = th[Disp]
      BY <1>5, ProcFacts
    <2> SUFFICES ASSUME th[Disp].at \in Writing
                 PROVE  /\ th[Disp].row \in RowIds'
                        /\ th'[Settle(rows'[th[Disp].row].who)].at = "idle"
      BY <2>1 DEF Taken
    <2>2. PICK i \in RowIds : i = th[Disp].row
      BY DEF RInv, Taken
    <2>3. rows[i].who \in Creature /\ th[Settle(rows[i].who)].at = "idle"
      BY <2>2, RowsType DEF RInv, Taken, Inv, RowType
    <2> QED BY <1>3, <1>10, <2>2, <2>3 DEF Grows
  <1>13. ReleasedByOwner'
    <2>1. \A d \in Creature : th[Rec(d)].ids \subseteq RowIds
      BY ProcFacts DEF Inv, TypeOK
    <2>2. \A i \in RowIds : rows'[i].epoch # drive'.epoch
      BY <1>1, <1>3, EpochBefore, <1>4
    <2> QED BY <1>10, <2>1, <2>2 DEF ReleasedByOwner
  <1>14. Fresh'
    BY <1>1, <1>3, <1>4, EpochBefore DEF Fresh
  <1> QED BY <1>8, <1>9, <1>11, <1>12, <1>13, <1>14 DEF RInv

LEMMA AssignmentsRec ==
  ASSUME Inv, Inv', RInv, Unassign \/ \E c \in Creature : Assign(c)
  PROVE  RInv'
  <1>1. Ctl \in Proc /\ th[Ctl] \in Task
    BY CtlFacts
  <1>2. CASE Unassign
    BY <1>2, ReassignRec DEF Unassign
  <1>3. ASSUME NEW c \in Creature, Assign(c)
        PROVE  RInv'
    <2>1. /\ Reassign(c)
          /\ th' = [th EXCEPT ![Ctl] = [th[Ctl] EXCEPT !.at = "maybe", !.seen = drive']]
      BY <1>3 DEF Assign
    <2>2. [th[Ctl] EXCEPT !.at = "maybe", !.seen = drive'].at = "maybe"
      BY <1>1 DEF Task
    <2>3. Leaves(Ctl)
      BY <1>1, <2>1, <2>2, SetLeaves DEF Acting, Writing, Recovering
    <2> QED BY <2>1, <2>3, ReassignRec
  <1> QED BY <1>2, <1>3

\* Only a creature that is down starts, and then its reconciliation is idle.
LEMMA StartCreatureRec == ASSUME Inv, Inv', RInv, NEW c \in Creature, StartCreature(c) PROVE RInv'
  <1>1. /\ th[Rec(c)].at = "idle" /\ ~up[c] /\ UNCHANGED <<rows, drive, batch>>
        /\ up' = [up EXCEPT ![c] = TRUE] /\ Goto(Rec(c), "rebuild")
        /\ Rec(c) \in Proc /\ up \in [Creature -> BOOLEAN]
    BY ProcFacts, Typed DEF StartCreature, At, store, dispatcher, RInv, NeverStopped
  <1>2. /\ \A q \in Proc \ {Rec(c)} : th'[q] = th[q]
        /\ th'[Rec(c)].at = "rebuild"
    BY <1>1, Typed DEF Goto, Task
  <1>3. \A q \in Proc : \A i : Holds(q, i)' <=> Holds(q, i)
    BY <1>1, <1>2 DEF Holds, Writing
  <1>4. \A i : InHand(i)' <=> InHand(i)
    BY <1>1, <1>3 DEF InHand
  <1>5. Grows /\ RowIds' = RowIds
    BY <1>1, UntouchedGrows DEF RowIds
  <1>6. OneInPlay'
    <2>1. \A i \in RowIds : InPlay(i)' => InPlay(i)
      BY <1>1, <1>4 DEF InPlay
    <2> QED BY <1>5, <2>1, InPlayKept DEF RInv
  <1>7. Roles'
    BY <1>2 DEF RInv, Roles, Writing
  <1>8. \A d \in Creature : /\ th'[Settle(d)] = th[Settle(d)] /\ th'[StopOf(d)] = th[StopOf(d)]
                            /\ d # c => th'[Rec(d)] = th[Rec(d)] /\ up'[d] = up[d]
                            /\ d = c => up'[d]
    BY <1>1, <1>2, ProcFacts DEF Rec
  <1>9. NeverStopped'
    BY <1>8 DEF RInv, NeverStopped
  <1>10. Taken'
    <2>1. th'[Disp] = th[Disp]
      BY <1>1, <1>2, ProcFacts
    <2> QED BY <1>1, <1>5, <1>8, <2>1, RowsType DEF RInv, Taken, Inv, RowType
  <1>11. ReleasedByOwner'
    BY <1>1, <1>2, <1>8 DEF RInv, ReleasedByOwner
  <1>12. Fresh'
    <2>1. \A d \in Creature : MayRecover(d)' => MayRecover(d)
      BY <1>1, <1>8 DEF MayRecover
    <2>2. \A i \in RowIds : InHand(i)' /\ (InHand(i) => Counts(i)) => Counts(i)'
      BY <1>1, <1>3, <1>4, ProcFacts DEF Counts
    <2> QED BY <1>1, <1>5, <2>1, <2>2, DriveUntouched, FreshKept
  <1> QED BY <1>6, <1>7, <1>9, <1>10, <1>11, <1>12 DEF RInv

\* After a crash nothing is in hand.
LEMMA CrashRec == ASSUME Inv, Inv', RInv, Crash PROVE RInv'
  <1>1. /\ th' = [p \in Proc |-> Idle] /\ batch'.ids = {} /\ UNCHANGED <<rows, drive>>
        /\ Idle.at = "idle"
    BY DEF Crash, store, Idle
  <1>2. \A q \in Proc : th'[q].at = "idle"
    BY <1>1
  <1>3. \A i : ~InHand(i)'
    BY <1>1, <1>2 DEF InHand, Holds, Writing
  <1>4. Grows
    BY <1>1, UntouchedGrows
  <1>5. OneInPlay'
    <2>1. \A i \in RowIds : InPlay(i)' => InPlay(i)
      BY <1>1, <1>3 DEF InPlay
    <2> QED BY <1>4, <2>1, InPlayKept DEF RInv
  <1>6. Roles' /\ NeverStopped' /\ Taken' /\ ReleasedByOwner'
    BY <1>2, ProcFacts DEF Roles, NeverStopped, Taken, ReleasedByOwner, Writing
  <1>7. Fresh'
    BY <1>3 DEF Fresh
  <1> QED BY <1>5, <1>6, <1>7 DEF RInv

-----------------------------------------------------------------------------
LEMMA InitRec == ASSUME Init PROVE RInv
  <1>1. RowIds = {} /\ batch.ids = {} /\ up = [c \in Creature |-> TRUE]
    BY DEF Init, RowIds
  <1>2. \A p \in Proc : th[p].at \in {"idle", "maybe"}
    BY DEF Init, Idle
  <1>3. \A p \in Proc : p # Ctl => th[p].at = "idle"
    BY DEF Init, Idle
  <1>4. NeverStopped
    BY <1>1, <1>3, ProcFacts DEF NeverStopped
  <1>5. Roles /\ Taken /\ ReleasedByOwner
    BY <1>2, ProcFacts DEF Roles, Taken, ReleasedByOwner, Writing
  <1> QED BY <1>1, <1>4, <1>5 DEF RInv, OneInPlay, Fresh

LEMMA NextRec ==
  ASSUME "stop" \notin Ops, Inv, RInv, [Next]_vars
  PROVE  RInv'
  <1>0. Inv'
    BY NextInv
  <1>1. ASSUME NEW p \in Proc, Procedure(p)
        PROVE  RInv'
    BY <1>0, <1>1, QuietStepsRec, WritesRec, OnFailureRec, ReleaseRec DEF Procedure
  <1>2. CASE Round
    BY <1>0, <1>2, PlainRoundRec, ClaimRec, ConsiderRec, DeliverRec, AdmitRec, DeferRec DEF Round
  <1>3. ASSUME NEW c \in Creature, Settling(c)
        PROVE  RInv'
    BY <1>0, <1>3, ProcFacts, TurnEndsRec, AcknowledgeRec, AsideRec DEF Settling
  <1>4. ASSUME NEW c \in Creature, Lifecycle(c)
        PROVE  RInv'
    <2>1. ~ListClaims(c)
      BY DEF ListClaims, At, RInv, NeverStopped
    <2>2. Rec(c) \in Proc
      BY ProcFacts
    <2> QED BY <1>0, <1>4, <2>1, <2>2, RebuildRec, LookRec, RecoverRec, AsideRec DEF Lifecycle
  <1>5. CASE Environment
    <2>1. \A c \in Creature : ~StopCreature(c)
      BY DEF StopCreature, Performs
    <2> QED BY <1>0, <1>5, <2>1, OperatorsRec, AssignmentsRec, StartCreatureRec, CrashRec DEF Environment
  <1>6. CASE UNCHANGED vars
    BY <1>0, <1>6, OperatorsRec
  <1> QED BY <1>1, <1>2, <1>3, <1>4, <1>5, <1>6 DEF Next

\* As long as no creature is stopped while the process is up, an epoch has at
\* most one recovery that is not superseded, however often the process crashes
\* and whatever the operators do (reconcile.py, _recovery_admitted_in_txn).  The
\* release of claims on a stop writes rows back that were superseded meanwhile.
THEOREM RecoversOnce ==
  ASSUME "stop" \notin Ops
  PROVE  Spec => []OneRecoveryPerEpoch
  <1>1. Init => Inv /\ RInv
    BY InitInv, InitRec
  <1>2. Inv /\ RInv /\ [Next]_vars => (Inv /\ RInv)'
    BY NextInv, NextRec
  <1>3. Inv /\ RInv => OneRecoveryPerEpoch
    BY DEF OneRecoveryPerEpoch, RecoveryOfEpoch, RInv, OneInPlay, InPlay, Row
  <1> QED BY <1>1, <1>2, <1>3, PTL DEF Spec

-----------------------------------------------------------------------------
(* No creature is stopped, nothing crashes, and no operator reopens,        *)
(* changes or reassigns the Drive.  Then a row that is acknowledged stays   *)
(* so, whoever means to write a row still finds it as it was, and every     *)
(* generation before a row's own has been settled by a turn.                *)

Undisturbed ==
    Ops \cap {"crash", "stop", "update", "wake", "active", "waiting", "assign", "unassign"} = {}

\* The steps that nothing reaches then, and those at which a task has a row.
Disturbed == {"wakegen", "wakegenManual", "wakeCas", "maybeManual", "interrupted", "defer",
              "list", "release", "rebuild", "look", "recover", "resume"}
WithRow == {"deliver", "admit", "turn", "ack", "ackUser", "fail"}

Reached(rs, g) == \A h \in 0..(g - 1) : \E i \in DOMAIN rs : rs[i].gen = h /\ SettledByTurn(rs[i])
Granted(g) == Autonomy = "auto" => g < Budget

\* The dispatcher's row is still claimed, and fit to be admitted; that of a turn
\* is still admitted.
Kept(p) ==
    LET i == th[p].row
    IN  /\ i \in RowIds
        /\ \/ p = Disp /\ i \notin batch.ids /\ rows[i].st = "claimed" /\ rows[i].rev = 1
           \/ (\E c \in Creature : p = Settle(c)) /\ rows[i].st = "admitted"

TaskFine(p) ==
    /\ th[p].at \notin Disturbed
    /\ th[p].at \in WithRow => Kept(p)
    /\ th[p].at = "advance" => Reached(rows, th[p].n + 1) /\ Granted(th[p].n + 1)
    /\ th[p].at = "enqueue" => Granted(0)

RowFine(i) ==
    /\ rows[i].epoch = 0
    /\ rows[i].byUser => rows[i].st = "acknowledged"
    /\ Committed(rows[i]) => rows[i].rev = 1
    /\ i \in batch.ids => rows[i].st = "claimed"
    /\ Reached(rows, rows[i].gen) /\ Granted(rows[i].gen)

\* An active record is of the first revision.
FirstRevision ==
    /\ drive.epoch = 0 /\ drive.st # "waiting"
    /\ drive.st = "active" => drive.rev = 1
    /\ batch.view.st = "active" => batch.view.rev = 1

AllUp == \A c \in Creature : up[c]
Continued == Reached(rows, gen) /\ (gen = 0 \/ Granted(gen))

Calm == /\ FirstRevision /\ AllUp /\ Continued
        /\ \A i \in RowIds : RowFine(i)
        /\ \A p \in Proc : TaskFine(p)

\* The rows stay, and what is acknowledged stays as it is.
Lasting ==
    /\ RowIds \subseteq RowIds'
    /\ \A i \in RowIds :
        /\ rows'[i].gen = rows[i].gen /\ rows'[i].rev = rows[i].rev /\ rows'[i].epoch = rows[i].epoch
        /\ rows[i].st = "acknowledged" => rows'[i] = rows[i]

Alone(p) == \A q \in Proc \ {p} : th'[q] = th[q]
Special == Disturbed \cup WithRow \cup {"advance", "enqueue"}

LEMMA ReachedStays ==
  ASSUME Lasting, NEW g, Reached(rows, g)
  PROVE  Reached(rows', g)
  BY DEF Reached, Lasting, SettledByTurn, RowIds

LEMMA ReachedNext ==
  ASSUME Inv, Reached(rows, gen), NEW e, Settled(gen, e) # {}
  PROVE  Reached(rows, gen + 1)
  <1>1. gen \in Nat /\ 0..((gen + 1) - 1) = 0..(gen - 1) \cup {gen}
    BY Typed
  <1>2. \E i \in RowIds : rows[i].gen = gen /\ SettledByTurn(rows[i])
    BY DEF Settled, Row
  <1> QED BY <1>1, <1>2 DEF Reached, RowIds

\* Each generation reached cost a turn.
LEMMA ReachedCost ==
  ASSUME Inv, NEW g \in Nat, Reached(rows, g)
  PROVE  g <= TurnsUsed({})
  <1> DEFINE A == {i \in RowIds \ {} : Row(i).st = "acknowledged"}
             G == 0..(g - 1)
             f == [h \in G |-> CHOOSE i \in A : rows[i].gen = h]
  <1>1. IsFiniteSet(A)
    <2>1. IsFiniteSet(RowIds)
      BY RowsType, FS_Interval DEF Inv
    <2> QED BY <2>1, FS_Subset
  <1>2. \A h \in G : f[h] \in A /\ rows[f[h]].gen = h
    BY DEF Reached, SettledByTurn, RowIds, Row
  <1>3. f \in Injection(G, A)
    <2>1. f \in [G -> A]
      BY <1>2
    <2>2. \A h, k \in G : f[h] = f[k] => h = k
      <3> HIDE DEF f
      <3> QED BY <1>2
    <2> HIDE DEF f
    <2> QED BY <2>1, <2>2 DEF Injection, IsInjective
  <1>4. Cardinality(G) = g
    BY FS_Interval
  <1> HIDE DEF f, A, G
  <1>5. Cardinality(G) <= Cardinality(A)
    BY <1>1, <1>3, FS_Injection
  <1> QED BY <1>4, <1>5 DEF A, TurnsUsed

-----------------------------------------------------------------------------
(* What becomes of a task and of a row.                                    *)

LEMMA GotoAt ==
  ASSUME Inv, NEW p \in Proc, NEW step, Goto(p, step) \/ ReadAndGoto(p, step)
  PROVE  Alone(p) /\ th'[p].at = step /\ th'[p].row = th[p].row
  <1>1. th[p] \in Task /\ th \in [Proc -> Task]
    BY Typed
  <1>2. PICK t : /\ th' = [th EXCEPT ![p] = t]
                 /\ \/ t = [th[p] EXCEPT !.at = step]
                    \/ t = [th[p] EXCEPT !.at = step, !.seen = drive]
    BY DEF Goto, ReadAndGoto
  <1>3. t.at = step /\ t.row = th[p].row
    BY <1>1, <1>2 DEF Task
  <1> QED BY <1>1, <1>2, <1>3 DEF Alone

LEMMA EndsAt ==
  ASSUME Inv, NEW p \in Proc, NEW step, EndingAt(p, step)
  PROVE  Alone(p) /\ th'[p].at = step
  <1>1. th' = [th EXCEPT ![p] = [Idle EXCEPT !.at = step]] /\ th \in [Proc -> Task]
    BY Typed DEF EndingAt
  <1>2. [Idle EXCEPT !.at = step].at = step
    BY DEF Idle
  <1> QED BY <1>1, <1>2 DEF Alone

LEMMA FinishAt ==
  ASSUME Inv, NEW p \in Proc, Finish(p)
  PROVE  Alone(p) /\ th'[p].at \notin Special
  <1>1. th[p].ret \in {"idle", "scanActive", "claim", "consider"}
    BY DEF Inv, Returns
  <1> QED BY <1>1, EndsAt DEF Finish, Special, Disturbed, WithRow

LEMMA PlainFine ==
  ASSUME NEW p, th'[p].at \notin Special
  PROVE  TaskFine(p)'
  BY DEF TaskFine, Special

LEMMA TaskKept ==
  ASSUME Inv, NEW q \in Proc, TaskFine(q), Lasting, th'[q] = th[q],
         th[q].at \in WithRow => rows'[th[q].row].st = rows[th[q].row].st,
         q = Disp => batch'.ids \subseteq batch.ids
  PROVE  TaskFine(q)'
  <1>1. th[q].at \in WithRow => Kept(q)'
    BY DEF TaskFine, Kept, Lasting
  <1> QED BY <1>1, ReachedStays DEF TaskFine, WithRow

LEMMA RowKept ==
  ASSUME NEW i \in RowIds, RowFine(i), Lasting, rows'[i] = rows[i],
         i \in batch'.ids => i \in batch.ids
  PROVE  RowFine(i)'
  BY ReachedStays DEF RowFine

LEMMA RowsSame ==
  ASSUME UNCHANGED rows
  PROVE  Lasting /\ RowIds' = RowIds
  BY DEF Lasting, RowIds

\* A step of one task that leaves the rows alone.
LEMMA QuietCalm ==
  ASSUME Inv, Calm, NEW p \in Proc, UNCHANGED <<rows, gen, up>>, Alone(p), TaskFine(p)',
         batch'.ids \subseteq batch.ids, FirstRevision'
  PROVE  Calm'
  <1>1. Lasting /\ RowIds' = RowIds
    BY RowsSame
  <1>2. \A i \in RowIds' : RowFine(i)'
    BY <1>1, RowKept DEF Calm
  <1>3. \A q \in Proc : TaskFine(q)'
    BY <1>1, TaskKept DEF Calm, Alone
  <1> QED BY <1>1, <1>2, <1>3 DEF Calm, AllUp, Continued

\* No one else writes the row a task has, and it is not in the batch.
LEMMA OwnRow ==
  ASSUME Inv, Calm, NEW p \in Proc, th[p].at \in WithRow
  PROVE  /\ th[p].row \in RowIds \ batch.ids
         /\ rows[th[p].row].st \in {"claimed", "admitted"}
         /\ p # Disp => rows[th[p].row].st = "admitted"
         /\ \A q \in Proc \ {p} : th[q].at \in WithRow => th[q].row # th[p].row
  <1>1. \A q \in Proc : th[q].at \in WithRow => Kept(q)
    BY DEF Calm, TaskFine
  <1>2. \A c \in Creature : th[Settle(c)].at \in WithRow => rows[th[Settle(c)].row].who = c
    BY DEF Inv, Holding, InTurn, At, WithRow, Row
  <1>3. \A i \in batch.ids : rows[i].st = "claimed"
    BY Typed DEF Calm, RowFine, Round_
  <1> QED BY <1>1, <1>2, <1>3, ProcFacts DEF Kept

\* A step of the task that has row i, which writes it.
LEMMA WriteCalm ==
  ASSUME Inv, Calm, NEW p \in Proc, th[p].at \in WithRow, NEW i, i = th[p].row,
         RowIds' = RowIds, \A j \in RowIds \ {i} : rows'[j] = rows[j],
         rows'[i].gen = rows[i].gen, rows'[i].rev = rows[i].rev, rows'[i].epoch = rows[i].epoch,
         rows'[i].byUser => rows'[i].st = "acknowledged",
         Committed(rows'[i]) => rows[i].rev = 1,
         \A q \in Proc \ {p} : th'[q] = th[q] \/ TaskFine(q)',
         th'[p].at \notin Special, UNCHANGED <<drive, gen, batch, up>>
  PROVE  Calm'
  <1>1. /\ i \in RowIds \ batch.ids /\ rows[i].st # "acknowledged"
        /\ \A q \in Proc \ {p} : th[q].at \in WithRow => th[q].row \in RowIds \ {i}
    BY OwnRow DEF Calm, TaskFine, Kept
  <1>2. Lasting
    BY <1>1 DEF Lasting
  <1>3. \A j \in RowIds' : RowFine(j)'
    <2>1. RowFine(i)'
      BY <1>1, <1>2, ReachedStays DEF Calm, RowFine
    <2>2. \A j \in RowIds \ {i} : RowFine(j)'
      BY <1>2, RowKept DEF Calm
    <2> QED BY <2>1, <2>2
  <1>4. \A q \in Proc : TaskFine(q)'
    <2>1. TaskFine(p)'
      BY PlainFine
    <2>2. \A q \in Proc \ {p} : th'[q] = th[q] => TaskFine(q)'
      BY <1>1, <1>2, TaskKept DEF Calm
    <2> QED BY <2>1, <2>2
  <1>5. Continued'
    BY <1>2, ReachedStays DEF Calm, Continued
  <1> QED BY <1>3, <1>4, <1>5 DEF Calm, AllUp, FirstRevision

\* A new row, of a generation that is reached and granted.
LEMMA NewRowCalm ==
  ASSUME Inv, Calm, drive.who # None, NEW g \in Nat, Reached(rows, g), Granted(g),
         NEW reason \in {"ready", "retry"}, rows' = Append(rows, NewRow(g, reason)),
         \A q \in Proc : th'[q] = th[q] \/ th'[q].at \notin Special,
         UNCHANGED <<drive, batch, up>>, gen' = gen \/ gen' = g
  PROVE  Calm'
  <1>0. PICK n : n = Len(rows) + 1
    OBVIOUS
  <1>1. /\ RowIds' = RowIds \cup {n} /\ \A i \in RowIds : rows'[i] = rows[i]
        /\ rows'[n] = NewRow(g, reason) /\ n \notin RowIds
    <2>1. rows \in Seq(RowType) /\ NewRow(g, reason) \in RowType
      BY Typed, NewRowType DEF Inv
    <2> QED BY <1>0, <2>1, AppendType DEF RowIds
  <1>2. Lasting
    BY <1>1 DEF Lasting
  <1>3. RowFine(n)'
    <2>1. Reached(rows', g)
      BY <1>2, ReachedStays
    <2>2. n \notin batch'.ids
      BY <1>1, Typed DEF Round_
    <2>3. drive.epoch = 0
      BY DEF Calm, FirstRevision
    <2>4. /\ rows'[n].gen = g /\ rows'[n].epoch = 0 /\ rows'[n].byUser = FALSE
          /\ rows'[n].st = "pending"
      <3>1. rows'[n] = NewRow(g, reason)
        BY <1>1
      <3>2. /\ NewRow(g, reason).gen = g /\ NewRow(g, reason).epoch = 0
            /\ NewRow(g, reason).byUser = FALSE /\ NewRow(g, reason).st = "pending"
        BY <2>3 DEF NewRow
      <3> QED BY <3>1, <3>2, Zenon
    <2> QED BY <2>1, <2>2, <2>4 DEF RowFine, Committed
  <1>4. \A i \in RowIds' : RowFine(i)'
    BY <1>1, <1>2, <1>3, RowKept DEF Calm
  <1>5. \A q \in Proc : TaskFine(q)'
    <2>1. \A q \in Proc : th[q].at \in WithRow => th[q].row \in RowIds
      BY DEF Calm, TaskFine, Kept
    <2> QED BY <1>1, <1>2, <2>1, TaskKept, PlainFine DEF Calm
  <1>6. Continued'
    BY <1>2, ReachedStays DEF Calm, Continued
  <1> QED BY <1>4, <1>5, <1>6 DEF Calm, AllUp, FirstRevision

-----------------------------------------------------------------------------
(* The steps.                                                              *)

LEMMA MaybeEnqueueCalm == ASSUME Inv, Calm, NEW p \in Proc, MaybeEnqueue(p) PROVE Calm'
  <1>1. UNCHANGED <<rows, gen, up, drive, batch>>
    BY DEF MaybeEnqueue, store, outside
  <1>2. ~At(p, "maybeManual")
    BY DEF Calm, TaskFine, At, Disturbed
  <1>3. \/ Goto(p, "enqueue") /\ ReadinessAdmits(th[p].seen, {})
        \/ Goto(p, "rearm")
        \/ Finish(p)
    BY <1>2 DEF MaybeEnqueue
  <1>4. Alone(p) /\ TaskFine(p)'
    <2>1. CASE Goto(p, "enqueue") /\ ReadinessAdmits(th[p].seen, {})
      <3>1. Granted(0)
        BY <2>1, TurnsUsedType, PolicyAssumption DEF Granted, ReadinessAdmits, WithinBudget, Inv
      <3> QED BY <2>1, <3>1, GotoAt DEF TaskFine, Disturbed, WithRow
    <2>2. CASE Goto(p, "rearm")
      BY <2>2, GotoAt, PlainFine DEF Special, Disturbed, WithRow
    <2> QED BY <1>3, <2>1, <2>2, FinishAt, PlainFine
  <1> QED BY <1>1, <1>4, QuietCalm DEF Calm, FirstRevision

LEMMA ReevaluateReadinessCalm ==
  ASSUME Inv, Calm, NEW p \in Proc, ReevaluateReadiness(p)
  PROVE  Calm'
  <1>1. UNCHANGED <<rows, gen, up, drive, batch>>
    BY DEF ReevaluateReadiness, store, outside
  <1>2. \/ /\ th' = [th EXCEPT ![p].at = "advance", ![p].n = gen]
           /\ Settled(gen, th[p].seen.epoch) # {}
           /\ WithinBudget({})
        \/ Goto(p, "maybe")
        \/ Finish(p)
    BY DEF ReevaluateReadiness
  <1>3. Alone(p) /\ TaskFine(p)'
    <2>1. CASE /\ th' = [th EXCEPT ![p].at = "advance", ![p].n = gen]
               /\ Settled(gen, th[p].seen.epoch) # {}
               /\ WithinBudget({})
      <3>1. Reached(rows, gen + 1)
        BY <2>1, ReachedNext DEF Calm, Continued
      <3>2. gen + 1 \in Nat /\ gen + 1 <= TurnsUsed({}) /\ TurnsUsed({}) < Budget
        BY <2>1, <3>1, Typed, ReachedCost DEF WithinBudget
      <3>3. Granted(gen + 1)
        BY <3>2, TurnsUsedType, PolicyAssumption DEF Granted, Inv
      <3>4. Alone(p) /\ th'[p].at = "advance" /\ th'[p].n = gen
        <4>1. th' = [th EXCEPT ![p] = [th[p] EXCEPT !.at = "advance", !.n = gen]]
          BY <2>1
        <4>2. th[p] \in Task /\ th \in [Proc -> Task]
          BY Typed
        <4>3. PICK t : t = [th[p] EXCEPT !.at = "advance", !.n = gen]
          OBVIOUS
        <4>4. t.at = "advance" /\ t.n = gen
          BY <4>2, <4>3 DEF Task
        <4> QED BY <4>1, <4>2, <4>3, <4>4 DEF Alone
      <3>5. Reached(rows', th'[p].n + 1) /\ Granted(th'[p].n + 1)
        BY <1>1, <3>1, <3>3, <3>4
      <3> QED BY <3>4, <3>5 DEF TaskFine, Disturbed, WithRow
    <2>2. CASE Goto(p, "maybe")
      BY <2>2, GotoAt, PlainFine DEF Special, Disturbed, WithRow
    <2> QED BY <1>2, <2>1, <2>2, FinishAt, PlainFine
  <1> QED BY <1>1, <1>3, QuietCalm DEF Calm, FirstRevision

LEMMA SuspendingCalm ==
  ASSUME Inv, Calm, NEW p \in Proc, ReadToSuspend(p) \/ Suspend(p)
  PROVE  Calm'
  <1>1. UNCHANGED <<rows, gen, up, batch>>
    BY DEF ReadToSuspend, Suspend, store, outside
  <1>2. \/ \E step \in {"block", "pause"} : ReadAndGoto(p, step)
        \/ Finish(p)
    BY DEF ReadToSuspend, Suspend
  <1>3. Alone(p) /\ th'[p].at \notin Special
    BY <1>2, GotoAt, FinishAt DEF Special, Disturbed, WithRow
  <1>4. FirstRevision'
    <2>1. UNCHANGED drive \/ TransitionTo("blocked") \/ TransitionTo("paused")
      BY DEF ReadToSuspend, Suspend, store
    <2>2. \/ UNCHANGED drive
          \/ drive'.epoch = drive.epoch /\ drive'.st \in {"blocked", "paused"}
      BY <2>1, Typed DEF TransitionTo, RecordType
    <2> QED BY <1>1, <2>2 DEF Calm, FirstRevision
  <1> QED BY <1>1, <1>3, <1>4, PlainFine, QuietCalm

LEMMA EnqueueCalm ==
  ASSUME Inv, Calm, NEW p \in Proc, NEW g \in Nat, Reached(rows, g), Granted(g), WriteRow(p, g),
         UNCHANGED <<drive, batch, up>>, gen' = gen \/ gen' = g
  PROVE  Calm'
  <1>1. CASE drive.who # None
    <2>1. rows' = Append(rows, NewRow(g, "ready")) /\ Finish(p)
      BY <1>1 DEF WriteRow
    <2> QED BY <1>1, <2>1, FinishAt, NewRowCalm DEF Alone
  <1>2. CASE drive.who = None
    <2>1. UNCHANGED rows /\ EndingAt(p, "idle")
      BY <1>2 DEF WriteRow
    <2>2. Alone(p) /\ TaskFine(p)'
      BY <2>1, EndsAt, PlainFine DEF Special, Disturbed, WithRow
    <2>3. \A q \in Proc : TaskFine(q)'
      BY <2>1, <2>2, RowsSame, TaskKept DEF Calm, Alone
    <2>4. \A i \in RowIds' : RowFine(i)'
      BY <2>1, RowsSame, RowKept DEF Calm
    <2> QED BY <2>1, <2>3, <2>4 DEF Calm, AllUp, FirstRevision, Continued
  <1> QED BY <1>1, <1>2

LEMMA WritesCalm ==
  ASSUME Inv, Calm, NEW p \in Proc, Enqueue(p) \/ Advance(p)
  PROVE  Calm'
  <1>1. UNCHANGED <<drive, batch, up>>
    BY DEF Enqueue, Advance, outside
  <1>2. CASE Enqueue(p)
    <2>1. th[p].at = "enqueue" /\ WriteRow(p, gen) /\ gen' = gen /\ gen \in Nat
      BY <1>2, Typed DEF Enqueue, At
    <2>2. Granted(gen)
      BY <2>1 DEF Calm, TaskFine, Continued
    <2> QED BY <1>1, <2>1, <2>2, EnqueueCalm DEF Calm, Continued
  <1>3. CASE Advance(p)
    <2>1. PICK g : g = th[p].n + 1
      OBVIOUS
    <2>2. th[p].at = "advance" /\ WriteRow(p, g) /\ gen' = g
      BY <1>3, <2>1 DEF Advance, At
    <2>3. g \in Nat
      BY <2>1, Typed DEF Task
    <2> QED BY <1>1, <2>1, <2>2, <2>3, EnqueueCalm DEF Calm, TaskFine
  <1> QED BY <1>2, <1>3

LEMMA OnFailureCalm == ASSUME Inv, Calm, NEW p \in Proc, OnFailure(p) PROVE Calm'
  <1>1. UNCHANGED <<drive, gen, batch, up>> /\ th[p].at = "fail"
    BY DEF OnFailure, outside, Calm, TaskFine, Disturbed
  <1>2. PICK i, attempt : i = th[p].row /\ attempt = th[p].n + 1
    OBVIOUS
  <1>3. \/ /\ rows' = [rows EXCEPT ![i].st = "retry_wait", ![i].attempt = attempt]
           /\ Finish(p)
        \/ MarkRow(i, "dead_letter") /\ Goto(p, "deadread")
    BY <1>2 DEF OnFailure
  <1>4. Alone(p) /\ th'[p].at \notin Special
    BY <1>3, GotoAt, FinishAt DEF Special, Disturbed, WithRow
  <1>5. i \in RowIds /\ rows[i] \in RowType /\ rows \in [RowIds -> RowType]
    <2>1. i \in RowIds
      BY <1>1, <1>2, OwnRow DEF WithRow
    <2> QED BY <2>1, RowsType DEF Inv, TypeOK, RowIds
  <1>6. PICK r : /\ rows' = [rows EXCEPT ![i] = r]
                 /\ \/ r = [rows[i] EXCEPT !.st = "retry_wait", !.attempt = attempt]
                    \/ r = [rows[i] EXCEPT !.st = "dead_letter"]
    BY <1>3 DEF MarkRow
  <1>7. /\ r.st \in {"retry_wait", "dead_letter"} /\ r.gen = rows[i].gen /\ r.rev = rows[i].rev
        /\ r.epoch = rows[i].epoch /\ r.byUser = rows[i].byUser
    BY <1>5, <1>6 DEF RowType
  <1>8. ~rows[i].byUser
    <2>1. rows[i].st # "acknowledged"
      BY <1>1, <1>2, OwnRow DEF WithRow
    <2> QED BY <1>5, <2>1 DEF Calm, RowFine
  <1>9. RowIds' = RowIds /\ rows'[i] = r /\ \A j \in RowIds \ {i} : rows'[j] = rows[j]
    BY <1>5, <1>6 DEF RowIds
  <1> QED BY <1>1, <1>2, <1>4, <1>7, <1>8, <1>9, WriteCalm DEF Alone, Committed, WithRow

LEMMA AcknowledgeCalm == ASSUME Inv, Calm, NEW p \in Proc, Acknowledge(p) PROVE Calm'
  <1>1. UNCHANGED <<drive, gen, batch, up>> /\ th[p].at \in WithRow
    BY DEF Acknowledge, outside, dispatcher, WithRow
  <1>2. PICK i, b : /\ i = th[p].row
                    /\ rows' = [rows EXCEPT ![i].st = "acknowledged", ![i].acked = TRUE,
                                            ![i].byUser = b]
    BY DEF Acknowledge
  <1>3. Alone(p) /\ th'[p].at \notin Special
    BY GotoAt DEF Acknowledge, Special, Disturbed, WithRow
  <1>4. i \in RowIds /\ rows[i] \in RowType /\ rows \in [RowIds -> RowType]
    <2>1. i \in RowIds
      BY <1>1, <1>2, OwnRow
    <2> QED BY <2>1, RowsType DEF Inv, TypeOK, RowIds
  <1>5. PICK r : /\ rows' = [rows EXCEPT ![i] = r]
                 /\ r = [rows[i] EXCEPT !.st = "acknowledged", !.acked = TRUE, !.byUser = b]
    BY <1>2
  <1>6. /\ r.st = "acknowledged" /\ r.gen = rows[i].gen /\ r.rev = rows[i].rev
        /\ r.epoch = rows[i].epoch
    BY <1>4, <1>5 DEF RowType
  <1>7. rows[i].rev = 1
    <2>1. rows[i].st = "admitted"
      <3>1. p # Disp
        BY ProcFacts DEF Acknowledge, Inv, Returns
      <3> QED BY <1>1, <1>2, <3>1, OwnRow
    <2> QED BY <1>4, <2>1 DEF Calm, RowFine, Committed
  <1>8. RowIds' = RowIds /\ rows'[i] = r /\ \A j \in RowIds \ {i} : rows'[j] = rows[j]
    BY <1>4, <1>5 DEF RowIds
  <1>9. /\ rows'[i].byUser => rows'[i].st = "acknowledged"
        /\ rows'[i].gen = rows[i].gen /\ rows'[i].rev = rows[i].rev /\ rows'[i].epoch = rows[i].epoch
    BY <1>6, <1>8
  <1>10. i = th[p].row
    BY <1>2
  <1>11. \A q \in Proc \ {p} : th'[q] = th[q] \/ TaskFine(q)'
    BY <1>3 DEF Alone
  <1> QED BY <1>1, <1>3, <1>7, <1>8, <1>9, <1>10, <1>11, WriteCalm

LEMMA ScanCalm ==
  ASSUME Inv, Calm, ScanWaiting \/ ScanActive \/ Prepare \/ EndRound
  PROVE  Calm'
  <1>1. UNCHANGED <<rows, gen, up, drive>> /\ Disp \in Proc
    BY ProcFacts DEF ScanWaiting, ScanActive, Prepare, EndRound, store, outside
  <1>2. FirstRevision' /\ batch'.ids \subseteq batch.ids
    <2>1. batch' \in {batch, [batch EXCEPT !.view = drive], [ids |-> {}, view |-> Blank, tried |-> {}]}
      BY DEF ScanWaiting, ScanActive, Prepare, EndRound, dispatcher
    <2>2. batch'.ids \in {batch.ids, {}} /\ batch'.view \in {batch.view, drive, Blank}
      BY <2>1, Typed DEF Round_
    <2> QED BY <1>1, <2>2 DEF Calm, FirstRevision, Blank
  <1>3. Alone(Disp) /\ th'[Disp].at \notin Special
    <2>1. CASE ScanWaiting \/ Prepare
      <3>1. Goto(Disp, "scanActive") \/ Goto(Disp, "consider")
        BY <2>1 DEF ScanWaiting, Prepare, Calm, FirstRevision
      <3> QED BY <1>1, <3>1, GotoAt DEF Special, Disturbed, WithRow
    <2>2. CASE ScanActive
      <3>1. CASE Goto(Disp, "claim")
        BY <1>1, <3>1, GotoAt DEF Special, Disturbed, WithRow
      <3>2. CASE ~Goto(Disp, "claim")
        <4>1. PICK step \in {"rearm", "maybe"} :
                th' = [th EXCEPT ![Disp].seen = drive, ![Disp].ret = "claim", ![Disp].at = step]
          BY <2>2, <3>2 DEF ScanActive
        <4>2. th[Disp] \in Task /\ th \in [Proc -> Task]
          BY <1>1, Typed
        <4>3. PICK t : /\ t = [th[Disp] EXCEPT !.seen = drive, !.ret = "claim", !.at = step]
                       /\ th' = [th EXCEPT ![Disp] = t]
          BY <4>1
        <4>4. t.at = step
          BY <4>2, <4>3 DEF Task
        <4> QED BY <1>1, <4>2, <4>3, <4>4 DEF Alone, Special, Disturbed, WithRow
      <3> QED BY <3>1, <3>2
    <2>3. CASE EndRound
      <3>1. th' = [th EXCEPT ![Disp] = Idle] /\ Idle.at = "idle" /\ th \in [Proc -> Task]
        BY <2>3, Typed DEF EndRound, Idle
      <3> QED BY <1>1, <3>1 DEF Alone, Special, Disturbed, WithRow
    <2> QED BY <2>1, <2>2, <2>3
  <1> QED BY <1>1, <1>2, <1>3, PlainFine, QuietCalm

LEMMA ClaimCalm == ASSUME Inv, Calm, NEW late, Claim(late) PROVE Calm'
  <1>1. UNCHANGED <<gen, up, drive>> /\ Disp \in Proc
    BY ProcFacts DEF Claim, outside
  <1>2. Alone(Disp) /\ th'[Disp].at \notin Special
    BY <1>1, GotoAt DEF Claim, Special, Disturbed, WithRow
  <1>3. PICK S : /\ S = {i \in RowIds : Claimable(Row(i)) /\ (Row(i).st = "retry_wait" => i \in late)}
                 /\ batch' = [ids |-> S, view |-> Blank, tried |-> {}]
                 /\ rows' = [i \in RowIds |->
                               IF i \in S THEN [Row(i) EXCEPT !.st = "claimed"] ELSE Row(i)]
    BY DEF Claim
  <1>4. /\ RowIds' = RowIds /\ \A i \in RowIds : i \notin S => rows'[i] = rows[i]
        /\ \A i \in S : i \in RowIds /\ rows[i].st \in {"pending", "retry_wait", "claimed"}
    BY <1>3 DEF RowIds, Row, Claimable
  <1>5. ASSUME NEW i \in S
        PROVE  /\ rows'[i].st = "claimed" /\ rows'[i].gen = rows[i].gen /\ rows'[i].rev = rows[i].rev
               /\ rows'[i].epoch = rows[i].epoch /\ rows'[i].byUser = rows[i].byUser
    <2>1. rows[i] \in RowType
      BY <1>4, RowsType DEF Inv
    <2>2. PICK r : r = rows'[i] /\ r = [rows[i] EXCEPT !.st = "claimed"]
      BY <1>3, <1>4 DEF Row
    <2> QED BY <2>1, <2>2 DEF RowType
  <1>6. Lasting
    BY <1>4, <1>5 DEF Lasting
  <1>7. \A i \in RowIds' : RowFine(i)'
    <2> SUFFICES ASSUME NEW i \in RowIds PROVE RowFine(i)'
      BY <1>4
    <2>1. CASE i \in S
      <3>1. ~rows[i].byUser
        BY <1>4, <2>1 DEF Calm, RowFine
      <3> QED BY <1>5, <1>6, <2>1, <3>1, ReachedStays DEF Calm, RowFine, Committed
    <2>2. CASE i \notin S
      BY <1>3, <1>4, <1>6, <2>2, RowKept DEF Calm
    <2> QED BY <2>1, <2>2
  <1>8. \A p \in Proc : TaskFine(p)'
    <2> SUFFICES ASSUME NEW p \in Proc, p # Disp PROVE TaskFine(p)'
      BY <1>2, PlainFine
    <2>1. ASSUME th[p].at \in WithRow
          PROVE  rows'[th[p].row].st = rows[th[p].row].st
      <3>1. th[p].row \in RowIds /\ rows[th[p].row].st = "admitted"
        BY <2>1, OwnRow
      <3> QED BY <1>4, <3>1
    <2> QED BY <1>2, <1>6, <2>1, TaskKept DEF Calm, Alone
  <1>9. FirstRevision'
    BY <1>1, <1>3 DEF Calm, FirstRevision, Blank
  <1> QED BY <1>1, <1>6, <1>7, <1>8, <1>9, ReachedStays DEF Calm, AllUp, Continued

LEMMA ConsiderCalm == ASSUME Inv, Calm, NEW i \in RowIds, Consider(i) PROVE Calm'
  <1>1. /\ UNCHANGED <<gen, up, drive>> /\ Disp \in Proc /\ th[Disp].at = "consider"
        /\ i \in batch.ids /\ rows[i].st = "claimed"
    BY ProcFacts DEF Consider, outside, At, Calm, RowFine
  <1>2. batch'.ids = batch.ids \ {i} /\ batch'.view = batch.view
    <2>1. PICK rest : rest = [batch EXCEPT !.ids = @ \ {i}]
      OBVIOUS
    <2>2. rest \in Round_ /\ rest.ids = batch.ids \ {i} /\ rest.view = batch.view
      BY <2>1, Typed DEF Round_
    <2>3. batch' = rest \/ batch' = [rest EXCEPT !.tried = @ \cup {Row(i).who}]
      BY <2>1 DEF Consider
    <2> QED BY <2>2, <2>3 DEF Round_
  <1>3. FirstRevision'
    BY <1>1, <1>2 DEF Calm, FirstRevision
  <1>4. CASE MarkRow(i, "superseded") /\ UNCHANGED th
    <2>1. /\ RowIds' = RowIds
          /\ \A j \in RowIds : rows'[j] = IF j = i THEN [rows[j] EXCEPT !.st = "superseded"] ELSE rows[j]
      BY <1>4, MarkType DEF Inv, RowState
    <2>2. /\ rows'[i].st = "superseded" /\ rows'[i].gen = rows[i].gen /\ rows'[i].rev = rows[i].rev
          /\ rows'[i].epoch = rows[i].epoch /\ rows'[i].byUser = rows[i].byUser
      <3>1. rows[i] \in RowType
        BY RowsType DEF Inv
      <3>2. PICK r : r = rows'[i] /\ r = [rows[i] EXCEPT !.st = "superseded"]
        BY <2>1
      <3> QED BY <3>1, <3>2 DEF RowType
    <2>3. Lasting
      BY <1>1, <2>1, <2>2 DEF Lasting
    <2>4. \A j \in RowIds' : RowFine(j)'
      <3>1. RowFine(i)'
        <4>1. ~rows[i].byUser
          BY <1>1 DEF Calm, RowFine
        <4> QED BY <1>2, <2>2, <2>3, <4>1, ReachedStays DEF Calm, RowFine, Committed
      <3>2. \A j \in RowIds \ {i} : RowFine(j)'
        BY <1>2, <2>1, <2>3, RowKept DEF Calm
      <3> QED BY <2>1, <3>1, <3>2
    <2>5. \A p \in Proc : TaskFine(p)'
      <3> SUFFICES ASSUME NEW p \in Proc PROVE TaskFine(p)'
        OBVIOUS
      <3>1. th[p].at \in WithRow => th[p].row \in RowIds /\ th[p].row # i
        BY <1>1, OwnRow
      <3> QED BY <1>2, <1>4, <2>1, <2>3, <3>1, TaskKept DEF Calm
    <2> QED BY <1>1, <1>3, <2>3, <2>4, <2>5, ReachedStays DEF Calm, AllUp, Continued
  <1>5. CASE UNCHANGED <<rows, th>>
    BY <1>1, <1>2, <1>3, <1>5, RowsSame, RowKept, TaskKept DEF Calm, AllUp, Continued
  <1>6. ASSUME NEW step \in {"fail", "deliver"}, UNCHANGED rows, ~Stale(Row(i), batch.view),
               th' = [th EXCEPT ![Disp].at = step, ![Disp].ret = "consider",
                                ![Disp].row = i, ![Disp].n = Row(i).attempt]
        PROVE  Calm'
    <2>1. Alone(Disp) /\ th'[Disp].at = step /\ th'[Disp].row = i
      <3>1. th[Disp] \in Task /\ th \in [Proc -> Task]
        BY <1>1, Typed
      <3>2. PICK t : /\ t = [th[Disp] EXCEPT !.at = step, !.ret = "consider", !.row = i,
                                            !.n = Row(i).attempt]
                     /\ th' = [th EXCEPT ![Disp] = t]
        BY <1>6
      <3>3. t.at = step /\ t.row = i
        BY <3>1, <3>2 DEF Task
      <3> QED BY <1>1, <3>1, <3>2, <3>3 DEF Alone
    <2>2. rows[i].rev = 1
      BY <1>6 DEF Stale, Row, Calm, FirstRevision
    <2>3. RowIds' = RowIds
      BY <1>6, RowsSame
    <2>4. TaskFine(Disp)'
      BY <1>1, <1>2, <1>6, <2>1, <2>2, <2>3 DEF TaskFine, Kept, Disturbed, WithRow
    <2> QED BY <1>1, <1>2, <1>3, <1>6, <2>1, <2>4, QuietCalm
  <1>7. \/ MarkRow(i, "superseded") /\ UNCHANGED th
        \/ UNCHANGED <<rows, th>>
        \/ \E step \in {"fail", "deliver"} :
              /\ UNCHANGED rows /\ ~Stale(Row(i), batch.view)
              /\ th' = [th EXCEPT ![Disp].at = step, ![Disp].ret = "consider",
                                  ![Disp].row = i, ![Disp].n = Row(i).attempt]
    BY DEF Consider
  <1> QED BY <1>4, <1>5, <1>6, <1>7

\* A task that goes on with its row.
LEMMA GoesOn ==
  ASSUME Inv, Calm, NEW p \in Proc, NEW step \in WithRow, Goto(p, step), th[p].at \in WithRow,
         UNCHANGED <<rows, gen, up, drive, batch>>
  PROVE  Calm'
  <1>1. Alone(p) /\ th'[p].at = step /\ th'[p].row = th[p].row
    BY GotoAt
  <1>2. Kept(p) /\ RowIds' = RowIds
    BY RowsSame DEF Calm, TaskFine
  <1>3. TaskFine(p)'
    BY <1>1, <1>2 DEF TaskFine, Kept, Disturbed, WithRow
  <1> QED BY <1>1, <1>3, QuietCalm DEF Calm, FirstRevision

LEMMA DeliverCalm == ASSUME Inv, Calm, Deliver PROVE Calm'
  <1>1. /\ UNCHANGED <<rows, gen, up, drive, batch>> /\ Disp \in Proc
        /\ th[Disp].at \in WithRow /\ th[Disp].at = "deliver"
    BY ProcFacts DEF Deliver, store, outside, At, WithRow
  <1>2. up[Row(th[Disp].row).who]
    BY <1>1, OwnRow, RowsType DEF Inv, RowType, Row, Calm, AllUp
  <1>3. \E step \in {"admit", "fail"} : Goto(Disp, step)
    BY <1>2 DEF Deliver
  <1> QED BY <1>1, <1>3, GoesOn DEF WithRow

LEMMA TurnEndsCalm == ASSUME Inv, Calm, NEW c \in Creature, TurnEnds(c) PROVE Calm'
  <1>1. /\ UNCHANGED <<rows, gen, up, drive, batch>> /\ Settle(c) \in Proc
        /\ th[Settle(c)].at \in WithRow /\ up[c]
    BY ProcFacts DEF TurnEnds, store, outside, dispatcher, At, WithRow, Calm, AllUp
  <1>2. \E step \in {"ack", "fail", "ackUser"} : Goto(Settle(c), step)
    BY <1>1 DEF TurnEnds
  <1> QED BY <1>1, <1>2, GoesOn DEF WithRow

LEMMA AdmitCalm == ASSUME Inv, Calm, Admit PROVE Calm'
  <1>1. UNCHANGED <<drive, gen, batch, up>> /\ Disp \in Proc /\ th[Disp].at = "admit"
    BY ProcFacts DEF Admit, outside, At
  <1>2. PICK i, c, k : /\ i = th[Disp].row /\ c = Row(i).who /\ MarkRow(i, "admitted")
                       /\ th' = [th EXCEPT ![Disp] = [Idle EXCEPT !.at = "consider"],
                                   ![Settle(c)] = [Idle EXCEPT !.at = "turn", !.row = i, !.n = k]]
    BY DEF Admit
  <1>3. /\ i \in RowIds \ batch.ids /\ rows[i].st = "claimed" /\ rows[i].rev = 1
        /\ rows[i] \in RowType
    <2>1. Kept(Disp)
      BY <1>1 DEF Calm, TaskFine, WithRow
    <2> QED BY <1>2, <2>1, RowsType, ProcFacts DEF Kept, Inv
  <1>4. c \in Creature /\ Settle(c) \in Proc /\ Settle(c) # Disp
    BY <1>2, <1>3, ProcFacts DEF Row, RowType
  <1>5. /\ \A q \in Proc \ {Disp, Settle(c)} : th'[q] = th[q]
        /\ th'[Disp].at = "consider" /\ th'[Settle(c)].at = "turn" /\ th'[Settle(c)].row = i
    <2>1. PICK s, t : s = [Idle EXCEPT !.at = "consider"]
                      /\ t = [Idle EXCEPT !.at = "turn", !.row = i, !.n = k]
      OBVIOUS
    <2>2. s.at = "consider" /\ t.at = "turn" /\ t.row = i
      BY <2>1 DEF Idle
    <2>3. th \in [Proc -> Task] /\ th' = [th EXCEPT ![Disp] = s, ![Settle(c)] = t]
      BY <1>2, <2>1, Typed
    <2> QED BY <1>1, <1>4, <2>2, <2>3
  <1>6. /\ RowIds' = RowIds
        /\ \A j \in RowIds : rows'[j] = IF j = i THEN [rows[j] EXCEPT !.st = "admitted"] ELSE rows[j]
    BY <1>2, MarkType DEF Inv, RowState
  <1>7. /\ rows'[i].st = "admitted" /\ rows'[i].gen = rows[i].gen /\ rows'[i].rev = rows[i].rev
        /\ rows'[i].epoch = rows[i].epoch /\ rows'[i].byUser = rows[i].byUser
    <2>1. PICK r : r = rows'[i] /\ r = [rows[i] EXCEPT !.st = "admitted"]
      BY <1>3, <1>6
    <2> QED BY <1>3, <2>1 DEF RowType
  <1>8. ~rows[i].byUser
    BY <1>3 DEF Calm, RowFine
  <1>9. TaskFine(Settle(c))'
    BY <1>3, <1>4, <1>5, <1>6, <1>7 DEF TaskFine, Kept, Disturbed, WithRow
  <1>10. th'[Disp].at \notin Special
    BY <1>5 DEF Special, Disturbed, WithRow
  <1>11. \A q \in Proc \ {Disp} : th'[q] = th[q] \/ TaskFine(q)'
    BY <1>5, <1>9
  <1>12. \A j \in RowIds \ {i} : rows'[j] = rows[j]
    BY <1>6
  <1>13. th[Disp].at \in WithRow /\ (rows'[i].byUser => rows'[i].st = "acknowledged")
    BY <1>1, <1>7, <1>8 DEF WithRow
  <1>14. rows'[i].gen = rows[i].gen /\ rows'[i].rev = rows[i].rev /\ rows'[i].epoch = rows[i].epoch
    BY <1>7
  <1>15. i = th[Disp].row /\ rows[i].rev = 1
    BY <1>2, <1>3
  <1> QED BY <1>1, <1>6, <1>10, <1>11, <1>12, <1>13, <1>14, <1>15, WriteCalm

LEMMA AckReadCalm == ASSUME Inv, Calm, NEW p \in Proc, AckRead(p) PROVE Calm'
  <1>1. UNCHANGED <<rows, gen, up, drive, batch>>
    BY DEF AckRead, store, outside, dispatcher
  <1>2. Alone(p) /\ th'[p].at \notin Special
    BY GotoAt DEF AckRead, Special, Disturbed, WithRow
  <1> QED BY <1>1, <1>2, PlainFine, QuietCalm DEF Calm, FirstRevision

\* An operator may take the Drive out of service, or replay what was given up.
LEMMA OperatorCalm ==
  ASSUME Inv, Calm, UNCHANGED <<rows, gen, up, th, batch>>,
         UNCHANGED drive \/ \E st \in Status \ {"active", "waiting"} : TransitionTo(st)
  PROVE  Calm'
  <1>1. FirstRevision'
    <2>1. UNCHANGED drive \/ (drive'.epoch = drive.epoch /\ drive'.st \in Status \ {"active", "waiting"})
      BY Typed DEF TransitionTo, RecordType
    <2> QED BY <2>1 DEF Calm, FirstRevision
  <1>2. TaskFine(Ctl)' /\ Alone(Ctl) /\ Ctl \in Proc
    BY RowsSame, ProcFacts, TaskKept DEF Calm, Alone
  <1> QED BY <1>1, <1>2, QuietCalm

LEMMA ReplayCalm == ASSUME Inv, Calm, ReplayDeadLetter PROVE Calm'
  <1>1. PICK i \in RowIds : Row(i).st = "dead_letter"
    BY DEF ReplayDeadLetter
  <1>2. gen \in Nat /\ rows[i].gen \in Nat
    BY Typed, RowsType DEF Inv, RowType
  <1>3. Granted(gen)
    BY <1>2, PolicyAssumption DEF Calm, Continued, RowFine, Granted
  <1> QED BY <1>2, <1>3, NewRowCalm DEF ReplayDeadLetter, dispatcher, Calm, Continued

LEMMA InitCalm == ASSUME Init PROVE Calm
  <1>1. /\ RowIds = {} /\ gen = 0 /\ batch.view = Blank
        /\ drive.epoch = 0 /\ drive.rev = 1 /\ drive.st = "active"
        /\ up = [c \in Creature |-> TRUE]
    BY DEF Init, RowIds
  <1>2. \A p \in Proc : th[p].at \in {"idle", "maybe"}
    BY DEF Init, Idle
  <1>3. \A p \in Proc : TaskFine(p)
    BY <1>2 DEF TaskFine, Disturbed, WithRow
  <1>4. Reached(rows, gen)
    BY <1>1 DEF Reached
  <1> QED BY <1>1, <1>3, <1>4 DEF Calm, AllUp, Continued, FirstRevision, Blank

LEMMA NextCalm ==
  ASSUME Undisturbed, Inv, Calm, [Next]_vars
  PROVE  Calm'
  <1>0. \A p \in Proc : th[p].at \notin Disturbed
    BY DEF Calm, TaskFine
  <1>1. ASSUME NEW p \in Proc, Procedure(p)
        PROVE  Calm'
    <2>1. ~EnsureWakeGeneration(p) /\ ~WakeCas(p) /\ ~Release(p)
      BY <1>0 DEF EnsureWakeGeneration, WakeCas, Release, At, Disturbed
    <2> QED BY <1>1, <2>1, MaybeEnqueueCalm, ReevaluateReadinessCalm, SuspendingCalm, WritesCalm,
               OnFailureCalm DEF Procedure
  <1>2. CASE Round
    <2>1. ~Defer
      BY <1>0, ProcFacts DEF Defer, At, Disturbed
    <2> QED BY <1>2, <2>1, ScanCalm, ClaimCalm, ConsiderCalm, DeliverCalm, AdmitCalm DEF Round
  <1>3. ASSUME NEW c \in Creature, Settling(c)
        PROVE  Calm'
    BY <1>3, ProcFacts, TurnEndsCalm, AcknowledgeCalm, AckReadCalm DEF Settling
  <1>4. ASSUME NEW c \in Creature, Lifecycle(c)
        PROVE  FALSE
    BY <1>0, <1>4, ProcFacts DEF Lifecycle, ListClaims, Rebuild, Look, Recover, Resume, At, Disturbed
  <1>5. CASE Environment
    <2>1. /\ ~UpdateDrive /\ ~Unassign /\ ~WakeDrive /\ ~Crash
          /\ \A c \in Creature : ~Assign(c) /\ ~StopCreature(c)
      BY DEF Undisturbed, Performs, UpdateDrive, Unassign, WakeDrive, Crash, Assign, StopCreature
    <2>2. \A c \in Creature : ~StartCreature(c)
      BY DEF StartCreature, Calm, AllUp
    <2>3. CASE BecomesDue
      BY <2>3, OperatorCalm DEF BecomesDue, store, dispatcher
    <2>4. ASSUME NEW st \in Status, Transition(st)
          PROVE  Calm'
      <3>1. st \notin {"active", "waiting"}
        BY <2>4 DEF Undisturbed, Transition, Performs
      <3> QED BY <2>4, <3>1, OperatorCalm DEF Transition, dispatcher
    <2> QED BY <1>5, <2>1, <2>2, <2>3, <2>4, ReplayCalm DEF Environment
  <1>6. CASE UNCHANGED vars
    BY <1>6, OperatorCalm DEF vars
  <1> QED BY <1>1, <1>2, <1>3, <1>4, <1>5, <1>6 DEF Next

LEMMA Calmness ==
  ASSUME Undisturbed
  PROVE  Spec => [](Inv /\ Calm)
  <1>1. Init => Inv /\ Calm
    BY InitInv, InitCalm
  <1>2. Inv /\ Calm /\ [Next]_vars => (Inv /\ Calm)'
    BY NextInv, NextCalm
  <1> QED BY <1>1, <1>2, PTL DEF Spec

\* The acknowledged rows have different generations, and each was granted.
LEMMA TurnsGranted == ASSUME Inv, Calm PROVE BudgetHolds
  <1> SUFFICES ASSUME Autonomy = "auto" PROVE TurnsUsed({}) <= Budget
    BY DEF BudgetHolds
  <1> DEFINE A == {i \in RowIds \ {} : Row(i).st = "acknowledged"}
             G == 0..(Budget - 1)
             f == [i \in A |-> rows[i].gen]
  <1>1. IsFiniteSet(G) /\ Cardinality(G) = Budget
    BY PolicyAssumption, FS_Interval
  <1>2. \A i \in A : rows[i].gen \in G
    <2> TAKE i \in A
    <2>1. rows[i].gen \in Nat
      BY RowsType DEF Inv, RowType
    <2>2. rows[i].gen < Budget
      BY DEF Calm, RowFine, Granted
    <2> QED BY <2>1, <2>2, PolicyAssumption
  <1>3. \A i, j \in A : rows[i].gen = rows[j].gen => i = j
    <2> SUFFICES ASSUME NEW i \in A, NEW j \in A, rows[i].gen = rows[j].gen
                 PROVE  i = j
      OBVIOUS
    <2>1. Key(Row(i)) = Key(Row(j))
      BY DEF Calm, RowFine, Committed, Key, Row
    <2>2. {Row(i).st, Row(j).st} \subseteq {"admitted", "acknowledged"}
      OBVIOUS
    <2> QED BY <2>1, <2>2 DEF Inv, OneCommitmentPerKey
  <1>4. f \in Injection(A, G)
    <2>1. f \in [A -> G]
      BY <1>2
    <2>2. \A i, j \in A : f[i] = f[j] => i = j
      BY <1>3
    <2> HIDE DEF f, A, G
    <2> QED BY <2>1, <2>2 DEF Injection, IsInjective
  <1> HIDE DEF f, A, G
  <1>5. Cardinality(A) <= Cardinality(G)
    BY <1>1, <1>4, FS_Injection
  <1> QED BY <1>1, <1>5 DEF A, TurnsUsed

\* The turns acknowledged to an "auto" registration never exceed its budget, as
\* long as no creature is stopped, nothing crashes and no operator reopens,
\* changes or reassigns the Drive; whatever turns and sinks do, and however the
\* callback of a settlement and the scan compete for the next generation
\* (manager/readiness.py, _reevaluate_readiness; registrations/goal.py).
THEOREM BudgetKept ==
  ASSUME Undisturbed
  PROVE  Spec => []BudgetHolds
  <1>1. Inv /\ Calm => BudgetHolds
    BY TurnsGranted
  <1> QED BY <1>1, Calmness, PTL

\* What the dispatcher is about to admit and what the user has interrupted would
\* be of one key, or one of them of a generation before the other's.
LEMMA NoneAfterInterrupt ==
  ASSUME Inv, Calm, Admit, NEW i \in RowIds, Row(i).byUser
  PROVE  FALSE
  <1>1. PICK j : j = th[Disp].row
    OBVIOUS
  <1>2. /\ j \in RowIds /\ rows[j].st = "claimed" /\ rows[j].rev = 1 /\ ~AlreadyAdmitted(j)
    <2>1. th[Disp].at = "admit" /\ Disp \in Proc
      BY ProcFacts DEF Admit, At
    <2>2. Kept(Disp)
      BY <2>1 DEF Calm, TaskFine, WithRow
    <2> QED BY <1>1, <2>1, <2>2, ProcFacts DEF Kept, Inv, Holding, Given, At
  <1>3. rows[i].st = "acknowledged" /\ rows[i].rev = 1
    BY DEF Row, Calm, RowFine, Committed
  <1>4. rows[i].gen \in Nat /\ rows[j].gen \in Nat
    BY <1>2, RowsType DEF Inv, RowType
  <1>5. \A k \in RowIds : rows[k].epoch = 0
    BY DEF Calm, RowFine
  <1>6. ASSUME NEW k \in RowIds, rows[k].st = "acknowledged", rows[k].gen = rows[j].gen
        PROVE  FALSE
    <2>1. Key(Row(k)) = Key(Row(j))
      BY <1>2, <1>5, <1>6 DEF Key, Row, Calm, RowFine, Committed
    <2> QED BY <1>2, <1>6, <2>1 DEF AlreadyAdmitted, Row
  <1>7. CASE rows[i].gen = rows[j].gen
    BY <1>3, <1>6, <1>7
  <1>8. CASE rows[j].gen < rows[i].gen
    <2>1. Reached(rows, rows[i].gen) /\ rows[j].gen \in 0..(rows[i].gen - 1)
      BY <1>4, <1>8 DEF Calm, RowFine
    <2>2. PICK k \in RowIds : rows[k].gen = rows[j].gen /\ SettledByTurn(rows[k])
      BY <2>1 DEF Reached, RowIds
    <2> QED BY <1>6, <2>2 DEF SettledByTurn
  <1>9. CASE rows[i].gen < rows[j].gen
    <2>1. Reached(rows, rows[j].gen) /\ rows[i].gen \in 0..(rows[j].gen - 1)
      BY <1>2, <1>4, <1>9 DEF Calm, RowFine
    <2>2. PICK k \in RowIds : rows[k].gen = rows[i].gen /\ SettledByTurn(rows[k])
      BY <2>1 DEF Reached, RowIds
    <2>3. Key(Row(k)) = Key(Row(i)) /\ k # i
      BY <1>3, <1>5, <2>2 DEF Key, Row, Calm, RowFine, Committed, SettledByTurn
    <2>4. {Row(k).st, Row(i).st} \subseteq {"admitted", "acknowledged"}
      BY <1>3, <2>2 DEF SettledByTurn, Row
    <2> QED BY <2>3, <2>4 DEF Inv, OneCommitmentPerKey
  <1> QED BY <1>4, <1>7, <1>8, <1>9

\* Only the dispatcher admits.
LEMMA MarkAdmits ==
  ASSUME Inv, NEW i \in RowIds, rows[i].st # "admitted", NEW j, NEW st \in RowState \ {"admitted"},
         MarkRow(j, st)
  PROVE  rows'[i].st # "admitted"
  <1>1. rows[i] \in RowType /\ rows'[i] = IF i = j THEN [rows[i] EXCEPT !.st = st] ELSE rows[i]
    BY MarkType, RowsType DEF Inv
  <1>2. rows'[i] = rows[i] \/ rows'[i].st = st
    BY <1>1 DEF RowType
  <1> QED BY <1>2

LEMMA AppendAdmits ==
  ASSUME Inv, NEW i \in RowIds, drive.who # None, NEW g \in Nat, NEW reason \in {"ready", "retry"},
         rows' = Append(rows, NewRow(g, reason))
  PROVE  rows'[i] = rows[i]
  <1>1. rows \in Seq(RowType) /\ NewRow(g, reason) \in RowType
    BY Typed, NewRowType DEF Inv
  <1> QED BY <1>1, AppendType DEF RowIds

LEMMA OnlyAdmitAdmits ==
  ASSUME Undisturbed, Inv, Calm, [Next]_vars, ~Admit,
         NEW i \in RowIds, rows[i].st # "admitted"
  PROVE  rows'[i].st # "admitted"
  <1>0. \A p \in Proc : th[p].at \notin Disturbed
    BY DEF Calm, TaskFine
  <1>1. CASE UNCHANGED rows
    BY <1>1
  <1>2. ASSUME NEW p \in Proc, Procedure(p)
        PROVE  rows'[i].st # "admitted"
    <2>1. ~EnsureWakeGeneration(p) /\ ~WakeCas(p) /\ ~Release(p)
      BY <1>0 DEF EnsureWakeGeneration, WakeCas, Release, At, Disturbed
    <2>2. ASSUME NEW g \in Nat, WriteRow(p, g)
          PROVE  rows'[i].st # "admitted"
      BY <1>1, <2>2, AppendAdmits DEF WriteRow
    <2>3. CASE Enqueue(p)
      BY <2>2, <2>3, Typed DEF Enqueue
    <2>4. CASE Advance(p)
      <3>1. th[p].n + 1 \in Nat
        BY Typed DEF Task
      <3> QED BY <2>2, <2>4, <3>1 DEF Advance
    <2>5. CASE OnFailure(p)
      <3>1. PICK j, attempt : j = th[p].row /\ attempt = th[p].n + 1
        OBVIOUS
      <3>2. CASE MarkRow(j, "dead_letter")
        BY <3>2, MarkAdmits DEF RowState
      <3>3. CASE rows' = [rows EXCEPT ![j].st = "retry_wait", ![j].attempt = attempt]
        <4>1. i \in DOMAIN rows /\ rows[i] \in RowType
          BY RowsType DEF Inv, RowIds
        <4>2. rows'[i] = IF i = j THEN [rows[i] EXCEPT !.st = "retry_wait", !.attempt = attempt]
                                  ELSE rows[i]
          BY <3>3, <4>1
        <4>3. rows'[i] = rows[i] \/ rows'[i].st = "retry_wait"
          BY <4>1, <4>2 DEF RowType
        <4> QED BY <4>3
      <3> QED BY <2>5, <3>1, <3>2, <3>3 DEF OnFailure
    <2> QED BY <1>1, <1>2, <2>1, <2>3, <2>4, <2>5
            DEF Procedure, MaybeEnqueue, ReevaluateReadiness, ReadToSuspend, Suspend, store
  <1>3. CASE Round
    <2>1. ~Defer
      BY <1>0, ProcFacts DEF Defer, At, Disturbed
    <2>2. ASSUME NEW late, Claim(late)
          PROVE  rows'[i].st # "admitted"
      <3>1. rows[i] \in RowType
        BY RowsType DEF Inv
      <3>2. rows'[i] = rows[i] \/ rows'[i] = [rows[i] EXCEPT !.st = "claimed"]
        BY <2>2 DEF Claim, Row
      <3> QED BY <3>1, <3>2 DEF RowType
    <2>3. ASSUME NEW j \in RowIds, Consider(j)
          PROVE  rows'[i].st # "admitted"
      <3>1. UNCHANGED rows \/ MarkRow(j, "superseded")
        BY <2>3 DEF Consider
      <3> QED BY <1>1, <3>1, MarkAdmits DEF RowState
    <2> QED BY <1>1, <1>3, <2>1, <2>2, <2>3
            DEF Round, ScanWaiting, ScanActive, Prepare, Deliver, EndRound, store
  <1>4. ASSUME NEW c \in Creature, Settling(c)
        PROVE  rows'[i].st # "admitted"
    <2>1. CASE Acknowledge(Settle(c))
      <3>1. PICK j, b :
              rows' = [rows EXCEPT ![j].st = "acknowledged", ![j].acked = TRUE, ![j].byUser = b]
        BY <2>1 DEF Acknowledge
      <3>2. i \in DOMAIN rows /\ rows[i] \in RowType
        BY RowsType DEF Inv, RowIds
      <3>3. rows'[i] = IF i = j THEN [rows[i] EXCEPT !.st = "acknowledged", !.acked = TRUE,
                                                     !.byUser = b]
                                ELSE rows[i]
        BY <3>1, <3>2
      <3>4. rows'[i] = rows[i] \/ rows'[i].st = "acknowledged"
        BY <3>2, <3>3 DEF RowType
      <3> QED BY <3>4
    <2> QED BY <1>1, <1>4, <2>1 DEF Settling, TurnEnds, AckRead, store
  <1>5. ASSUME NEW c \in Creature, Lifecycle(c)
        PROVE  FALSE
    BY <1>0, <1>5, ProcFacts DEF Lifecycle, ListClaims, Rebuild, Look, Recover, Resume, At, Disturbed
  <1>6. CASE Environment
    <2>1. ~Unassign /\ ~Crash /\ \A c \in Creature : ~Assign(c)
      BY DEF Undisturbed, Performs, Unassign, Crash, Assign
    <2>2. CASE ReplayDeadLetter
      BY <2>2, AppendAdmits, Typed DEF ReplayDeadLetter
    <2> QED BY <1>1, <1>6, <2>1, <2>2
            DEF Environment, UpdateDrive, WakeDrive, BecomesDue, StopCreature, StartCreature,
                Transition, store
  <1> QED BY <1>1, <1>2, <1>3, <1>4, <1>5, <1>6 DEF Next, vars

\* Once the user has interrupted a turn nothing is admitted any more, under the
\* same conditions: no duplicate of the interrupted row, no row of an earlier
\* generation, and no continuation decided between the acknowledgement and the
\* pause (manager/ops.py, _on_delivery_user_interrupted).
THEOREM UserStopKept ==
  ASSUME Undisturbed
  PROVE  Spec => UserStopHolds
  <1>1. Inv /\ Calm /\ [Next]_vars =>
          ((\E i \in RowIds : Row(i).byUser)
           => \A i \in RowIds : Row(i).st # "admitted" => rows'[i].st # "admitted")
    <2> SUFFICES ASSUME Inv, Calm, [Next]_vars, NEW i \in RowIds, Row(i).byUser,
                        NEW j \in RowIds, rows[j].st # "admitted"
                 PROVE  rows'[j].st # "admitted"
      BY DEF Row
    <2> QED BY NoneAfterInterrupt, OnlyAdmitAdmits
  <1> QED BY <1>1, Calmness, PTL DEF Spec, UserStopHolds

=============================================================================
