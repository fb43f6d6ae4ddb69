---------------------------- MODULE OccupancyGate ----------------------------
(***************************************************************************)
(* The process-wide gate to session files.  Legacy occupants of a file     *)
(* (stores, mutations, full reads) nest; a NEW fast reader has the file to *)
(* itself.  A fast reader is admitted at once or declined; a legacy        *)
(* occupant waits, on one condition variable for all files, until the fast *)
(* reader has gone.  An occupant that cannot prove that it closed the file *)
(* leaves the record of the file uncertain.                                *)
(*                                                                         *)
(* Threads do everything under the condition's lock, so an action is one   *)
(* critical section.  A mutation enrolls in a family of files, one after   *)
(* the other, and leaves them one by one; the code takes them in sorted    *)
(* order and gives them back in reverse, the model in any order.           *)
(***************************************************************************)
EXTENDS Naturals, FiniteSets

CONSTANTS Threads,
          Paths,
          Families    \* the sets of files a mutation or a store enrolls in

ASSUME GateAssumption ==
  /\ IsFiniteSet(Threads)
  /\ Families \subseteq (SUBSET Paths) \ {{}}

VARIABLES
  registered, \* the files that have a record
  rec,        \* the record of each file
  lease,      \* lease[p][t]: what the thread holds of the file
  pc,         \* where each thread is
  todo,       \* files the thread has yet to enroll in
  pending     \* the thread is counted in legacy_pending of its file
vars == <<registered, rec, lease, pc, todo, pending>>

Kinds     == {"none", "legacy", "fast"}
\* acquire : about to take the lock in acquire_legacy
\* wait    : in cond.wait()
\* unwind  : acquire_legacy is raising, its pending enrolment still counted
\* abort   : acquire_family gives back what it had
\* using   : the files are open
\* closing : the handles are proven closed and leases are being finished
\* unclear : leases are being finished and the handles may be open
Locations == {"idle", "acquire", "wait", "unwind", "abort", "using", "closing", "unclear"}

Record == [legacy : Nat, pending : Nat, fast : Nat,
           legacyUncertain : BOOLEAN, fastUncertain : BOOLEAN]

NewRecord == [legacy |-> 0, pending |-> 0, fast |-> 0,
              legacyUncertain |-> FALSE, fastUncertain |-> FALSE]

TypeOK ==
  /\ registered \subseteq Paths
  /\ rec \in [Paths -> Record]
  /\ lease \in [Paths -> [Threads -> Kinds]]
  /\ pc \in [Threads -> Locations]
  /\ todo \in [Threads -> SUBSET Paths]
  /\ pending \in [Threads -> SUBSET Paths]

Init ==
  /\ registered = {} /\ rec = [p \in Paths |-> NewRecord]
  /\ lease = [p \in Paths |-> [t \in Threads |-> "none"]]
  /\ pc = [t \in Threads |-> "idle"]
  /\ todo = [t \in Threads |-> {}] /\ pending = [t \in Threads |-> {}]

------------------------------------------------------------------------------
Goto(t, l) == pc' = [pc EXCEPT ![t] = l]

Held(t)    == {p \in Paths : lease[p][t] # "none"}
\* The record as the critical section finds it, or creates it.
Rec(p)     == IF p \in registered THEN rec[p] ELSE NewRecord

\* What _PathRecord.is_clean would be without its test of the waiting threads.
CleanOfOccupants(r) == [r EXCEPT !.pending = 0] = NewRecord

\* _PathRecord.is_clean
IsClean(r) == r = NewRecord

\* The record is written back, or retired when nothing is left in it.
StoreOrRetire(p, r) ==
  /\ rec' = [rec EXCEPT ![p] = r]
  /\ registered' = IF IsClean(r) THEN registered \ {p} ELSE registered \cup {p}

Store(p, r) ==
  /\ rec' = [rec EXCEPT ![p] = r]
  /\ registered' = registered \cup {p}

Issue(t, p, kind) == lease' = [lease EXCEPT ![p][t] = kind]

\* _finish without its notify_all.
NotifyNobody(t, l) == Goto(t, l)

\* notify_all: every thread in cond.wait() goes back for the lock.
NotifyAll(t, l) ==
  pc' = [u \in Threads |-> IF u = t THEN l
                           ELSE IF pc[u] = "wait" THEN "acquire" ELSE pc[u]]

------------------------------------------------------------------------------
(* Callers.                                                                  *)

\* acquire_family, or acquire_legacy for a store or a full read.
Begins(t, F) ==
  /\ pc[t] = "idle"
  /\ todo' = [todo EXCEPT ![t] = F]
  /\ Goto(t, "acquire")
  /\ UNCHANGED <<registered, rec, lease, pending>>

\* What try_fast would admit without its test of the enrolled occupants.
AdmitsBesideLegacy(r) ==
  ~r.fastUncertain /\ ~r.legacyUncertain /\ r.pending = 0 /\ r.fast = 0

\* try_fast admits the reader.
Admits(r) ==
  /\ ~r.fastUncertain /\ ~r.legacyUncertain
  /\ r.pending = 0 /\ r.legacy = 0 /\ r.fast = 0

TryFast(t, p) ==
  /\ pc[t] = "idle"
  /\ Admits(Rec(p))
  /\ Store(p, [Rec(p) EXCEPT !.fast = @ + 1])
  /\ Issue(t, p, "fast")
  /\ Goto(t, "using")
  /\ UNCHANGED <<todo, pending>>

\* try_fast declines, and read_metadata_candidate enrolls in the file; if the
\* release of a fast reader is uncertain it raises instead and nothing changes.
FastDeclined(t, p) ==
  /\ pc[t] = "idle"
  /\ ~Admits(Rec(p)) /\ ~Rec(p).fastUncertain
  /\ todo' = [todo EXCEPT ![t] = {p}]
  /\ Goto(t, "acquire")
  /\ UNCHANGED <<registered, rec, lease, pending>>

------------------------------------------------------------------------------
(* acquire_legacy: the critical section for one file.                        *)

\* The record if the caller were not counted.
NotCounted(t, p) == Rec(p)

\* The record with the caller counted as pending, if it is not yet.
Enrolled(t, p) ==
  IF p \in pending[t] THEN Rec(p) ELSE [Rec(p) EXCEPT !.pending = @ + 1]

MustWait(r) == r.fast # 0

Enrolls(t, p) ==
  LET r == Enrolled(t, p)
  IN /\ pc[t] = "acquire" /\ p \in todo[t] /\ pending[t] \subseteq {p}
     /\ ~Rec(p).fastUncertain /\ ~MustWait(r)
     /\ Store(p, [r EXCEPT !.pending = @ - 1, !.legacy = @ + 1])
     /\ Issue(t, p, "legacy")
     /\ pending' = [pending EXCEPT ![t] = {}]
     /\ todo' = [todo EXCEPT ![t] = @ \ {p}]
     /\ Goto(t, IF todo[t] = {p} THEN "using" ELSE "acquire")

\* The fast reader is still there: the thread waits, or it leaves the lock to
\* write a log line and comes back.
Blocks(t, p) ==
  LET r == Enrolled(t, p)
  IN /\ pc[t] = "acquire" /\ p \in todo[t] /\ pending[t] \subseteq {p}
     /\ ~Rec(p).fastUncertain /\ MustWait(r)
     /\ Store(p, r)
     /\ pending' = [pending EXCEPT ![t] = {p}]
     /\ \/ Goto(t, "wait")
        \/ UNCHANGED pc
     /\ UNCHANGED <<lease, todo>>

\* ResourceReleaseError: an enrolment still counted is taken back afterwards.
Raises(t, p) ==
  /\ pc[t] = "acquire" /\ p \in todo[t] /\ pending[t] \subseteq {p}
  /\ Rec(p).fastUncertain
  /\ Goto(t, IF pending[t] = {} THEN "abort" ELSE "unwind")
  /\ UNCHANGED <<registered, rec, lease, todo, pending>>

\* The wait times out, which it does only when wait_log_interval > 0.
TimesOut(t) ==
  /\ pc[t] = "wait"
  /\ Goto(t, "acquire")
  /\ UNCHANGED <<registered, rec, lease, todo, pending>>

\* A KeyboardInterrupt in cond.wait().
Interrupted(t) ==
  /\ pc[t] = "wait"
  /\ Goto(t, "unwind")
  /\ UNCHANGED <<registered, rec, lease, todo, pending>>

\* The exception handler of acquire_legacy takes the lock again.
Unwinds(t) ==
  /\ pc[t] = "unwind"
  /\ \E p \in pending[t] :
       IF p \in registered THEN StoreOrRetire(p, [rec[p] EXCEPT !.pending = @ - 1])
                           ELSE UNCHANGED <<registered, rec>>
  /\ pending' = [pending EXCEPT ![t] = {}]
  /\ Goto(t, "abort")
  /\ UNCHANGED <<lease, todo>>

------------------------------------------------------------------------------
(* Release.                                                                  *)

Closes(t, l) ==
  /\ pc[t] = "using" /\ l \in {"closing", "unclear"}
  /\ Goto(t, l)
  /\ UNCHANGED <<registered, rec, lease, todo, pending>>

\* _finish if a clean release cleared what an earlier one had left behind.
LastReleaseCounts(r, kind, released) ==
  IF kind = "legacy"
  THEN [r EXCEPT !.legacy = IF @ > 0 THEN @ - 1 ELSE 0, !.legacyUncertain = ~released]
  ELSE [r EXCEPT !.fast = IF @ > 0 THEN @ - 1 ELSE 0, !.fastUncertain = ~released]

\* The record after _finish of a lease of this kind.
Finished(r, kind, released) ==
  IF kind = "legacy"
  THEN [r EXCEPT !.legacy = IF @ > 0 THEN @ - 1 ELSE 0,
                 !.legacyUncertain = @ \/ ~released]
  ELSE [r EXCEPT !.fast = IF @ > 0 THEN @ - 1 ELSE 0,
                 !.fastUncertain = @ \/ ~released]

Finishes(t, p) ==
  /\ pc[t] \in {"closing", "unclear", "abort"} /\ p \in Held(t)
  /\ Issue(t, p, "none")
  /\ IF p \in registered
     THEN /\ StoreOrRetire(p, Finished(rec[p], lease[p][t], pc[t] # "unclear"))
          /\ NotifyAll(t, pc[t])
     ELSE UNCHANGED <<registered, rec, pc>>
  /\ UNCHANGED <<todo, pending>>

Done(t) ==
  /\ pc[t] \in {"closing", "unclear", "abort"} /\ Held(t) = {}
  /\ Goto(t, "idle")
  /\ todo' = [todo EXCEPT ![t] = {}]
  /\ UNCHANGED <<registered, rec, lease, pending>>

------------------------------------------------------------------------------
\* What a thread that has begun does next, whatever the others do.
Proceeds(t) ==
  \/ \E p \in Paths : Enrolls(t, p) \/ Blocks(t, p) \/ Raises(t, p) \/ Finishes(t, p)
  \/ Unwinds(t) \/ Done(t)
  \/ \E l \in Locations : Closes(t, l)

Step(t) ==
  \/ Proceeds(t) \/ TimesOut(t) \/ Interrupted(t)
  \/ \E F \in Families : Begins(t, F)
  \/ \E p \in Paths : TryFast(t, p) \/ FastDeclined(t, p)

Next == \E t \in Threads : Step(t)

Spec == Init /\ [][Next]_vars

\* A thread inside the gate runs, and one that has a file open closes it.  No
\* wait is required to time out.
FairSpec == Spec /\ \A t \in Threads : WF_vars(Proceeds(t))

------------------------------------------------------------------------------
(* Properties.                                                               *)

Holders(p, kind) == {t \in Threads : lease[p][t] = kind}
Enrolling(p)     == {t \in Threads : p \in pending[t]}

\* A fast reader has the file to itself: no legacy occupant and no other fast
\* reader holds it, whoever waited, raised or came back in between.
SoleOccupant ==
  \A p \in Paths : \A t, u \in Threads :
    t # u /\ lease[p][t] = "fast" => lease[p][u] = "none"

\* The counters of a record are the leases and the waiting threads it stands
\* for, and exactly the files with something left to remember have a record:
\* none is retired too early and none is leaked.
CountersExact ==
  \A p \in Paths :
    /\ Rec(p).legacy = Cardinality(Holders(p, "legacy"))
    /\ Rec(p).fast = Cardinality(Holders(p, "fast"))
    /\ Rec(p).pending = Cardinality(Enrolling(p))
    /\ p \in registered <=> ~IsClean(rec[p])

\* A release that could not prove the file closed is remembered and never
\* forgotten, however many clean ones come after it and whatever is retired:
\* after that of a fast reader the file has no occupant again, after that of a
\* legacy occupant it has no fast reader.
Barred(p, kind) ==
  IF kind = "fast"
  THEN p \in registered /\ rec[p].fastUncertain /\ \A t \in Threads : lease[p][t] = "none"
  ELSE p \in registered /\ rec[p].legacyUncertain /\ Holders(p, "fast") = {}

ReleasesUnproven(p, kind) ==
  \E t \in Threads : pc[t] = "unclear" /\ lease[p][t] = kind /\ lease[p][t]' = "none"

UncertainIsFinal ==
  [][\A p \in Paths, kind \in {"fast", "legacy"} :
       Barred(p, kind) \/ ReleasesUnproven(p, kind) => Barred(p, kind)']_vars

\* acquire_legacy returns or raises: the stream of fast readers does not starve
\* it and no wakeup is lost, without the help of a timeout.
EnrolmentEnds ==
  \A t \in Threads : pc[t] \in {"acquire", "wait"} ~> pc[t] \notin {"acquire", "wait"}
==============================================================================
