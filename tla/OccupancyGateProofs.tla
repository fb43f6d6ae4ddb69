------------------------- MODULE OccupancyGateProofs -------------------------
(***************************************************************************)
(* Theorems about OccupancyGate for any finite set of threads, any files   *)
(* and any families: fast readers are alone, the counters are exact, and   *)
(* an unproven release is final.                                           *)
(***************************************************************************)
EXTENDS OccupancyGate, FiniteSetTheorems, TLAPS

\* Where a thread is says what it may hold and be counted for: nothing when it
\* is idle, and none of the files it has yet to enroll in.
Bookkeeping ==
  \A t \in Threads :
    /\ pc[t] = "idle" => Held(t) = {}
    /\ pc[t] \in {"acquire", "wait", "unwind"} => Held(t) \cap todo[t] = {}
    /\ pending[t] # {} => pc[t] \in {"acquire", "wait", "unwind"}
    /\ pending[t] \subseteq todo[t]
    /\ \A p, q \in pending[t] : p = q

Inv == TypeOK /\ CountersExact /\ SoleOccupant /\ Bookkeeping

------------------------------------------------------------------------------
(* Counting threads.                                                        *)

LEMMA CountOf ==
  ASSUME NEW S \in SUBSET Threads
  PROVE  /\ Cardinality(S) \in Nat
         /\ Cardinality(S) = 0 <=> S = {}
         /\ \A t \in Threads \ S : Cardinality(S \cup {t}) = Cardinality(S) + 1
         /\ \A t \in S : /\ Cardinality(S \ {t}) = Cardinality(S) - 1
                         /\ Cardinality(S) > 0
  <1>1. IsFiniteSet(S)
    BY GateAssumption, FS_Subset
  <1>2. Cardinality(S) \in Nat /\ (Cardinality(S) = 0 <=> S = {})
    BY <1>1, FS_CardinalityType, FS_EmptySet
  <1>3. ASSUME NEW t \in Threads \ S
        PROVE  Cardinality(S \cup {t}) = Cardinality(S) + 1
    BY <1>1, <1>3, FS_AddElement
  <1>4. ASSUME NEW t \in S
        PROVE  Cardinality(S \ {t}) = Cardinality(S) - 1
    BY <1>1, <1>4, FS_RemoveElement
  <1> QED BY <1>2, <1>3, <1>4

\* In a state with exact counters, the record of a critical section is the
\* stored one.
LEMMA RecIsStored ==
  ASSUME TypeOK, CountersExact, NEW p \in Paths
  PROVE  Rec(p) = rec[p]
  BY DEF TypeOK, CountersExact, Rec, IsClean

\* A file whose record is the stored one and counts nobody is held by nobody.
LEMMA CountsHolders ==
  ASSUME TypeOK, CountersExact, NEW p \in Paths
  PROVE  /\ rec[p] \in Record
         /\ rec[p].legacy = Cardinality(Holders(p, "legacy"))
         /\ rec[p].fast = Cardinality(Holders(p, "fast"))
         /\ rec[p].pending = Cardinality(Enrolling(p))
         /\ rec[p].legacy = 0 => \A t \in Threads : lease[p][t] # "legacy"
         /\ rec[p].fast = 0 => \A t \in Threads : lease[p][t] # "fast"
         /\ \A t \in Threads : p \in pending[t] => rec[p].pending > 0
         /\ \A t \in Threads : lease[p][t] = "fast" => rec[p].fast > 0
         /\ \A t \in Threads : lease[p][t] = "legacy" => rec[p].legacy > 0
         /\ p \in registered <=> rec[p] # NewRecord
  <1>1. /\ Holders(p, "legacy") \in SUBSET Threads /\ Holders(p, "fast") \in SUBSET Threads
        /\ Enrolling(p) \in SUBSET Threads
    BY DEF Holders, Enrolling
  <1>2. /\ rec[p].legacy = Cardinality(Holders(p, "legacy"))
        /\ rec[p].fast = Cardinality(Holders(p, "fast"))
        /\ rec[p].pending = Cardinality(Enrolling(p))
        /\ p \in registered <=> rec[p] # NewRecord
    BY RecIsStored DEF CountersExact, IsClean
  <1>3. rec[p] \in Record
    BY DEF TypeOK
  <1>4. rec[p].legacy = 0 => Holders(p, "legacy") = {}
    BY <1>1, <1>2, CountOf
  <1>5. rec[p].fast = 0 => Holders(p, "fast") = {}
    BY <1>1, <1>2, CountOf
  <1>6. \A t \in Enrolling(p) : rec[p].pending > 0
    BY <1>1, <1>2, CountOf
  <1>7. \A t \in Holders(p, "fast") : rec[p].fast > 0
    BY <1>1, <1>2, CountOf
  <1>8. \A t \in Holders(p, "legacy") : rec[p].legacy > 0
    BY <1>1, <1>2, CountOf
  <1> QED BY <1>2, <1>3, <1>4, <1>5, <1>6, <1>7, <1>8 DEF Holders, Enrolling

\* One file changes: it is enough to look at that file.
LEMMA OneFile ==
  ASSUME Inv, NEW p \in Paths,
         registered \subseteq Paths, registered' \subseteq Paths,
         rec' \in [Paths -> Record],
         \A q \in Paths \ {p} : /\ rec'[q] = rec[q] /\ lease'[q] = lease[q]
                                /\ q \in registered' <=> q \in registered
                                /\ \A t \in Threads : q \in pending'[t] <=> q \in pending[t],
         rec'[p].legacy = Cardinality(Holders(p, "legacy")'),
         rec'[p].fast = Cardinality(Holders(p, "fast")'),
         rec'[p].pending = Cardinality(Enrolling(p)'),
         p \in registered' <=> rec'[p] # NewRecord
  PROVE  CountersExact'
  <1> SUFFICES ASSUME NEW q \in Paths
               PROVE  /\ rec'[q].legacy = Cardinality(Holders(q, "legacy")')
                      /\ rec'[q].fast = Cardinality(Holders(q, "fast")')
                      /\ rec'[q].pending = Cardinality(Enrolling(q)')
                      /\ q \in registered' <=> rec'[q] # NewRecord
    BY DEF CountersExact, Rec, IsClean
  <1>1. CASE q = p
    BY <1>1
  <1>2. CASE q # p
    <2>1. /\ Holders(q, "legacy")' = Holders(q, "legacy")
          /\ Holders(q, "fast")' = Holders(q, "fast")
          /\ Enrolling(q)' = Enrolling(q)
      BY <1>2 DEF Holders, Enrolling
    <2> QED BY <1>2, <2>1, CountsHolders DEF Inv
  <1> QED BY <1>1, <1>2
------------------------------------------------------------------------------
(* Two fields of a record change.                                           *)

\* An enrolment becomes an occupancy.
LEMMA EnrolmentCounted ==
  ASSUME NEW r \in Record, r.pending > 0, NEW n,
         n = [r EXCEPT !.pending = r.pending - 1, !.legacy = r.legacy + 1]
  PROVE  /\ n \in Record /\ n.pending = r.pending - 1
         /\ n.legacy = r.legacy + 1 /\ n.legacy # 0 /\ n.fast = r.fast
  <1> DEFINE a == r.pending - 1
             b == r.legacy + 1
  <1>1. r.legacy \in Nat /\ r.pending \in Nat
    BY DEF Record
  <1>2. a \in Nat /\ b \in Nat /\ b # 0
    BY <1>1
  <1>3. n = [r EXCEPT !.pending = a, !.legacy = b]
    OBVIOUS
  <1> HIDE DEF a, b
  <1>4. n \in Record /\ n.pending = a /\ n.legacy = b /\ n.fast = r.fast
    BY <1>2, <1>3 DEF Record
  <1> QED BY <1>2, <1>4 DEF a, b

\* An occupancy ends, and its release may be uncertain.
LEMMA FinishedRecord ==
  ASSUME NEW r \in Record, NEW kind \in {"legacy", "fast"}, NEW released \in BOOLEAN,
         kind = "legacy" => r.legacy > 0,
         kind = "fast" => r.fast > 0,
         NEW n, n = Finished(r, kind, released)
  PROVE  /\ n \in Record /\ n.pending = r.pending
         /\ n.legacy = r.legacy - (IF kind = "legacy" THEN 1 ELSE 0)
         /\ n.fast = r.fast - (IF kind = "fast" THEN 1 ELSE 0)
         /\ r.fastUncertain \/ (kind = "fast" /\ ~released) => n.fastUncertain
         /\ r.legacyUncertain \/ (kind = "legacy" /\ ~released) => n.legacyUncertain
  <1>1. r.legacy \in Nat /\ r.fast \in Nat
    BY DEF Record
  <1>2. CASE kind = "legacy"
    <2> DEFINE b == r.legacyUncertain \/ ~released
    <2>1. r.legacy - 1 \in Nat /\ b \in BOOLEAN
      BY <1>1, <1>2
    <2>2. n = [r EXCEPT !.legacy = r.legacy - 1, !.legacyUncertain = b]
      BY <1>2 DEF Finished
    <2> HIDE DEF b
    <2>3. /\ n \in Record /\ n.legacy = r.legacy - 1 /\ n.fast = r.fast
          /\ n.pending = r.pending /\ n.fastUncertain = r.fastUncertain
          /\ n.legacyUncertain = b
      BY <2>1, <2>2 DEF Record
    <2>4. n.fast = r.fast - 0
      BY <2>3, <1>1
    <2> QED BY <2>3, <2>4, <1>2 DEF b
  <1>3. CASE kind = "fast"
    <2> DEFINE b == r.fastUncertain \/ ~released
    <2>1. r.fast - 1 \in Nat /\ b \in BOOLEAN
      BY <1>1, <1>3
    <2>2. n = [r EXCEPT !.fast = r.fast - 1, !.fastUncertain = b]
      BY <1>3 DEF Finished
    <2> HIDE DEF b
    <2>3. /\ n \in Record /\ n.legacy = r.legacy /\ n.fast = r.fast - 1
          /\ n.pending = r.pending /\ n.legacyUncertain = r.legacyUncertain
          /\ n.fastUncertain = b
      BY <2>1, <2>2 DEF Record
    <2>4. n.legacy = r.legacy - 0
      BY <2>3, <1>1
    <2> QED BY <2>3, <2>4, <1>3 DEF b
  <1> QED BY <1>2, <1>3

------------------------------------------------------------------------------
(* The invariant.                                                           *)

LEMMA InitInv == Init => Inv
  <1> SUFFICES ASSUME Init PROVE Inv
    OBVIOUS
  <1>1. NewRecord \in Record
    BY DEF NewRecord, Record
  <1>2. TypeOK
    BY <1>1 DEF Init, TypeOK, Kinds, Locations
  <1>3. \A p \in Paths : /\ Holders(p, "legacy") = {} /\ Holders(p, "fast") = {}
                        /\ Enrolling(p) = {}
    BY DEF Init, Holders, Enrolling
  <1>4. CountersExact
    BY <1>3, FS_EmptySet DEF Init, CountersExact, Rec, IsClean, NewRecord
  <1>5. SoleOccupant /\ Bookkeeping
    BY DEF Init, SoleOccupant, Bookkeeping, Held
  <1> QED BY <1>2, <1>4, <1>5 DEF Inv

\* A step that leaves records, leases and enrolments alone.
LEMMA RecordsUntouched ==
  ASSUME Inv, UNCHANGED <<registered, rec, lease, pending>>
  PROVE  CountersExact' /\ SoleOccupant'
  <1>1. \A p \in Paths : /\ Holders(p, "legacy")' = Holders(p, "legacy")
                        /\ Holders(p, "fast")' = Holders(p, "fast")
                        /\ Enrolling(p)' = Enrolling(p)
    BY DEF Holders, Enrolling
  <1>2. CountersExact'
    BY <1>1 DEF Inv, CountersExact, Rec
  <1> QED BY <1>2 DEF Inv, SoleOccupant

LEMMA TryFastInv ==
  ASSUME Inv, NEW t \in Threads, NEW p \in Paths, TryFast(t, p)
  PROVE  Inv'
  <1> USE DEF Inv
  <1>1. /\ Rec(p) = rec[p] /\ rec[p] \in Record
        /\ rec[p].legacy = 0 /\ rec[p].fast = 0
    BY RecIsStored, CountsHolders DEF TryFast, Admits
  <1> DEFINE n == [rec[p] EXCEPT !.fast = @ + 1]
  <1>2. /\ registered' = registered \cup {p}
        /\ rec' = [rec EXCEPT ![p] = n]
        /\ lease' = [lease EXCEPT ![p][t] = "fast"]
        /\ pc' = [pc EXCEPT ![t] = "using"]
        /\ UNCHANGED <<todo, pending>>
    BY <1>1 DEF TryFast, Store, Issue, Goto
  <1>n. /\ n \in Record /\ n.fast = 1 /\ n # NewRecord
        /\ n.legacy = rec[p].legacy /\ n.pending = rec[p].pending
    BY <1>1 DEF Record, NewRecord
  <1> HIDE DEF n
  <1>3. TypeOK'
    BY <1>2, <1>n DEF TypeOK, Kinds, Locations
  <1>4. \A u \in Threads : lease[p][u] = "none"
    BY <1>1, CountsHolders DEF TypeOK, Kinds
  <1>5. /\ Holders(p, "legacy")' = Holders(p, "legacy")
        /\ Holders(p, "fast")' = Holders(p, "fast") \cup {t}
        /\ Enrolling(p)' = Enrolling(p)
        /\ t \notin Holders(p, "fast")
        /\ Holders(p, "fast") \in SUBSET Threads
    BY <1>2, <1>4 DEF TypeOK, Holders, Enrolling
  <1>6. Cardinality(Holders(p, "fast")') = rec[p].fast + 1
    BY <1>5, CountOf, CountsHolders
  <1>7. rec'[p] = n
    BY <1>2 DEF TypeOK
  <1>8. \A q \in Paths \ {p} : rec'[q] = rec[q] /\ lease'[q] = lease[q]
    BY <1>2 DEF TypeOK
  <1>9. CountersExact'
    <2>1. /\ rec'[p].legacy = Cardinality(Holders(p, "legacy")')
          /\ rec'[p].pending = Cardinality(Enrolling(p)')
          /\ rec'[p].fast = Cardinality(Holders(p, "fast")')
      BY <1>1, <1>5, <1>6, <1>7, <1>n, CountsHolders
    <2> QED BY <2>1, <1>2, <1>3, <1>7, <1>8, <1>n, OneFile DEF TypeOK
  <1>10. SoleOccupant'
    BY <1>2, <1>4, <1>8 DEF SoleOccupant, TypeOK
  <1>11. Bookkeeping'
    BY <1>2, <1>8 DEF Bookkeeping, TypeOK, Held, TryFast
  <1> QED BY <1>3, <1>9, <1>10, <1>11

LEMMA EnrollsInv ==
  ASSUME Inv, NEW t \in Threads, NEW p \in Paths, Enrolls(t, p)
  PROVE  Inv'
  <1> USE DEF Inv
  <1>1. /\ Rec(p) = rec[p] /\ rec[p] \in Record
        /\ p \in pending[t] => rec[p].pending > 0
    BY RecIsStored, CountsHolders
  <1> DEFINE e == Enrolled(t, p)
             n == [e EXCEPT !.pending = @ - 1, !.legacy = @ + 1]
  <1>2. /\ e \in Record /\ e.legacy = rec[p].legacy /\ e.fast = rec[p].fast
        /\ e.pending > 0
        /\ p \in pending[t] => e.pending = rec[p].pending
        /\ p \notin pending[t] => e.pending = rec[p].pending + 1
    BY <1>1 DEF Enrolled, Record
  <1>3. /\ rec[p].fast = 0
        /\ pc[t] = "acquire" /\ p \in todo[t] /\ pending[t] \subseteq {p}
        /\ lease[p][t] = "none"
    BY <1>2 DEF Enrolls, MustWait, Bookkeeping, Held
  <1>4. /\ registered' = registered \cup {p}
        /\ rec' = [rec EXCEPT ![p] = n]
        /\ lease' = [lease EXCEPT ![p][t] = "legacy"]
        /\ pending' = [pending EXCEPT ![t] = {}]
        /\ todo' = [todo EXCEPT ![t] = @ \ {p}]
        /\ pc' = [pc EXCEPT ![t] = IF todo[t] = {p} THEN "using" ELSE "acquire"]
    BY DEF Enrolls, Store, Issue, Goto
  <1> HIDE DEF e
  <1>5. /\ n \in Record /\ n.legacy = e.legacy + 1 /\ n.fast = e.fast
        /\ n.pending = e.pending - 1 /\ n.legacy # 0
    <2>1. n = [e EXCEPT !.pending = e.pending - 1, !.legacy = e.legacy + 1]
      OBVIOUS
    <2> HIDE DEF n
    <2> QED BY <2>1, <1>2, EnrolmentCounted
  <1> HIDE DEF n
  <1>6. TypeOK'
    BY <1>4, <1>5 DEF TypeOK, Kinds, Locations
  <1>7. \A u \in Threads : lease[p][u] # "fast"
    BY <1>3, CountsHolders
  <1>8. /\ Holders(p, "legacy")' = Holders(p, "legacy") \cup {t}
        /\ Holders(p, "fast")' = Holders(p, "fast")
        /\ t \notin Holders(p, "legacy")
        /\ Holders(p, "legacy") \in SUBSET Threads
        /\ Enrolling(p) \in SUBSET Threads
        /\ Enrolling(p)' = Enrolling(p) \ {t}
    BY <1>3, <1>4 DEF TypeOK, Holders, Enrolling
  <1>9. rec'[p] = n /\ n # NewRecord
    <2>1. rec'[p] = n
      BY <1>4 DEF TypeOK
    <2> QED BY <2>1, <1>5 DEF NewRecord
  <1>10. \A q \in Paths \ {p} :
           /\ rec'[q] = rec[q] /\ lease'[q] = lease[q]
           /\ \A u \in Threads : q \in pending'[u] <=> q \in pending[u]
    BY <1>3, <1>4 DEF TypeOK
  <1>11. CountersExact'
    <2>1. rec'[p].legacy = Cardinality(Holders(p, "legacy")')
      BY <1>2, <1>5, <1>8, <1>9, CountOf, CountsHolders
    <2>2. rec'[p].fast = Cardinality(Holders(p, "fast")')
      BY <1>2, <1>5, <1>8, <1>9, CountsHolders
    <2>3. rec'[p].pending = Cardinality(Enrolling(p)')
      <3>1. CASE p \in pending[t]
        <4>1. t \in Enrolling(p)
          BY <3>1 DEF Enrolling
        <4>2. Cardinality(Enrolling(p) \ {t}) = Cardinality(Enrolling(p)) - 1
          BY <4>1, <1>8, CountOf
        <4> QED BY <3>1, <4>2, <1>2, <1>5, <1>8, <1>9, CountsHolders
      <3>2. CASE p \notin pending[t]
        <4>1. Enrolling(p) \ {t} = Enrolling(p)
          BY <3>2 DEF Enrolling
        <4>2. rec'[p].pending = rec[p].pending
          BY <3>2, <1>1, <1>2, <1>5, <1>9 DEF Record
        <4> QED BY <4>1, <4>2, <1>8, CountsHolders
      <3> QED BY <3>1, <3>2
    <2> QED BY <2>1, <2>2, <2>3, <1>4, <1>6, <1>9, <1>10, OneFile DEF TypeOK
  <1>12. SoleOccupant'
    BY <1>4, <1>7, <1>10 DEF SoleOccupant, TypeOK
  <1>13. Bookkeeping'
    BY <1>3, <1>4, <1>10 DEF Bookkeeping, TypeOK, Held
  <1> QED BY <1>6, <1>11, <1>12, <1>13
LEMMA BlocksInv ==
  ASSUME Inv, NEW t \in Threads, NEW p \in Paths, Blocks(t, p)
  PROVE  Inv'
  <1> USE DEF Inv
  <1>1. /\ Rec(p) = rec[p] /\ rec[p] \in Record
        /\ p \in pending[t] => rec[p].pending > 0
    BY RecIsStored, CountsHolders
  <1> DEFINE n == Enrolled(t, p)
  <1>2. /\ n \in Record /\ n.legacy = rec[p].legacy /\ n.fast = rec[p].fast
        /\ n.pending > 0
        /\ p \in pending[t] => n.pending = rec[p].pending
        /\ p \notin pending[t] => n.pending = rec[p].pending + 1
    BY <1>1 DEF Enrolled, Record
  <1>3. /\ pc[t] = "acquire" /\ p \in todo[t] /\ pending[t] \subseteq {p}
        /\ registered' = registered \cup {p}
        /\ rec' = [rec EXCEPT ![p] = n]
        /\ pending' = [pending EXCEPT ![t] = {p}]
        /\ pc' = [pc EXCEPT ![t] = "wait"] \/ pc' = pc
        /\ UNCHANGED <<lease, todo>>
    BY DEF Blocks, Store, Goto
  <1> HIDE DEF n
  <1>4. TypeOK'
    BY <1>2, <1>3 DEF TypeOK, Locations
  <1>5. /\ Holders(p, "legacy")' = Holders(p, "legacy")
        /\ Holders(p, "fast")' = Holders(p, "fast")
        /\ Enrolling(p)' = Enrolling(p) \cup {t}
        /\ Enrolling(p) \in SUBSET Threads
    BY <1>3 DEF TypeOK, Holders, Enrolling
  <1>6. rec'[p] = n /\ n # NewRecord
    BY <1>2, <1>3 DEF TypeOK, NewRecord
  <1>7. \A q \in Paths \ {p} :
           /\ rec'[q] = rec[q] /\ lease'[q] = lease[q]
           /\ \A u \in Threads : q \in pending'[u] <=> q \in pending[u]
    BY <1>3 DEF TypeOK
  <1>8. CountersExact'
    <2>1. rec'[p].pending = Cardinality(Enrolling(p)')
      <3>1. CASE p \in pending[t]
        <4>1. Enrolling(p) \cup {t} = Enrolling(p)
          BY <3>1 DEF Enrolling
        <4> QED BY <3>1, <4>1, <1>2, <1>5, <1>6, CountsHolders
      <3>2. CASE p \notin pending[t]
        <4>1. t \notin Enrolling(p)
          BY <3>2 DEF Enrolling
        <4>2. Cardinality(Enrolling(p) \cup {t}) = Cardinality(Enrolling(p)) + 1
          BY <4>1, <1>5, CountOf
        <4> QED BY <3>2, <4>2, <1>2, <1>5, <1>6, CountsHolders
      <3> QED BY <3>1, <3>2
    <2>2. /\ rec'[p].legacy = Cardinality(Holders(p, "legacy")')
          /\ rec'[p].fast = Cardinality(Holders(p, "fast")')
      BY <1>2, <1>5, <1>6, CountsHolders
    <2> QED BY <2>1, <2>2, <1>3, <1>4, <1>6, <1>7, OneFile DEF TypeOK
  <1>9. SoleOccupant'
    BY <1>3 DEF SoleOccupant
  <1>10. Bookkeeping'
    BY <1>3 DEF Bookkeeping, TypeOK, Held
  <1> QED BY <1>4, <1>8, <1>9, <1>10

LEMMA UnwindsInv ==
  ASSUME Inv, NEW t \in Threads, Unwinds(t)
  PROVE  Inv'
  <1> USE DEF Inv
  <1>1. PICK p \in pending[t] :
          IF p \in registered THEN StoreOrRetire(p, [rec[p] EXCEPT !.pending = @ - 1])
                              ELSE UNCHANGED <<registered, rec>>
    BY DEF Unwinds
  <1>2. p \in Paths /\ pending[t] = {p}
    BY DEF TypeOK, Bookkeeping
  <1>3. rec[p] \in Record /\ rec[p].pending > 0 /\ p \in registered
    BY <1>2, CountsHolders DEF NewRecord
  <1> DEFINE n == [rec[p] EXCEPT !.pending = @ - 1]
  <1>4. /\ registered' = IF n = NewRecord THEN registered \ {p} ELSE registered \cup {p}
        /\ rec' = [rec EXCEPT ![p] = n]
        /\ pending' = [pending EXCEPT ![t] = {}]
        /\ pc' = [pc EXCEPT ![t] = "abort"]
        /\ UNCHANGED <<lease, todo>>
    BY <1>1, <1>3 DEF Unwinds, StoreOrRetire, IsClean, Goto
  <1>5. /\ n \in Record /\ n.legacy = rec[p].legacy /\ n.fast = rec[p].fast
        /\ n.pending = rec[p].pending - 1
    BY <1>3 DEF Record
  <1> HIDE DEF n
  <1>6. TypeOK'
    BY <1>2, <1>4, <1>5 DEF TypeOK, Locations
  <1>7. /\ Holders(p, "legacy")' = Holders(p, "legacy")
        /\ Holders(p, "fast")' = Holders(p, "fast")
        /\ Enrolling(p)' = Enrolling(p) \ {t}
        /\ Enrolling(p) \in SUBSET Threads
        /\ t \in Enrolling(p)
    BY <1>2, <1>4 DEF TypeOK, Holders, Enrolling
  <1>8. rec'[p] = n /\ (p \in registered' <=> rec'[p] # NewRecord)
    BY <1>2, <1>4 DEF TypeOK
  <1>9. \A q \in Paths \ {p} :
           /\ rec'[q] = rec[q] /\ lease'[q] = lease[q]
           /\ q \in registered' <=> q \in registered
           /\ \A u \in Threads : q \in pending'[u] <=> q \in pending[u]
    BY <1>2, <1>4 DEF TypeOK
  <1>10. CountersExact'
    <2>1. Cardinality(Enrolling(p) \ {t}) = Cardinality(Enrolling(p)) - 1
      BY <1>7, CountOf
    <2>2. /\ rec'[p].legacy = Cardinality(Holders(p, "legacy")')
          /\ rec'[p].fast = Cardinality(Holders(p, "fast")')
          /\ rec'[p].pending = Cardinality(Enrolling(p)')
      BY <2>1, <1>2, <1>5, <1>7, <1>8, CountsHolders
    <2> QED BY <2>2, <1>2, <1>6, <1>8, <1>9, OneFile DEF TypeOK
  <1>11. SoleOccupant'
    BY <1>4 DEF SoleOccupant
  <1>12. Bookkeeping'
    BY <1>2, <1>4 DEF Bookkeeping, TypeOK, Held
  <1> QED BY <1>6, <1>10, <1>11, <1>12

LEMMA FinishesInv ==
  ASSUME Inv, NEW t \in Threads, NEW p \in Paths, Finishes(t, p)
  PROVE  Inv'
  <1> USE DEF Inv
  <1> DEFINE kind == lease[p][t]
             n == Finished(rec[p], kind, pc[t] # "unclear")
  <1>1. /\ pc[t] \in {"closing", "unclear", "abort"}
        /\ kind \in {"legacy", "fast"}
    BY DEF Finishes, Held, TypeOK, Kinds
  <1>2. /\ rec[p] \in Record
        /\ kind = "legacy" => rec[p].legacy > 0
        /\ kind = "fast" => rec[p].fast > 0
        /\ p \in registered
    BY <1>1, CountsHolders DEF NewRecord
  <1>3. /\ registered' = IF n = NewRecord THEN registered \ {p} ELSE registered \cup {p}
        /\ rec' = [rec EXCEPT ![p] = n]
        /\ lease' = [lease EXCEPT ![p][t] = "none"]
        /\ pc' = [u \in Threads |-> IF u = t THEN pc[t]
                                    ELSE IF pc[u] = "wait" THEN "acquire" ELSE pc[u]]
        /\ UNCHANGED <<todo, pending>>
    BY <1>2 DEF Finishes, StoreOrRetire, IsClean, Issue, NotifyAll
  <1>4. /\ n \in Record /\ n.pending = rec[p].pending
        /\ n.legacy = rec[p].legacy - (IF kind = "legacy" THEN 1 ELSE 0)
        /\ n.fast = rec[p].fast - (IF kind = "fast" THEN 1 ELSE 0)
    <2> DEFINE released == pc[t] # "unclear"
    <2>1. released \in BOOLEAN /\ n = Finished(rec[p], kind, released)
      OBVIOUS
    <2> HIDE DEF n, kind, released
    <2> QED BY <1>1, <1>2, <2>1, FinishedRecord
  <1> HIDE DEF n
  <1>5. TypeOK'
    BY <1>3, <1>4 DEF TypeOK, Kinds, Locations
  <1>6. /\ Holders(p, "legacy")' = Holders(p, "legacy") \ {t}
        /\ Holders(p, "fast")' = Holders(p, "fast") \ {t}
        /\ Enrolling(p)' = Enrolling(p)
        /\ Holders(p, "legacy") \in SUBSET Threads
        /\ Holders(p, "fast") \in SUBSET Threads
        /\ \A k \in {"legacy", "fast"} : t \in Holders(p, k) <=> kind = k
    BY <1>3 DEF TypeOK, Holders, Enrolling
  <1>7. rec'[p] = n /\ (p \in registered' <=> rec'[p] # NewRecord)
    BY <1>3 DEF TypeOK
  <1>8. \A q \in Paths \ {p} :
           /\ rec'[q] = rec[q] /\ lease'[q] = lease[q]
           /\ q \in registered' <=> q \in registered
    BY <1>3 DEF TypeOK
  <1>9. CountersExact'
    <2>1. \A k \in {"legacy", "fast"} :
            Cardinality(Holders(p, k) \ {t})
              = Cardinality(Holders(p, k)) - (IF kind = k THEN 1 ELSE 0)
      <3> SUFFICES ASSUME NEW k \in {"legacy", "fast"}
                   PROVE  Cardinality(Holders(p, k) \ {t})
                            = Cardinality(Holders(p, k)) - (IF kind = k THEN 1 ELSE 0)
        OBVIOUS
      <3>1. Holders(p, k) \in SUBSET Threads
        BY <1>6
      <3>2. CASE kind = k
        BY <3>1, <3>2, <1>6, CountOf
      <3>3. CASE kind # k
        <4>1. Holders(p, k) \ {t} = Holders(p, k)
          BY <3>3, <1>6
        <4>2. Cardinality(Holders(p, k)) \in Nat
          BY <3>1, CountOf
        <4> QED BY <4>1, <4>2, <3>3
      <3> QED BY <3>2, <3>3
    <2>2. /\ rec'[p].legacy = Cardinality(Holders(p, "legacy")')
          /\ rec'[p].fast = Cardinality(Holders(p, "fast")')
          /\ rec'[p].pending = Cardinality(Enrolling(p)')
      BY <2>1, <1>4, <1>6, <1>7, CountsHolders
    <2> QED BY <2>2, <1>3, <1>5, <1>7, <1>8, OneFile DEF TypeOK
  <1>10. SoleOccupant'
    <2>1. \A q \in Paths, u \in Threads : lease'[q][u] = lease[q][u] \/ lease'[q][u] = "none"
      BY <1>3 DEF TypeOK
    <2> QED BY <2>1 DEF SoleOccupant
  <1>11. Bookkeeping'
    <2>1. \A u \in Threads : Held(u)' \subseteq Held(u)
      BY <1>3 DEF TypeOK, Held
    <2>2. \A u \in Threads : /\ pc'[u] = "idle" => pc[u] = "idle"
                             /\ pc'[u] \in {"acquire", "wait", "unwind"}
                                  <=> pc[u] \in {"acquire", "wait", "unwind"}
      BY <1>1, <1>3
    <2> QED BY <2>1, <2>2, <1>3 DEF Bookkeeping
  <1> QED BY <1>5, <1>9, <1>10, <1>11
LEMMA QuietInv ==
  ASSUME Inv, NEW t \in Threads,
         \/ \E F \in Families : Begins(t, F)
         \/ \E p \in Paths : FastDeclined(t, p) \/ Raises(t, p)
         \/ \E l \in Locations : Closes(t, l)
         \/ TimesOut(t) \/ Interrupted(t) \/ Done(t)
  PROVE  Inv'
  <1> USE DEF Inv, Goto
  <1>1. CASE \E F \in Families : Begins(t, F)
    <2>1. PICK F \in Families : Begins(t, F)
      BY <1>1
    <2>2. TypeOK'
      BY <2>1, GateAssumption DEF Begins, TypeOK, Locations
    <2>3. Bookkeeping'
      BY <2>1 DEF Begins, Bookkeeping, TypeOK, Held
    <2> QED BY <2>1, <2>2, <2>3, RecordsUntouched DEF Begins
  <1>2. CASE \E p \in Paths : FastDeclined(t, p)
    <2>1. PICK p \in Paths : FastDeclined(t, p)
      BY <1>2
    <2>2. TypeOK'
      BY <2>1 DEF FastDeclined, TypeOK, Locations
    <2>3. Bookkeeping'
      BY <2>1 DEF FastDeclined, Bookkeeping, TypeOK, Held
    <2> QED BY <2>1, <2>2, <2>3, RecordsUntouched DEF FastDeclined
  <1>3. CASE \E p \in Paths : Raises(t, p)
    <2>1. PICK p \in Paths : Raises(t, p)
      BY <1>3
    <2>2. TypeOK'
      BY <2>1 DEF Raises, TypeOK, Locations
    <2>3. Bookkeeping'
      BY <2>1 DEF Raises, Bookkeeping, TypeOK, Held
    <2> QED BY <2>1, <2>2, <2>3, RecordsUntouched DEF Raises
  <1>4. CASE \E l \in Locations : Closes(t, l)
    <2>1. PICK l \in Locations : Closes(t, l)
      BY <1>4
    <2>2. TypeOK'
      BY <2>1 DEF Closes, TypeOK, Locations
    <2>3. Bookkeeping'
      BY <2>1 DEF Closes, Bookkeeping, TypeOK, Held
    <2> QED BY <2>1, <2>2, <2>3, RecordsUntouched DEF Closes
  <1>5. CASE TimesOut(t) \/ Interrupted(t)
    <2>1. TypeOK'
      BY <1>5 DEF TimesOut, Interrupted, TypeOK, Locations
    <2>2. Bookkeeping'
      BY <1>5 DEF TimesOut, Interrupted, Bookkeeping, TypeOK, Held
    <2> QED BY <1>5, <2>1, <2>2, RecordsUntouched DEF TimesOut, Interrupted
  <1>6. CASE Done(t)
    <2>1. TypeOK'
      BY <1>6 DEF Done, TypeOK, Locations
    <2>2. Bookkeeping'
      BY <1>6 DEF Done, Bookkeeping, TypeOK, Held
    <2> QED BY <1>6, <2>1, <2>2, RecordsUntouched DEF Done
  <1> QED BY <1>1, <1>2, <1>3, <1>4, <1>5, <1>6

LEMMA StepInv == Inv /\ [Next]_vars => Inv'
  <1> SUFFICES ASSUME Inv, [Next]_vars PROVE Inv'
    OBVIOUS
  <1>1. CASE Next
    <2>1. PICK t \in Threads : Step(t)
      BY <1>1 DEF Next
    <2> QED BY <2>1, TryFastInv, EnrollsInv, BlocksInv, UnwindsInv, FinishesInv, QuietInv
            DEF Step, Proceeds
  <1>2. CASE UNCHANGED vars
    <2>1. UNCHANGED <<registered, rec, lease, pc, todo, pending>>
      BY <1>2 DEF vars
    <2>2. TypeOK' /\ Bookkeeping'
      BY <2>1 DEF Inv, TypeOK, Bookkeeping, Held
    <2> QED BY <2>1, <2>2, RecordsUntouched DEF Inv
  <1> QED BY <1>1, <1>2

LEMMA Invariant == Spec => []Inv
  BY InitInv, StepInv, PTL DEF Spec

\* Every reachable state of the gate is well typed: in particular no counter of
\* a record goes below zero, so the max(0, ...) of _finish never acts.
THEOREM TypeCorrect == Spec => []TypeOK
  BY Invariant, PTL DEF Inv

\* A fast reader has the file to itself, for any threads, files and families.
THEOREM FastReaderAlone == Spec => []SoleOccupant
  BY Invariant, PTL DEF Inv

\* The counters of a record are exactly the leases and waiting threads it
\* stands for, and exactly the files with something to remember have one.
THEOREM RecordsExact == Spec => []CountersExact
  BY Invariant, PTL DEF Inv
------------------------------------------------------------------------------
(* An unproven release is final.                                            *)

\* A step that leaves the leases and the record of p alone.
LEMMA BarElsewhere ==
  ASSUME NEW p \in Paths, NEW kind \in {"fast", "legacy"},
         Barred(p, kind) \/ ReleasesUnproven(p, kind),
         rec'[p] = rec[p], lease'[p] = lease[p], p \in registered => p \in registered'
  PROVE  Barred(p, kind)'
  <1>1. ~ReleasesUnproven(p, kind)
    BY DEF ReleasesUnproven
  <1> QED BY <1>1 DEF Barred, Holders

\* A step that takes no lease of p away and keeps the flags of its record.
LEMMA BarKept ==
  ASSUME Inv, NEW p \in Paths, NEW kind \in {"fast", "legacy"},
         Barred(p, kind) \/ ReleasesUnproven(p, kind),
         \A t \in Threads : lease[p][t] # "none" => lease'[p][t] # "none",
         Barred(p, kind) =>
           /\ rec[p].fastUncertain => rec'[p].fastUncertain
           /\ rec[p].legacyUncertain => rec'[p].legacyUncertain
           /\ p \in registered'
           /\ kind = "fast" => \A t \in Threads : lease'[p][t] = lease[p][t]
           /\ \A t \in Threads : lease[p][t] # "fast" => lease'[p][t] # "fast"
  PROVE  Barred(p, kind)'
  <1>1. ~ReleasesUnproven(p, kind)
    BY DEF ReleasesUnproven
  <1>2. Barred(p, kind)
    BY <1>1
  <1>3. CASE kind = "fast"
    BY <1>2, <1>3 DEF Barred
  <1>4. CASE kind = "legacy"
    BY <1>2, <1>4 DEF Barred, Holders
  <1> QED BY <1>3, <1>4

LEMMA TryFastBars ==
  ASSUME Inv, NEW t \in Threads, NEW p \in Paths, TryFast(t, p),
         NEW kind \in {"fast", "legacy"}, Barred(p, kind) \/ ReleasesUnproven(p, kind)
  PROVE  Barred(p, kind)'
  <1>1. ~Barred(p, kind)
    BY DEF TryFast, Admits, Rec, Barred
  <1>2. \A u \in Threads : lease[p][u] # "none" => lease'[p][u] # "none"
    BY DEF TryFast, Issue, Inv, TypeOK
  <1> QED BY <1>1, <1>2 DEF ReleasesUnproven

LEMMA EnrollsBars ==
  ASSUME Inv, NEW t \in Threads, NEW p \in Paths, Enrolls(t, p),
         NEW kind \in {"fast", "legacy"}, Barred(p, kind) \/ ReleasesUnproven(p, kind)
  PROVE  Barred(p, kind)'
  <1> DEFINE e == Enrolled(t, p)
             n == [e EXCEPT !.pending = @ - 1, !.legacy = @ + 1]
  <1>1. Rec(p) = rec[p] /\ rec[p] \in Record
    BY RecIsStored, CountsHolders DEF Inv
  <1>2. /\ e \in Record
        /\ e.fastUncertain = rec[p].fastUncertain
        /\ e.legacyUncertain = rec[p].legacyUncertain
    BY <1>1, CountsHolders DEF Enrolled, Record, Inv
  <1>3. /\ p \in registered' /\ rec' = [rec EXCEPT ![p] = n]
        /\ lease' = [lease EXCEPT ![p][t] = "legacy"]
        /\ ~rec[p].fastUncertain
    BY <1>1 DEF Enrolls, Store, Issue
  <1> HIDE DEF e
  <1>4. n.legacyUncertain = e.legacyUncertain
    BY <1>2 DEF Record
  <1> HIDE DEF n
  <1>5. rec'[p] = n
    BY <1>3 DEF Inv, TypeOK
  <1>6. \A u \in Threads : /\ lease[p][u] # "none" => lease'[p][u] # "none"
                           /\ lease[p][u] # "fast" => lease'[p][u] # "fast"
    BY <1>3 DEF Inv, TypeOK
  <1>7. Barred(p, kind) => kind # "fast"
    BY <1>3 DEF Barred
  <1> QED BY <1>2, <1>3, <1>4, <1>5, <1>6, <1>7, BarKept

LEMMA BlocksBars ==
  ASSUME Inv, NEW t \in Threads, NEW p \in Paths, Blocks(t, p),
         NEW kind \in {"fast", "legacy"}, Barred(p, kind) \/ ReleasesUnproven(p, kind)
  PROVE  Barred(p, kind)'
  <1>1. Rec(p) = rec[p] /\ rec[p] \in Record
    BY RecIsStored, CountsHolders DEF Inv
  <1>2. /\ Enrolled(t, p).fastUncertain = rec[p].fastUncertain
        /\ Enrolled(t, p).legacyUncertain = rec[p].legacyUncertain
    BY <1>1 DEF Enrolled, Record
  <1>3. p \in registered' /\ rec'[p] = Enrolled(t, p) /\ lease' = lease
    BY DEF Blocks, Store, Inv, TypeOK
  <1> QED BY <1>2, <1>3, BarKept

LEMMA UnwindsBars ==
  ASSUME Inv, NEW t \in Threads, Unwinds(t), NEW p \in Paths,
         NEW kind \in {"fast", "legacy"}, Barred(p, kind) \/ ReleasesUnproven(p, kind)
  PROVE  Barred(p, kind)'
  <1>1. PICK q \in pending[t] :
          IF q \in registered THEN StoreOrRetire(q, [rec[q] EXCEPT !.pending = @ - 1])
                              ELSE UNCHANGED <<registered, rec>>
    BY DEF Unwinds
  <1>2. q \in Paths /\ lease' = lease
    BY DEF Unwinds, Inv, TypeOK
  <1>3. rec[q] \in Record /\ q \in registered
    BY <1>2, CountsHolders DEF NewRecord, Inv
  <1> DEFINE n == [rec[q] EXCEPT !.pending = @ - 1]
  <1>4. /\ registered' = IF n = NewRecord THEN registered \ {q} ELSE registered \cup {q}
        /\ rec' = [rec EXCEPT ![q] = n]
    BY <1>1, <1>3 DEF StoreOrRetire, IsClean
  <1>5. /\ n.fastUncertain = rec[q].fastUncertain
        /\ n.legacyUncertain = rec[q].legacyUncertain
    BY <1>3 DEF Record
  <1> HIDE DEF n
  <1>6. CASE q # p
    BY <1>2, <1>4, <1>6, BarElsewhere DEF Inv, TypeOK
  <1>7. CASE q = p
    <2>1. rec'[p] = n
      BY <1>4, <1>7 DEF Inv, TypeOK
    <2>2. Barred(p, kind) => n # NewRecord
      BY <1>5, <1>7 DEF Barred, NewRecord
    <2>3. Barred(p, kind) => p \in registered'
      BY <1>4, <1>7, <2>2
    <2> QED BY <1>2, <1>5, <1>7, <2>1, <2>3, BarKept
  <1> QED BY <1>6, <1>7

LEMMA FinishesBars ==
  ASSUME Inv, NEW t \in Threads, NEW p \in Paths, Finishes(t, p),
         NEW kind \in {"fast", "legacy"}, Barred(p, kind) \/ ReleasesUnproven(p, kind)
  PROVE  Barred(p, kind)'
  <1> DEFINE held == lease[p][t]
             released == pc[t] # "unclear"
             n == Finished(rec[p], held, released)
  <1>1. held \in {"legacy", "fast"}
    BY DEF Finishes, Held, Inv, TypeOK, Kinds
  <1>2. /\ rec[p] \in Record
        /\ held = "legacy" => rec[p].legacy > 0
        /\ held = "fast" => rec[p].fast > 0
        /\ p \in registered
    BY <1>1, CountsHolders DEF NewRecord, Inv
  <1>3. /\ registered' = IF n = NewRecord THEN registered \ {p} ELSE registered \cup {p}
        /\ rec' = [rec EXCEPT ![p] = n]
        /\ lease' = [lease EXCEPT ![p][t] = "none"]
    BY <1>2 DEF Finishes, StoreOrRetire, IsClean, Issue
  <1>4. /\ rec[p].fastUncertain \/ (held = "fast" /\ ~released) => n.fastUncertain
        /\ rec[p].legacyUncertain \/ (held = "legacy" /\ ~released) => n.legacyUncertain
    <2>1. released \in BOOLEAN /\ n = Finished(rec[p], held, released)
      OBVIOUS
    <2> HIDE DEF n, held, released
    <2> QED BY <1>1, <1>2, <2>1, FinishedRecord
  <1> HIDE DEF n
  <1>5. rec'[p] = n /\ (n # NewRecord => p \in registered')
    BY <1>3 DEF Inv, TypeOK
  <1>6. \A u \in Threads : lease'[p][u] = IF u = t THEN "none" ELSE lease[p][u]
    BY <1>3 DEF Inv, TypeOK
  <1>7. CASE Barred(p, kind)
    <2>1. kind = "legacy" /\ rec[p].legacyUncertain /\ Holders(p, "fast") = {}
      BY <1>1, <1>7 DEF Barred
    <2>2. n.legacyUncertain /\ n # NewRecord
      BY <1>4, <2>1 DEF NewRecord
    <2>3. Holders(p, "fast")' = {}
      BY <1>6, <2>1 DEF Holders
    <2> QED BY <1>5, <2>1, <2>2, <2>3 DEF Barred
  <1>8. CASE ReleasesUnproven(p, kind)
    <2>1. held = kind /\ ~released
      BY <1>6, <1>8 DEF ReleasesUnproven
    <2>2. CASE kind = "fast"
      <3>1. n.fastUncertain /\ n # NewRecord
        BY <1>4, <2>1, <2>2 DEF NewRecord
      <3>2. \A u \in Threads : lease'[p][u] = "none"
        BY <1>6, <2>1, <2>2 DEF Inv, SoleOccupant
      <3> QED BY <1>5, <2>2, <3>1, <3>2 DEF Barred
    <2>3. CASE kind = "legacy"
      <3>1. n.legacyUncertain /\ n # NewRecord
        BY <1>4, <2>1, <2>3 DEF NewRecord
      <3>2. Holders(p, "fast")' = {}
        BY <1>6, <2>1, <2>3 DEF Inv, SoleOccupant, Holders
      <3> QED BY <1>5, <2>3, <3>1, <3>2 DEF Barred
    <2> QED BY <2>2, <2>3
  <1> QED BY <1>7, <1>8

LEMMA BarStep ==
  ASSUME Inv, [Next]_vars, NEW p \in Paths, NEW kind \in {"fast", "legacy"},
         Barred(p, kind) \/ ReleasesUnproven(p, kind)
  PROVE  Barred(p, kind)'
  <1>1. ASSUME UNCHANGED <<registered, rec, lease>> PROVE Barred(p, kind)'
    BY <1>1, BarElsewhere
  <1>2. CASE Next
    <2>1. PICK t \in Threads : Step(t)
      BY <1>2 DEF Next
    <2>2. CASE \E q \in Paths : TryFast(t, q) \/ Enrolls(t, q) \/ Blocks(t, q) \/ Finishes(t, q)
      <3>1. PICK q \in Paths : TryFast(t, q) \/ Enrolls(t, q) \/ Blocks(t, q) \/ Finishes(t, q)
        BY <2>2
      <3>2. CASE q = p
        BY <3>1, <3>2, TryFastBars, EnrollsBars, BlocksBars, FinishesBars
      <3>3. CASE q # p
        <4>1. /\ rec'[p] = rec[p] /\ lease'[p] = lease[p]
              /\ p \in registered => p \in registered'
          BY <3>1, <3>3
             DEF TryFast, Enrolls, Blocks, Finishes, Store, StoreOrRetire, Issue, Inv, TypeOK
        <4> QED BY <4>1, BarElsewhere
      <3> QED BY <3>2, <3>3
    <2>3. CASE Unwinds(t)
      BY <2>3, UnwindsBars
    <2>4. CASE \/ \E F \in Families : Begins(t, F)
               \/ \E q \in Paths : FastDeclined(t, q) \/ Raises(t, q)
               \/ \E l \in Locations : Closes(t, l)
               \/ TimesOut(t) \/ Interrupted(t) \/ Done(t)
      BY <1>1, <2>4 DEF Begins, FastDeclined, Raises, Closes, TimesOut, Interrupted, Done
    <2> QED BY <2>1, <2>2, <2>3, <2>4 DEF Step, Proceeds
  <1>3. CASE UNCHANGED vars
    BY <1>1, <1>3 DEF vars
  <1> QED BY <1>2, <1>3

\* A release that could not prove the file closed is never forgotten: whatever
\* threads come after it, the file has no fast reader again, and after an
\* unproven release of a fast reader no occupant at all.
THEOREM UnprovenReleaseIsFinal == Spec => UncertainIsFinal
  <1>1. Inv /\ [Next]_vars =>
          [\A p \in Paths, kind \in {"fast", "legacy"} :
             Barred(p, kind) \/ ReleasesUnproven(p, kind) => Barred(p, kind)']_vars
    BY BarStep
  <1> QED BY <1>1, Invariant, PTL DEF Spec, UncertainIsFinal
==============================================================================
