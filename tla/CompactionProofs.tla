-------------------------- MODULE CompactionProofs --------------------------
(***************************************************************************)
(* Theorems about Compaction for any tool calls, policy and bounds: the    *)
(* conversation keeps standing for what was said, and rounds stay whole.   *)
(***************************************************************************)
EXTENDS Compaction, SequenceTheorems, FiniteSetTheorems, WellFoundedInduction, TLAPS

-----------------------------------------------------------------------------
(* Numbers: the latest of a set, and its elements in order.                *)

LEMMA LeastNat ==
  ASSUME NEW T, T \subseteq Nat, T # {}
  PROVE  \E x \in T : \A y \in T : x <= y
  <1>1. OpToRel(<, Nat) = {ss \in Nat \X Nat : ss[1] < ss[2]}
    BY Zenon DEF OpToRel
  <1>2. PICK R : R = {ss \in Nat \X Nat : ss[1] < ss[2]}
    OBVIOUS
  <1>3. IsWellFoundedOn(R, Nat)
    BY <1>1, <1>2, NatLessThanWellFounded
  <1>4. PICK x \in T : \A y \in T : ~(<<y, x>> \in R)
    BY <1>3, WFMin
  <1>5. ASSUME NEW y \in T
        PROVE  x <= y
    <2>1. ~(y < x)
      BY <1>2, <1>4
    <2> QED BY <2>1
  <1> QED BY <1>5

LEMMA LatestIs ==
  ASSUME NEW n \in Nat, NEW S, S \subseteq 1..n, S # {}
  PROVE  Latest(S) \in S /\ \A y \in S : y <= Latest(S)
  <1> DEFINE T == {k \in Nat : \A y \in S : y <= k}
  <1>1. T \subseteq Nat /\ n \in T
    OBVIOUS
  <1>2. PICK k \in T : \A l \in T : k <= l
    <2> HIDE DEF T
    <2> QED BY <1>1, LeastNat
  <1>3. k \in S
    <2> SUFFICES ASSUME k \notin S
                 PROVE  FALSE
      OBVIOUS
    <2>1. PICK y \in S : TRUE
      OBVIOUS
    <2>2. k \in Nat /\ k - 1 \in Nat
      BY <1>2, <2>1
    <2>3. \A z \in S : z <= k - 1
      BY <1>2, <2>2
    <2> QED BY <1>2, <2>2, <2>3
  <1> QED BY <1>2, <1>3 DEF Latest

LEMMA InOrder ==
  ASSUME NEW n \in Nat, NEW S, S \subseteq 1..n
  PROVE  /\ Cardinality(S) \in Nat
         /\ \A k \in 1..Cardinality(S) : Nth(S, k) \in S
         /\ \A k, l \in 1..Cardinality(S) : k < l => Nth(S, k) < Nth(S, l)
         /\ \A i \in S : \E k \in 1..Cardinality(S) : Nth(S, k) = i
  <1> DEFINE m == Cardinality(S)
             Upto(i) == {j \in S : j <= i}
             f == [i \in S |-> Cardinality(Upto(i))]
  <1>1. IsFiniteSet(S) /\ m \in Nat
    <2>1. IsFiniteSet(1..n)
      BY FS_Interval
    <2> QED BY <2>1, FS_Subset, FS_CardinalityType
  <1>2. \A i \in S : Upto(i) \subseteq S /\ IsFiniteSet(Upto(i)) /\ Cardinality(Upto(i)) \in 1..m
    <2> TAKE i \in S
    <2>1. Upto(i) \in SUBSET S /\ Upto(i) # {}
      OBVIOUS
    <2>2. IsFiniteSet(Upto(i)) /\ Cardinality(Upto(i)) <= m
      BY <1>1, <2>1, FS_Subset
    <2>3. Cardinality(Upto(i)) \in Nat /\ Cardinality(Upto(i)) # 0
      <3> HIDE DEF Upto
      <3> QED BY <2>1, <2>2, FS_CardinalityType, FS_EmptySet
    <2> QED BY <1>1, <2>1, <2>2, <2>3
  <1>3. \A i, j \in S : i < j => f[i] < f[j]
    <2> SUFFICES ASSUME NEW i \in S, NEW j \in S, i < j
                 PROVE  Cardinality(Upto(i)) < Cardinality(Upto(j))
      OBVIOUS
    <2>1. Upto(i) \in SUBSET Upto(j) /\ Upto(i) # Upto(j)
      <3>1. i \in Nat /\ j \in Nat
        OBVIOUS
      <3>2. j \in Upto(j) /\ j \notin Upto(i)
        BY <3>1
      <3>3. ASSUME NEW x \in Upto(i)
            PROVE  x \in Upto(j)
        BY <3>1, <3>3
      <3> QED BY <3>2, <3>3
    <2>2. /\ Cardinality(Upto(i)) <= Cardinality(Upto(j))
          /\ Cardinality(Upto(i)) # Cardinality(Upto(j))
      <3> HIDE DEF Upto
      <3> QED BY <1>2, <2>1, FS_Subset
    <2> QED BY <1>2, <2>2
  <1>4. f \in [S -> 1..m]
    BY <1>2
  <1>5. \A i, j \in S : f[i] = f[j] => i = j
    <2> SUFFICES ASSUME NEW i \in S, NEW j \in S, f[i] = f[j], i # j
                 PROVE  FALSE
      OBVIOUS
    <2>1. i \in Nat /\ j \in Nat /\ f[i] \in Nat /\ f[j] \in Nat
      <3> HIDE DEF f
      <3> QED BY <1>4
    <2> HIDE DEF f
    <2> QED BY <1>3, <2>1
  <1>6. f \in Surjection(S, 1..m)
    <2> HIDE DEF f
    <2>1. f \in Injection(S, 1..m)
      BY <1>4, <1>5 DEF Injection, IsInjective
    <2>2. IsFiniteSet(1..m) /\ Cardinality(1..m) = m
      <3> HIDE DEF m
      <3> QED BY <1>1, FS_Interval
    <2> QED BY <2>1, <2>2, FS_Injection
  <1>7. \A k \in 1..m : \E i \in S : f[i] = k
    <2> HIDE DEF f
    <2> QED BY <1>6 DEF Surjection
  <1>8. \A k \in 1..m : Nth(S, k) \in S /\ f[Nth(S, k)] = k
    BY <1>7 DEF Nth
  <1>9. \A k, l \in 1..m : k < l => Nth(S, k) < Nth(S, l)
    <2> SUFFICES ASSUME NEW k \in 1..m, NEW l \in 1..m, k < l
                 PROVE  Nth(S, k) < Nth(S, l)
      OBVIOUS
    <2>1. PICK x, y : x = Nth(S, k) /\ y = Nth(S, l)
      OBVIOUS
    <2>2. x \in S /\ y \in S /\ f[x] = k /\ f[y] = l
      BY <1>8, <2>1
    <2>3. x < y
      <3>1. x \in Nat /\ y \in Nat /\ f[x] < f[y]
        BY <2>2
      <3> HIDE DEF f
      <3>2. f[x] \in Nat /\ f[y] \in Nat /\ (y < x => f[y] < f[x]) /\ x # y
        BY <1>3, <1>4, <2>2, <3>1
      <3> QED BY <3>1, <3>2
    <2> QED BY <2>1, <2>3
  <1>10. \A i \in S : \E k \in 1..m : Nth(S, k) = i
    <2> HIDE DEF f
    <2> QED BY <1>4, <1>5, <1>8
  <1> QED BY <1>1, <1>8, <1>9, <1>10

-----------------------------------------------------------------------------
(* Messages and lists of messages.                                         *)

Ids   == (1..MaxBodies) \X Calls
Word  == Nat \X {0, 1}
Roles == {"system", "user", "assistant", "tool"}
Msg   == [body : Nat, gen : Nat, ver : {0, 1}, role : Roles, calls : SUBSET Ids,
          answers : {NoCall} \cup Ids, covers : SUBSET Word]

\* Of the first n bodies: only a reply calls tools, and it says nothing else.
Proper(m, n) ==
  /\ m.calls # {} => /\ m.role = "assistant" /\ m.covers = {} /\ m.body \in 1..n
                     /\ m.calls \subseteq {m.body} \X Calls
  /\ m.role = "tool" => m.covers = {}

\* The system prompt comes first, and a round is never what follows it.
Opened(c) ==
  /\ c # <<>> /\ c[1].role = "system"
  /\ Len(c) >= 2 => c[2].role \in {"user", "assistant"} /\ c[2].calls = {}

Whole(c) ==
  \A i \in DOMAIN c : c[i].role = "tool" =>
      \E j \in 1..(i - 1) : /\ c[i].answers \in c[j].calls
                            /\ \A k \in (j + 1)..i : c[k].role = "tool"

IsList(c, n) ==
  /\ c \in Seq(Msg) /\ \A i \in DOMAIN c : Proper(c[i], n)
  /\ Opened(c) /\ Whole(c)

\* What one message stands for.
Words(m) == m.covers \cup {w \in {<<m.body, m.ver>>} : IsText(m)}

LEMMA InWords ==
  ASSUME NEW c, NEW w
  PROVE  w \in StandsFor(c) <=> \E i \in DOMAIN c : w \in Words(c[i])
  BY DEF StandsFor, Words

\* s is what sanitising keeps of c: its k-th message is the one at at[k].
Picks(at, c, P, s) ==
  /\ s \in Seq(Msg) /\ at \in [1..Len(s) -> 1..Len(c)]
  /\ \A k, l \in 1..Len(s) : k < l => at[k] < at[l]
  /\ \A k \in 1..Len(s) : /\ Survives(c, at[k], P)
                          /\ s[k] = [c[at[k]] EXCEPT !.calls = KeptCalls(c, at[k], P)]
  /\ \A i \in 1..Len(c) : Survives(c, i, P) => \E k \in 1..Len(s) : at[k] = i

LEMMA SanitizedPicks ==
  ASSUME NEW c \in Seq(Msg), NEW P
  PROVE  \E at : Picks(at, c, P, Sanitized(c, P))
  <1> DEFINE S == {i \in DOMAIN c : Survives(c, i, P)}
             m == Cardinality(S)
             at == [k \in 1..m |-> Nth(S, k)]
             s == Sanitized(c, P)
  <1>1. S \subseteq 1..Len(c) /\ Len(c) \in Nat
    OBVIOUS
  <1>2. /\ m \in Nat /\ \A k \in 1..m : Nth(S, k) \in S
        /\ \A k, l \in 1..m : k < l => Nth(S, k) < Nth(S, l)
        /\ \A i \in S : \E k \in 1..m : Nth(S, k) = i
    <2> HIDE DEF S
    <2> QED BY <1>1, InOrder
  <1>3. s = [k \in 1..m |-> [c[Nth(S, k)] EXCEPT !.calls = KeptCalls(c, Nth(S, k), P)]]
    BY DEF Sanitized
  <1>4. \A i \in 1..Len(c) : [c[i] EXCEPT !.calls = KeptCalls(c, i, P)] \in Msg
    <2> TAKE i \in 1..Len(c)
    <2>1. c[i] \in Msg /\ KeptCalls(c, i, P) \subseteq c[i].calls
      BY DEF KeptCalls
    <2> QED BY <2>1 DEF Msg
  <1>5. \A k \in 1..m : Nth(S, k) \in 1..Len(c) /\ Survives(c, Nth(S, k), P)
    BY <1>2
  <1>10. \A i \in 1..Len(c) : Survives(c, i, P) => i \in S
    OBVIOUS
  <1> HIDE DEF S, m
  <1>6. s \in Seq(Msg) /\ Len(s) = m
    <2>1. \A k \in 1..m : [c[Nth(S, k)] EXCEPT !.calls = KeptCalls(c, Nth(S, k), P)] \in Msg
      BY <1>4, <1>5
    <2>2. s \in [1..m -> Msg]
      <3> HIDE DEF s
      <3> QED BY <1>3, <2>1
    <2>3. DOMAIN s = 1..m
      BY <1>3
    <2> HIDE DEF s
    <2> QED BY <1>2, <2>2, <2>3
  <1>7. \A k \in 1..m : s[k] = [c[at[k]] EXCEPT !.calls = KeptCalls(c, at[k], P)]
    BY <1>3
  <1>8. \A i \in 1..Len(c) : Survives(c, i, P) => \E k \in 1..m : at[k] = i
    BY <1>2, <1>10
  <1>9. Picks(at, c, P, s)
    BY <1>2, <1>5, <1>6, <1>7, <1>8 DEF Picks
  <1> QED BY <1>9

\* Messages that do not call and are no results stay, as they are.
LEMMA PlainSurvives ==
  ASSUME NEW c \in Seq(Msg), NEW P, NEW i \in DOMAIN c, c[i].calls = {}, c[i].role # "tool"
  PROVE  Survives(c, i, P)
  BY DEF Survives

LEMMA PickedMessage ==
  ASSUME NEW c \in Seq(Msg), NEW P, NEW s, NEW at, Picks(at, c, P, s), NEW k \in 1..Len(s)
  PROVE  /\ at[k] \in DOMAIN c /\ k \in DOMAIN s
         /\ s[k].body = c[at[k]].body /\ s[k].ver = c[at[k]].ver /\ s[k].gen = c[at[k]].gen
         /\ s[k].role = c[at[k]].role /\ s[k].answers = c[at[k]].answers
         /\ s[k].covers = c[at[k]].covers
         /\ s[k].calls = KeptCalls(c, at[k], P) /\ s[k].calls \subseteq c[at[k]].calls
         /\ s[k].calls = {} => c[at[k]].calls = {}
  <1>1. at[k] \in 1..Len(c) /\ Survives(c, at[k], P)
        /\ s[k] = [c[at[k]] EXCEPT !.calls = KeptCalls(c, at[k], P)]
    BY DEF Picks
  <1>2. c[at[k]] \in Msg
    BY <1>1
  <1>3. KeptCalls(c, at[k], P) \subseteq c[at[k]].calls
    BY DEF KeptCalls
  <1>4. c[at[k]].calls # {} => KeptCalls(c, at[k], P) # {}
    BY <1>1 DEF Survives
  <1>5. k \in DOMAIN s
    BY DEF Picks
  <1> QED BY <1>1, <1>2, <1>3, <1>4, <1>5 DEF Msg

LEMMA SanitizedWords ==
  ASSUME NEW c, NEW n \in Nat, NEW P, IsList(c, n)
  PROVE  StandsFor(Sanitized(c, P)) = StandsFor(c)
  <1> DEFINE s == Sanitized(c, P)
  <1>1. c \in Seq(Msg) /\ \A i \in DOMAIN c : Proper(c[i], n)
    BY DEF IsList
  <1>2. PICK at : Picks(at, c, P, s)
    BY <1>1, SanitizedPicks
  <1> HIDE DEF s
  <1>3. \A k \in 1..Len(s) : Words(s[k]) = Words(c[at[k]])
    <2> TAKE k \in 1..Len(s)
    <2>1. s[k].calls = {} <=> c[at[k]].calls = {}
      BY <1>1, <1>2, PickedMessage
    <2> QED BY <1>1, <1>2, <2>1, PickedMessage DEF Words, IsText
  <1>4. ASSUME NEW i \in 1..Len(c), ~Survives(c, i, P)
        PROVE  Words(c[i]) = {}
    <2>1. c[i].calls # {} \/ c[i].role = "tool"
      BY <1>1, <1>4, PlainSurvives
    <2>2. Proper(c[i], n)
      BY <1>1
    <2> QED BY <2>1, <2>2 DEF Proper, Words, IsText
  <1>5. s \in Seq(Msg)
    BY <1>2 DEF Picks
  <1>6. ASSUME NEW w
        PROVE  w \in StandsFor(s) <=> w \in StandsFor(c)
    <2>1. ASSUME NEW k \in DOMAIN s, w \in Words(s[k])
          PROVE  \E i \in DOMAIN c : w \in Words(c[i])
      <3>1. k \in 1..Len(s)
        BY <1>5
      <3> QED BY <1>1, <1>2, <1>3, <2>1, <3>1, PickedMessage
    <2>2. ASSUME NEW i \in DOMAIN c, w \in Words(c[i])
          PROVE  \E k \in DOMAIN s : w \in Words(s[k])
      <3>1. i \in 1..Len(c)
        BY <1>1
      <3>2. Survives(c, i, P)
        BY <1>4, <2>2, <3>1
      <3>3. PICK k \in 1..Len(s) : at[k] = i
        BY <1>2, <3>1, <3>2 DEF Picks
      <3>4. k \in DOMAIN s
        BY <1>5
      <3> QED BY <1>3, <2>2, <3>3, <3>4
    <2> QED BY <2>1, <2>2, InWords
  <1> QED BY <1>6 DEF s

LEMMA PickedOrder ==
  ASSUME NEW c \in Seq(Msg), NEW P, NEW s, NEW at, Picks(at, c, P, s),
         NEW k \in 1..Len(s), NEW l \in 1..Len(s)
  PROVE  /\ at[k] \in 1..Len(c) /\ at[l] \in 1..Len(c)
         /\ (at[k] < at[l] <=> k < l) /\ (at[k] = at[l] => k = l)
  <1>1. at \in [1..Len(s) -> 1..Len(c)] /\ (k < l => at[k] < at[l]) /\ (l < k => at[l] < at[k])
    BY DEF Picks
  <1>2. at[k] \in Nat /\ at[l] \in Nat /\ k \in Nat /\ l \in Nat
    BY <1>1
  <1> QED BY <1>1, <1>2

LEMMA LastTalkIs ==
  ASSUME NEW c \in Seq(Msg), Opened(c)
  PROVE  /\ LastTalk(c) \in 1..Len(c) /\ c[LastTalk(c)].role # "tool"
         /\ \A i \in 1..Len(c) : i > LastTalk(c) => c[i].role = "tool"
  <1> DEFINE S == {i \in DOMAIN c : c[i].role # "tool"}
  <1>1. S \subseteq 1..Len(c) /\ 1 \in S /\ Len(c) \in Nat
    BY DEF Opened
  <1>2. LastTalk(c) \in S /\ \A y \in S : y <= LastTalk(c)
    <2> HIDE DEF S
    <2>1. Latest(S) \in S /\ \A y \in S : y <= Latest(S)
      BY <1>1, LatestIs
    <2> QED BY <2>1 DEF S, LastTalk
  <1>3. ASSUME NEW i \in 1..Len(c), i > LastTalk(c)
        PROVE  c[i].role = "tool"
    <2>1. LastTalk(c) \in Nat /\ ~(i <= LastTalk(c))
      BY <1>1, <1>2, <1>3
    <2> QED BY <1>2, <2>1
  <1> QED BY <1>1, <1>2, <1>3

LEMMA LastTalkIsAt ==
  ASSUME NEW c \in Seq(Msg), Opened(c), NEW p \in 1..Len(c), c[p].role # "tool",
         \A i \in 1..Len(c) : i > p => c[i].role = "tool"
  PROVE  LastTalk(c) = p
  <1>1. LastTalk(c) \in 1..Len(c) /\ ~(p > LastTalk(c)) /\ ~(LastTalk(c) > p)
    BY LastTalkIs
  <1> QED BY <1>1

LEMMA SanitizedHead ==
  ASSUME NEW c, NEW n \in Nat, NEW P, IsList(c, n), NEW at, NEW s, Picks(at, c, P, s)
  PROVE  /\ Len(s) >= 1 /\ at[1] = 1 /\ s \in Seq(Msg)
         /\ Len(c) >= 2 => Len(s) >= 2
         /\ Len(s) >= 2 => Len(c) >= 2 /\ at[2] = 2
         /\ Opened(s)
  <1>1. c \in Seq(Msg) /\ s \in Seq(Msg) /\ Len(c) \in Nat \ {0} /\ Len(s) \in Nat
    BY DEF IsList, Opened, Picks
  <1>2. c[1].calls = {} /\ c[1].role = "system" /\ 1 \in DOMAIN c
    BY <1>1 DEF IsList, Opened, Proper
  <1>3. PICK k \in 1..Len(s) : at[k] = 1
    <2>1. Survives(c, 1, P)
      BY <1>1, <1>2, PlainSurvives
    <2> QED BY <1>1, <2>1 DEF Picks
  <1>4. Len(s) >= 1 /\ at[1] = 1
    <2>1. 1 \in 1..Len(s)
      BY <1>1, <1>3
    <2>2. at[1] \in 1..Len(c) /\ ~(at[k] < at[1])
      <3>1. ~(k < 1)
        BY <1>1, <1>3
      <3> QED BY <1>1, <1>3, <2>1, <3>1, PickedOrder
    <2>3. at[1] = at[k]
      BY <1>3, <2>2
    <2> QED BY <1>1, <1>3, <2>1, <2>3
  <1>5. ASSUME Len(c) >= 2
        PROVE  Len(s) >= 2 /\ at[2] = 2
    <2>1. c[2].calls = {} /\ c[2].role # "tool" /\ 2 \in DOMAIN c
      BY <1>1, <1>5 DEF IsList, Opened
    <2>2. PICK l \in 1..Len(s) : at[l] = 2
      <3>1. Survives(c, 2, P)
        BY <1>1, <2>1, PlainSurvives
      <3> QED BY <1>1, <1>5, <3>1 DEF Picks
    <2>3. l # 1 /\ 2 \in 1..Len(s)
      BY <1>1, <1>4, <2>2
    <2>4. at[2] \in 1..Len(c) /\ at[1] < at[2] /\ ~(at[l] < at[2])
      <3>1. 1 \in 1..Len(s) /\ 1 < 2 /\ ~(l < 2)
        BY <1>1, <2>2, <2>3
      <3>2. ~(at[l] < at[2])
        BY <2>2, <2>3, <3>1, <1>1, PickedOrder
      <3>3. at[1] < at[2]
        BY <2>3, <3>1, <1>1, PickedOrder
      <3>4. at[2] \in 1..Len(c)
        BY <2>3, <1>1, PickedOrder
      <3> QED BY <3>2, <3>3, <3>4
    <2> QED BY <1>1, <1>4, <2>2, <2>3, <2>4
  <1>6. ASSUME Len(s) >= 2
        PROVE  Len(c) >= 2
    <2>1. 1 \in 1..Len(s) /\ 2 \in 1..Len(s) /\ 1 < 2
      BY <1>1, <1>6
    <2>2. at[1] < at[2] /\ at[1] \in 1..Len(c) /\ at[2] \in 1..Len(c)
      BY <1>1, <2>1, PickedOrder
    <2> QED BY <1>1, <2>2
  <1>7. Opened(s)
    <2>1. s[1].role = "system" /\ s # <<>>
      BY <1>1, <1>2, <1>4, PickedMessage
    <2>2. ASSUME Len(s) >= 2
          PROVE  s[2].role \in {"user", "assistant"} /\ s[2].calls = {}
      <3>1. 2 \in 1..Len(s) /\ at[2] = 2 /\ Len(c) >= 2
        BY <1>1, <1>5, <1>6, <2>2
      <3>2. c[2].role \in {"user", "assistant"} /\ c[2].calls = {}
        BY <3>1 DEF IsList, Opened
      <3>3. s[2].role = c[at[2]].role /\ s[2].calls \subseteq c[at[2]].calls
        BY <1>1, <3>1, PickedMessage
      <3> QED BY <3>1, <3>2, <3>3
    <2> QED BY <2>1, <2>2 DEF Opened
  <1> QED BY <1>1, <1>4, <1>5, <1>6, <1>7

\* The round a result belongs to, and that sanitising keeps both.
LEMMA RoundOf ==
  ASSUME NEW c, NEW n \in Nat, IsList(c, n), NEW i \in 1..Len(c), c[i].role = "tool"
  PROVE  \E j \in 1..(i - 1) :
            /\ c[i].answers \in c[j].calls /\ c[i].answers \in Observed(c, j)
            /\ c[j].role = "assistant"
            /\ \A k \in (j + 1)..i : c[k].role = "tool"
            /\ \A P : Survives(c, j, P) /\ Survives(c, i, P)
  <1>1. c \in Seq(Msg) /\ i \in DOMAIN c
    BY DEF IsList
  <1>2. PICK j \in 1..(i - 1) : /\ c[i].answers \in c[j].calls
                                /\ \A k \in (j + 1)..i : c[k].role = "tool"
    BY <1>1 DEF IsList, Whole
  <1>3. j \in DOMAIN c /\ i \in (j + 1)..Len(c)
    BY <1>1, <1>2
  <1>4. c[j].role = "assistant"
    BY <1>2, <1>3 DEF IsList, Proper
  <1>5. c[i].answers \in Observed(c, j)
    BY <1>2, <1>3 DEF Observed
  <1>6. ASSUME NEW P
        PROVE  c[i].answers \in KeptCalls(c, j, P)
    BY <1>2, <1>5 DEF KeptCalls
  <1>7. c[i].calls = {}
    BY <1>1 DEF IsList, Proper
  <1>8. ASSUME NEW P
        PROVE  Survives(c, j, P) /\ Survives(c, i, P)
    BY <1>2, <1>4, <1>6, <1>7 DEF Survives
  <1> QED BY <1>2, <1>4, <1>5, <1>8

LEMMA SanitizedIsList ==
  ASSUME NEW c, NEW n \in Nat, NEW P, IsList(c, n)
  PROVE  IsList(Sanitized(c, P), n)
  <1>1. c \in Seq(Msg) /\ \A i \in DOMAIN c : Proper(c[i], n)
    BY DEF IsList
  <1>2. PICK s : s = Sanitized(c, P)
    OBVIOUS
  <1>3. PICK at : Picks(at, c, P, s)
    BY <1>1, <1>2, SanitizedPicks
  <1>4. s \in Seq(Msg) /\ Opened(s)
    BY <1>3, SanitizedHead
  <1>5. \A k \in DOMAIN s : Proper(s[k], n)
    <2> TAKE k \in DOMAIN s
    <2>1. k \in 1..Len(s)
      BY <1>4
    <2>2. PICK m : m = c[at[k]] /\ Proper(m, n)
      BY <1>1, <1>3, <2>1, PickedMessage
    <2>3. /\ s[k].role = m.role /\ s[k].covers = m.covers /\ s[k].body = m.body
          /\ s[k].calls \subseteq m.calls /\ (s[k].calls = {} => m.calls = {})
      BY <1>1, <1>3, <2>1, <2>2, PickedMessage
    <2> QED BY <2>2, <2>3 DEF Proper
  <1>6. Whole(s)
    <2> SUFFICES ASSUME NEW k \in DOMAIN s, s[k].role = "tool"
                 PROVE  \E l \in 1..(k - 1) : /\ s[k].answers \in s[l].calls
                                              /\ \A h \in (l + 1)..k : s[h].role = "tool"
      BY DEF Whole
    <2>1. k \in 1..Len(s) /\ at[k] \in 1..Len(c) /\ c[at[k]].role = "tool"
          /\ s[k].answers = c[at[k]].answers
      BY <1>1, <1>3, <1>4, PickedMessage
    <2>2. PICK j \in 1..(at[k] - 1) :
            /\ c[at[k]].answers \in c[j].calls /\ c[at[k]].answers \in Observed(c, j)
            /\ \A h \in (j + 1)..at[k] : c[h].role = "tool"
            /\ Survives(c, j, P)
      BY <2>1, RoundOf
    <2>3. j \in 1..Len(c) /\ j < at[k]
      BY <2>1, <2>2
    <2>4. PICK l \in 1..Len(s) : at[l] = j
      BY <1>3, <2>2, <2>3 DEF Picks
    <2>5. l < k
      BY <1>1, <1>3, <2>1, <2>3, <2>4, PickedOrder
    <2>6. s[k].answers \in s[l].calls
      BY <1>1, <1>3, <2>1, <2>2, <2>4, PickedMessage DEF KeptCalls
    <2>7. ASSUME NEW h \in (l + 1)..k
          PROVE  s[h].role = "tool"
      <3>1. h \in 1..Len(s) /\ l < h /\ ~(k < h)
        BY <2>1, <2>4, <2>7
      <3>2. at[l] < at[h] /\ ~(at[k] < at[h]) /\ at[h] \in 1..Len(c)
        BY <1>1, <1>3, <2>1, <2>4, <3>1, PickedOrder
      <3>3. at[h] \in (j + 1)..at[k]
        BY <2>1, <2>3, <2>4, <3>2
      <3> QED BY <1>1, <1>3, <2>2, <3>1, <3>3, PickedMessage
    <2>8. l \in 1..(k - 1)
      BY <2>1, <2>4, <2>5
    <2> QED BY <2>6, <2>7, <2>8
  <1> QED BY <1>2, <1>4, <1>5, <1>6 DEF IsList

\* After the last message that is not a result there are only its results.
LEMMA ObservedLast ==
  ASSUME NEW c \in Seq(Msg), Opened(c)
  PROVE  Observed(c, LastTalk(c)) = {c[j].answers : j \in (LastTalk(c) + 1)..Len(c)}
  <1>1. PICK p : p = LastTalk(c)
    OBVIOUS
  <1>2. p \in 1..Len(c) /\ \A i \in 1..Len(c) : i > p => c[i].role = "tool"
    BY <1>1, LastTalkIs
  <1>3. ASSUME NEW j \in (p + 1)..Len(c)
        PROVE  c[j].role = "tool" /\ \A h \in (p + 1)..j : c[h].role = "tool"
    BY <1>2
  <1>4. Observed(c, p) = {c[j].answers : j \in (p + 1)..Len(c)}
    BY <1>3 DEF Observed
  <1> QED BY <1>1, <1>4

\* Sanitising keeps the round under way when its calls are protected.
LEMMA SanitizedLast ==
  ASSUME NEW c, NEW n \in Nat, IsList(c, n), NEW p, p = LastTalk(c), c[p].calls # {}
  PROVE  LET s == Sanitized(c, c[p].calls)
             q == LastTalk(s)
         IN  /\ s[q].calls = c[p].calls /\ s[q].body = c[p].body
             /\ Observed(s, q) = Observed(c, p)
             /\ \A i \in DOMAIN s : s[i].calls # {} /\ s[i].body = c[p].body =>
                  i = q \/ \E k \in DOMAIN c : k # p /\ c[k].calls # {} /\ c[k].body = c[p].body
  <1> DEFINE P == c[p].calls
  <1>1. c \in Seq(Msg) /\ Opened(c)
    BY DEF IsList
  <1>2. PICK s : s = Sanitized(c, P)
    OBVIOUS
  <1>3. PICK at : Picks(at, c, P, s)
    BY <1>1, <1>2, SanitizedPicks
  <1>4. s \in Seq(Msg) /\ Opened(s)
    BY <1>3, SanitizedHead
  <1>5. p \in 1..Len(c) /\ c[p].role # "tool" /\ \A i \in 1..Len(c) : i > p => c[i].role = "tool"
    BY <1>1, LastTalkIs
  <1>6. KeptCalls(c, p, P) = P
    BY DEF KeptCalls
  <1>7. Survives(c, p, P)
    BY <1>5, <1>6 DEF Survives
  <1>8. PICK q \in 1..Len(s) : at[q] = p
    BY <1>3, <1>5, <1>7 DEF Picks
  <1>9. s[q].role # "tool" /\ s[q].calls = P /\ s[q].body = c[p].body
    BY <1>1, <1>3, <1>5, <1>6, <1>8, PickedMessage
  <1> HIDE DEF P
  <1>10. ASSUME NEW k \in 1..Len(s)
         PROVE  at[k] \in 1..Len(c) /\ (k > q <=> at[k] > p) /\ (at[k] = p => k = q)
    <2>1. at[k] \in 1..Len(c) /\ (at[q] < at[k] <=> q < k) /\ (at[k] = at[q] => k = q)
      BY <1>1, <1>3, <1>8, PickedOrder
    <2> QED BY <1>5, <1>8, <2>1
  <1>11. LastTalk(s) = q
    <2>1. ASSUME NEW i \in 1..Len(s), i > q
          PROVE  s[i].role = "tool"
      <3>1. s[i].role = c[at[i]].role
        BY <1>1, <1>3, PickedMessage
      <3> QED BY <1>5, <1>10, <2>1, <3>1
    <2> QED BY <1>4, <1>9, <2>1, LastTalkIsAt
  <1>12. Observed(s, q) = Observed(c, p)
    <2>1. Observed(s, q) = {s[j].answers : j \in (q + 1)..Len(s)}
      BY <1>4, <1>11, ObservedLast
    <2>2. Observed(c, p) = {c[j].answers : j \in (p + 1)..Len(c)}
      BY <1>1, ObservedLast
    <2>3. ASSUME NEW j \in (q + 1)..Len(s)
          PROVE  \E i \in (p + 1)..Len(c) : c[i].answers = s[j].answers
      <3>1. j \in 1..Len(s) /\ at[j] \in (p + 1)..Len(c)
        <4>1. j \in 1..Len(s) /\ j > q
          BY <1>8, <2>3
        <4>2. PICK x : x = at[j]
          OBVIOUS
        <4>3. x \in 1..Len(c) /\ x > p
          BY <1>10, <4>1, <4>2
        <4>4. x \in (p + 1)..Len(c)
          BY <1>5, <4>3
        <4> QED BY <4>1, <4>2, <4>4
      <3>2. s[j].answers = c[at[j]].answers
        BY <1>1, <1>3, <3>1, PickedMessage
      <3> QED BY <3>1, <3>2
    <2>4. ASSUME NEW i \in (p + 1)..Len(c)
          PROVE  \E j \in (q + 1)..Len(s) : s[j].answers = c[i].answers
      <3>1. i \in 1..Len(c) /\ c[i].role = "tool"
        BY <1>5, <2>4
      <3>2. Survives(c, i, P)
        BY <3>1, RoundOf
      <3>3. PICK j \in 1..Len(s) : at[j] = i
        BY <1>3, <3>1, <3>2 DEF Picks
      <3>4. j \in (q + 1)..Len(s)
        <4>1. i > p
          BY <1>5, <2>4
        <4>2. j > q
          BY <1>10, <3>3, <4>1
        <4> QED BY <1>8, <4>2
      <3>5. s[j].answers = c[at[j]].answers
        BY <1>1, <1>3, <3>3, PickedMessage
      <3> QED BY <3>3, <3>4, <3>5
    <2>5. ASSUME NEW a
          PROVE  /\ a \in Observed(s, q) <=> \E j \in (q + 1)..Len(s) : a = s[j].answers
                 /\ a \in Observed(c, p) <=> \E i \in (p + 1)..Len(c) : a = c[i].answers
      BY <2>1, <2>2
    <2>6. ASSUME NEW a
          PROVE  a \in Observed(s, q) <=> a \in Observed(c, p)
      BY <2>3, <2>4, <2>5
    <2> QED BY <2>6
  <1>13. ASSUME NEW i \in DOMAIN s, s[i].calls # {}, s[i].body = c[p].body, i # q
         PROVE  \E k \in DOMAIN c : k # p /\ c[k].calls # {} /\ c[k].body = c[p].body
    <2>1. i \in 1..Len(s)
      BY <1>4
    <2>2. /\ at[i] \in DOMAIN c /\ s[i].calls \subseteq c[at[i]].calls
          /\ s[i].body = c[at[i]].body
      BY <1>1, <1>3, <2>1, PickedMessage
    <2>3. at[i] # p /\ c[at[i]].calls # {} /\ c[at[i]].body = c[p].body
      BY <1>10, <1>13, <2>1, <2>2
    <2> QED BY <2>2, <2>3
  <1> QED BY <1>2, <1>9, <1>11, <1>12, <1>13 DEF P

\* Messages rebuilt as new objects, or elided, are alike.
Alike(m, r) == /\ m.body = r.body /\ m.role = r.role /\ m.calls = r.calls
               /\ m.answers = r.answers /\ m.covers = r.covers

LEMMA AlikeList ==
  ASSUME NEW c, NEW n \in Nat, IsList(c, n), NEW d \in Seq(Msg), DOMAIN d = DOMAIN c,
         \A i \in DOMAIN c : Alike(c[i], d[i])
  PROVE  /\ IsList(d, n) /\ Len(d) = Len(c) /\ LastTalk(d) = LastTalk(c)
         /\ Observed(d, LastTalk(d)) = Observed(c, LastTalk(c))
  <1>1. c \in Seq(Msg) /\ Opened(c) /\ Whole(c) /\ Len(c) \in Nat /\ Len(d) \in Nat
    BY DEF IsList
  <1>2. DOMAIN c = 1..Len(c) /\ Len(d) = Len(c)
    BY <1>1
  <1>3. \A i \in 1..Len(c) : /\ d[i].body = c[i].body /\ d[i].role = c[i].role
                             /\ d[i].calls = c[i].calls /\ d[i].answers = c[i].answers
                             /\ d[i].covers = c[i].covers
    BY <1>2 DEF Alike
  <1>4. \A i \in DOMAIN d : Proper(d[i], n)
    <2> TAKE i \in DOMAIN d
    <2>1. Proper(c[i], n) /\ i \in 1..Len(c)
      BY <1>2 DEF IsList
    <2> QED BY <1>3, <2>1 DEF Proper
  <1>5. Opened(d)
    <2>1. d[1].role = "system" /\ Len(d) >= 1
      BY <1>1, <1>2, <1>3 DEF Opened
    <2>2. d # <<>>
      BY <2>1
    <2>3. Len(d) >= 2 => d[2].role \in {"user", "assistant"} /\ d[2].calls = {}
      BY <1>1, <1>2, <1>3 DEF Opened
    <2> QED BY <2>1, <2>2, <2>3 DEF Opened
  <1>6. Whole(d)
    <2> SUFFICES ASSUME NEW i \in 1..Len(c), d[i].role = "tool"
                 PROVE  \E j \in 1..(i - 1) : /\ d[i].answers \in d[j].calls
                                              /\ \A k \in (j + 1)..i : d[k].role = "tool"
      BY <1>2 DEF Whole
    <2>1. c[i].role = "tool" /\ i \in DOMAIN c
      BY <1>2, <1>3
    <2>2. PICK j \in 1..(i - 1) : /\ c[i].answers \in c[j].calls
                                  /\ \A k \in (j + 1)..i : c[k].role = "tool"
      BY <1>1, <2>1 DEF Whole
    <2>3. j \in 1..Len(c) /\ \A k \in (j + 1)..i : k \in 1..Len(c)
      <3>1. j \in Nat /\ i \in Nat /\ j >= 1 /\ j <= i - 1 /\ i <= Len(c) /\ Len(c) \in Nat
        BY <1>1, <2>2
      <3> QED BY <3>1
    <2>4. \A k \in (j + 1)..i : d[k].role = "tool"
      BY <1>3, <2>2, <2>3
    <2> QED BY <1>3, <2>2, <2>3, <2>4
  <1>7. LastTalk(d) = LastTalk(c)
    <2>1. PICK p : p = LastTalk(c)
      OBVIOUS
    <2>2. p \in 1..Len(c) /\ c[p].role # "tool" /\ \A i \in 1..Len(c) : i > p => c[i].role = "tool"
      BY <1>1, <2>1, LastTalkIs
    <2>3. p \in 1..Len(d) /\ d[p].role # "tool" /\ \A i \in 1..Len(d) : i > p => d[i].role = "tool"
      BY <1>2, <1>3, <2>2
    <2> QED BY <1>5, <2>1, <2>3, LastTalkIsAt
  <1>8. Observed(d, LastTalk(d)) = Observed(c, LastTalk(c))
    <2>1. PICK p : p = LastTalk(c)
      OBVIOUS
    <2>2. p \in 1..Len(c)
      BY <1>1, <2>1, LastTalkIs
    <2>3. /\ Observed(c, p) = {c[j].answers : j \in (p + 1)..Len(c)}
          /\ Observed(d, p) = {d[j].answers : j \in (p + 1)..Len(c)}
      BY <1>1, <1>2, <1>5, <1>7, <2>1, ObservedLast
    <2>4. \A j \in (p + 1)..Len(c) : d[j].answers = c[j].answers
      BY <1>3, <2>2
    <2> QED BY <1>7, <2>1, <2>3, <2>4
  <1> QED BY <1>2, <1>4, <1>5, <1>6, <1>7, <1>8 DEF IsList

LEMMA AlikeWords ==
  ASSUME NEW c, NEW d, DOMAIN d = DOMAIN c,
         \A i \in DOMAIN c : Alike(c[i], d[i]) /\ (IsText(c[i]) => c[i].ver = d[i].ver)
  PROVE  StandsFor(d) = StandsFor(c)
  <1>1. \A i \in DOMAIN c : Words(d[i]) = Words(c[i])
    BY DEF Alike, Words, IsText
  <1>2. \A w : w \in StandsFor(d) <=> w \in StandsFor(c)
    BY <1>1, InWords
  <1> QED BY <1>2

LEMMA MoreBodies ==
  ASSUME NEW c, NEW n \in Nat, NEW k \in Nat, n <= k, IsList(c, n)
  PROVE  IsList(c, k)
  <1>1. ASSUME NEW m, Proper(m, n)
        PROVE  Proper(m, k)
    BY <1>1 DEF Proper
  <1> QED BY <1>1 DEF IsList

\* Something is said, or a round begins.
LEMMA AppendTalk ==
  ASSUME NEW c, NEW n \in Nat, IsList(c, n), NEW m \in Msg, Proper(m, n),
         m.role \in {"user", "assistant"}, Len(c) = 1 => m.calls = {}
  PROVE  /\ IsList(Append(c, m), n)
         /\ LastTalk(Append(c, m)) = Len(c) + 1
         /\ Observed(Append(c, m), Len(c) + 1) = {}
         /\ StandsFor(Append(c, m)) = StandsFor(c) \cup Words(m)
  <1>1. c \in Seq(Msg) /\ Opened(c) /\ Whole(c) /\ Len(c) \in Nat
    BY DEF IsList
  <1>2. PICK d : d = Append(c, m)
    OBVIOUS
  <1>3. /\ d \in Seq(Msg) /\ Len(d) = Len(c) + 1 /\ DOMAIN d = 1..(Len(c) + 1)
        /\ DOMAIN c = 1..Len(c)
        /\ \A i \in 1..Len(c) : d[i] = c[i] /\ d[Len(c) + 1] = m
    BY <1>1, <1>2
  <1>4. d[Len(c) + 1] = m
    BY <1>1, <1>2
  <1>5. \A i \in DOMAIN d : Proper(d[i], n)
    BY <1>1, <1>3, <1>4 DEF IsList
  <1>6. Opened(d)
    <2>1. Len(c) >= 1 /\ c[1].role = "system"
      BY <1>1 DEF Opened
    <2>2. d[1].role = "system" /\ d # <<>>
      BY <1>1, <1>3, <2>1
    <2>3. d[2].role \in {"user", "assistant"} /\ d[2].calls = {}
      <3>1. CASE Len(c) = 1
        BY <1>4, <3>1
      <3>2. CASE Len(c) # 1
        <4>1. Len(c) >= 2 /\ 2 \in 1..Len(c)
          BY <1>1, <2>1, <3>2
        <4> QED BY <1>1, <1>3, <4>1 DEF Opened
      <3> QED BY <3>1, <3>2
    <2> QED BY <2>2, <2>3 DEF Opened
  <1>7. Whole(d)
    <2> SUFFICES ASSUME NEW i \in DOMAIN d, d[i].role = "tool"
                 PROVE  \E j \in 1..(i - 1) : /\ d[i].answers \in d[j].calls
                                              /\ \A k \in (j + 1)..i : d[k].role = "tool"
      BY DEF Whole
    <2>1. i \in 1..Len(c)
      BY <1>1, <1>3, <1>4
    <2>2. PICK j \in 1..(i - 1) : /\ c[i].answers \in c[j].calls
                                  /\ \A k \in (j + 1)..i : c[k].role = "tool"
      BY <1>1, <1>3, <2>1 DEF Whole
    <2>3. j \in 1..Len(c) /\ \A k \in (j + 1)..i : k \in 1..Len(c)
      BY <1>1, <2>1, <2>2
    <2> QED BY <1>3, <2>1, <2>2, <2>3
  <1>8. LastTalk(d) = Len(c) + 1
    <2>1. Len(c) + 1 \in 1..Len(d) /\ d[Len(c) + 1].role # "tool"
      BY <1>1, <1>3, <1>4
    <2>2. \A i \in 1..Len(d) : ~(i > Len(c) + 1)
      BY <1>1, <1>3
    <2> QED BY <1>3, <1>6, <2>1, <2>2, LastTalkIsAt
  <1>9. Observed(d, Len(c) + 1) = {}
    <2>1. Observed(d, Len(c) + 1) = {d[j].answers : j \in ((Len(c) + 1) + 1)..Len(d)}
      BY <1>3, <1>6, <1>8, ObservedLast
    <2>2. ((Len(c) + 1) + 1)..Len(d) = {}
      BY <1>1, <1>3
    <2> QED BY <2>1, <2>2
  <1>10. ASSUME NEW w
         PROVE  w \in StandsFor(d) <=> w \in StandsFor(c) \cup Words(m)
    <2>1. w \in StandsFor(d) <=> \E i \in 1..(Len(c) + 1) : w \in Words(d[i])
      BY <1>3, InWords
    <2>2. w \in StandsFor(c) <=> \E i \in 1..Len(c) : w \in Words(c[i])
      BY <1>3, InWords
    <2>3. \A i \in 1..(Len(c) + 1) : i \in 1..Len(c) \/ i = Len(c) + 1
      BY <1>1
    <2>4. Len(c) + 1 \in 1..(Len(c) + 1) /\ \A i \in 1..Len(c) : i \in 1..(Len(c) + 1)
      BY <1>1
    <2> QED BY <1>3, <1>4, <2>1, <2>2, <2>3, <2>4
  <1>11. StandsFor(d) = StandsFor(c) \cup Words(m)
    BY <1>10
  <1> QED BY <1>2, <1>3, <1>5, <1>6, <1>7, <1>8, <1>9, <1>11 DEF IsList

\* A result of the round under way comes in.
LEMMA AppendResult ==
  ASSUME NEW c, NEW n \in Nat, IsList(c, n), NEW m \in Msg, m.role = "tool",
         m.calls = {}, m.covers = {}, NEW p, p = LastTalk(c), m.answers \in c[p].calls
  PROVE  /\ IsList(Append(c, m), n) /\ Len(Append(c, m)) = Len(c) + 1
         /\ LastTalk(Append(c, m)) = p /\ Append(c, m)[p] = c[p]
         /\ Observed(Append(c, m), p) = Observed(c, p) \cup {m.answers}
         /\ StandsFor(Append(c, m)) = StandsFor(c)
  <1>1. c \in Seq(Msg) /\ Opened(c) /\ Whole(c) /\ Len(c) \in Nat
    BY DEF IsList
  <1>2. PICK d : d = Append(c, m)
    OBVIOUS
  <1>3. /\ d \in Seq(Msg) /\ Len(d) = Len(c) + 1 /\ DOMAIN d = 1..(Len(c) + 1)
        /\ DOMAIN c = 1..Len(c)
        /\ \A i \in 1..Len(c) : d[i] = c[i]
    BY <1>1, <1>2
  <1>4. d[Len(c) + 1] = m
    BY <1>1, <1>2
  <1>5. p \in 1..Len(c) /\ c[p].role # "tool" /\ \A i \in 1..Len(c) : i > p => c[i].role = "tool"
    BY <1>1, LastTalkIs
  <1>6. Proper(m, n)
    BY DEF Proper
  <1>7. \A i \in DOMAIN d : Proper(d[i], n)
    BY <1>1, <1>3, <1>4, <1>6 DEF IsList
  <1>8. Opened(d)
    <2>1. Len(c) >= 1 /\ c[1].role = "system"
      BY <1>1 DEF Opened
    <2>2. Len(c) # 1
      <3>1. c[p].role = "assistant"
        BY <1>3, <1>5 DEF IsList, Proper
      <3> QED BY <1>5, <2>1, <3>1
    <2>3. Len(c) >= 2 /\ 2 \in 1..Len(c) /\ 1 \in 1..Len(c)
      <3>1. PICK l : l = Len(c) /\ l \in Nat /\ l >= 1 /\ l # 1
        BY <1>1, <2>1, <2>2
      <3> QED BY <3>1
    <2>4. d[1].role = "system" /\ d # <<>>
      BY <1>1, <1>3, <2>1, <2>3
    <2> QED BY <1>1, <1>3, <2>3, <2>4 DEF Opened
  <1>9. \A k \in (p + 1)..(Len(c) + 1) : d[k].role = "tool"
    <2> TAKE k \in (p + 1)..(Len(c) + 1)
    <2>1. k = Len(c) + 1 \/ (k \in 1..Len(c) /\ k > p)
      BY <1>1, <1>5
    <2> QED BY <1>3, <1>4, <1>5, <2>1
  <1>10. Whole(d)
    <2> SUFFICES ASSUME NEW i \in DOMAIN d, d[i].role = "tool"
                 PROVE  \E j \in 1..(i - 1) : /\ d[i].answers \in d[j].calls
                                              /\ \A k \in (j + 1)..i : d[k].role = "tool"
      BY DEF Whole
    <2>1. CASE i \in 1..Len(c)
      <3>1. PICK j \in 1..(i - 1) : /\ c[i].answers \in c[j].calls
                                    /\ \A k \in (j + 1)..i : c[k].role = "tool"
        BY <1>1, <1>3, <2>1 DEF Whole
      <3>2. j \in 1..Len(c) /\ \A k \in (j + 1)..i : k \in 1..Len(c)
        BY <1>1, <2>1, <3>1
      <3> QED BY <1>3, <2>1, <3>1, <3>2
    <2>2. CASE i = Len(c) + 1
      <3>1. p \in 1..(i - 1) /\ d[i].answers \in d[p].calls
        BY <1>1, <1>3, <1>4, <1>5, <2>2
      <3> QED BY <1>9, <2>2, <3>1
    <2>3. i \in 1..Len(c) \/ i = Len(c) + 1
      BY <1>1, <1>3
    <2> QED BY <2>1, <2>2, <2>3
  <1>11. LastTalk(d) = p
    <2>1. p \in 1..Len(d) /\ d[p].role # "tool"
      BY <1>1, <1>3, <1>5
    <2>2. ASSUME NEW i \in 1..Len(d), i > p
          PROVE  d[i].role = "tool"
      <3>1. i \in (p + 1)..(Len(c) + 1)
        BY <1>1, <1>3, <1>5, <2>2
      <3> QED BY <1>9, <3>1
    <2> QED BY <1>3, <1>8, <2>1, <2>2, LastTalkIsAt
  <1>12. Observed(d, p) = Observed(c, p) \cup {m.answers}
    <2>1. Observed(d, p) = {d[j].answers : j \in (p + 1)..Len(d)}
      BY <1>3, <1>8, <1>11, ObservedLast
    <2>2. Observed(c, p) = {c[j].answers : j \in (p + 1)..Len(c)}
      BY <1>1, ObservedLast
    <2>3. (p + 1)..Len(d) = ((p + 1)..Len(c)) \cup {Len(c) + 1}
      BY <1>1, <1>3, <1>5
    <2>4. \A j \in (p + 1)..Len(c) : d[j] = c[j]
      BY <1>1, <1>3, <1>5
    <2> QED BY <1>4, <2>1, <2>2, <2>3, <2>4
  <1>13. ASSUME NEW w
         PROVE  w \in StandsFor(d) <=> w \in StandsFor(c)
    <2>1. w \in StandsFor(d) <=> \E i \in 1..(Len(c) + 1) : w \in Words(d[i])
      BY <1>3, InWords
    <2>2. w \in StandsFor(c) <=> \E i \in 1..Len(c) : w \in Words(c[i])
      BY <1>3, InWords
    <2>3. \A i \in 1..(Len(c) + 1) : i \in 1..Len(c) \/ i = Len(c) + 1
      BY <1>1
    <2>4. \A i \in 1..Len(c) : i \in 1..(Len(c) + 1)
      BY <1>1
    <2>5. Words(m) = {}
      BY DEF Words, IsText
    <2> QED BY <1>3, <1>4, <2>1, <2>2, <2>3, <2>4, <2>5
  <1>14. StandsFor(d) = StandsFor(c)
    BY <1>13
  <1>15. d[p] = c[p]
    BY <1>3, <1>5
  <1> QED BY <1>2, <1>3, <1>7, <1>8, <1>10, <1>11, <1>12, <1>14, <1>15 DEF IsList

LEMMA PrefixList ==
  ASSUME NEW c, NEW n \in Nat, IsList(c, n), NEW k \in 1..Len(c), NEW d \in Seq(Msg),
         DOMAIN d = 1..k, \A i \in 1..k : Alike(c[i], d[i])
  PROVE  IsList(d, n)
  <1>1. c \in Seq(Msg) /\ Opened(c) /\ Whole(c) /\ Len(c) \in Nat /\ k \in Nat /\ k <= Len(c)
        /\ DOMAIN c = 1..Len(c) /\ k >= 1
    BY DEF IsList
  <1>2. \A i \in 1..k : i \in 1..Len(c) /\ i \in Nat
    BY <1>1
  <1>3. \A i \in 1..k : /\ d[i].body = c[i].body /\ d[i].role = c[i].role
                        /\ d[i].calls = c[i].calls /\ d[i].answers = c[i].answers
                        /\ d[i].covers = c[i].covers
    BY DEF Alike
  <1>4. \A i \in DOMAIN d : Proper(d[i], n)
    <2> TAKE i \in DOMAIN d
    <2>1. Proper(c[i], n) /\ i \in 1..k
      BY <1>1, <1>2 DEF IsList
    <2> QED BY <1>3, <2>1 DEF Proper
  <1>5. Len(d) = k
    BY <1>1
  <1>6. Opened(d)
    <2>1. 1 \in 1..k /\ (k >= 2 => 2 \in 1..k /\ Len(c) >= 2)
      BY <1>1
    <2>2. d[1].role = "system" /\ d # <<>>
      BY <1>1, <1>3, <2>1 DEF Opened
    <2>3. k >= 2 => d[2].role \in {"user", "assistant"} /\ d[2].calls = {}
      BY <1>1, <1>3, <2>1 DEF Opened
    <2> QED BY <1>5, <2>2, <2>3 DEF Opened
  <1>7. Whole(d)
    <2> SUFFICES ASSUME NEW i \in 1..k, d[i].role = "tool"
                 PROVE  \E j \in 1..(i - 1) : /\ d[i].answers \in d[j].calls
                                              /\ \A h \in (j + 1)..i : d[h].role = "tool"
      BY DEF Whole
    <2>1. c[i].role = "tool" /\ i \in DOMAIN c
      BY <1>1, <1>2, <1>3
    <2>2. PICK j \in 1..(i - 1) : /\ c[i].answers \in c[j].calls
                                  /\ \A h \in (j + 1)..i : c[h].role = "tool"
      BY <1>1, <2>1 DEF Whole
    <2>3. j \in 1..k /\ \A h \in (j + 1)..i : h \in 1..k
      BY <1>1, <2>2
    <2> QED BY <1>3, <2>2, <2>3
  <1> QED BY <1>4, <1>6, <1>7 DEF IsList

-----------------------------------------------------------------------------
(* The emergency drop.                                                     *)

\* d is c with a note in place of the messages a to e, the last round.
Drops(c, note, d, a, e) ==
  /\ a >= 3 /\ a <= e /\ e <= Len(c)
  /\ d \in Seq(Msg) /\ Len(d) = Len(c) - (e - a)
  /\ \A k \in 1..(a - 1) : d[k] = c[k]
  /\ d[a] = note
  /\ \A k \in (a + 1)..(Len(c) - (e - a)) : d[k] = c[k + (e - a)]
  /\ \A i \in a..e : Words(c[i]) = {}
  /\ \A i \in (e + 1)..Len(c) : c[i].role # "tool"

LEMMA Slice ==
  ASSUME NEW c \in Seq(Msg), NEW a \in Nat, NEW b \in Nat, 1 <= a, a <= b + 1, b <= Len(c)
  PROVE  /\ SubSeq(c, a, b) \in Seq(Msg) /\ Len(SubSeq(c, a, b)) = (b - a) + 1
         /\ \A k \in 1..((b - a) + 1) : SubSeq(c, a, b)[k] = c[(a + k) - 1]
  <1>1. \A i \in a..b : i \in 1..Len(c)
    OBVIOUS
  <1>2. SubSeq(c, a, b) \in Seq(Msg)
    BY <1>1, SubSeqProperties
  <1>3. Len(SubSeq(c, a, b)) = IF a <= b THEN b - a + 1 ELSE 0
    BY <1>1, SubSeqProperties
  <1>4. Len(SubSeq(c, a, b)) = (b - a) + 1
    BY <1>3
  <1>5. \A k \in 1..(b - a + 1) : SubSeq(c, a, b)[k] = c[a + k - 1]
    BY <1>1, SubSeqProperties
  <1> QED BY <1>2, <1>4, <1>5

LEMMA DroppedShape ==
  ASSUME NEW c, NEW n \in Nat, IsList(c, n), NEW note \in Msg,
         \E i \in DOMAIN c : c[i].calls # {}
  PROVE  \E a, e \in Nat : Drops(c, note, Dropped(c, note), a, e)
  <1>1. /\ c \in Seq(Msg) /\ Opened(c) /\ Whole(c) /\ Len(c) \in Nat
        /\ DOMAIN c = 1..Len(c) /\ \A i \in 1..Len(c) : Proper(c[i], n)
    BY DEF IsList
  <1> DEFINE S == {i \in DOMAIN c : c[i].calls # {}}
  <1>2. PICK a : a = LastAsk(c)
    OBVIOUS
  <1>3. a \in S /\ \A i \in S : i <= a
    <2>1. S \subseteq 1..Len(c) /\ S # {}
      BY <1>1
    <2>2. LastAsk(c) = Latest(S)
      BY DEF LastAsk
    <2> HIDE DEF S
    <2> QED BY <1>1, <1>2, <2>1, <2>2, LatestIs
  <1>4. a \in 1..Len(c) /\ c[a].calls # {} /\ c[a].role = "assistant" /\ c[a].covers = {}
    BY <1>1, <1>3 DEF Proper
  <1>5. a >= 3
    <2>1. a # 1
      BY <1>1, <1>4 DEF Opened
    <2>2. a # 2
      BY <1>1, <1>4 DEF Opened
    <2> QED BY <1>4, <2>1, <2>2
  <1> DEFINE T == {i \in a..Len(c) : \A k \in (a + 1)..i : c[k].role = "tool"}
  <1>6. PICK e : e = RoundEnd(c)
    OBVIOUS
  <1>7. e \in T /\ \A i \in T : i <= e
    <2>1. T \subseteq 1..Len(c) /\ a \in T
      BY <1>1, <1>4
    <2>2. RoundEnd(c) = Latest(T)
      BY <1>2 DEF RoundEnd
    <2> HIDE DEF T
    <2> QED BY <1>1, <1>6, <2>1, <2>2, LatestIs
  <1>8. e \in Nat /\ a <= e /\ e <= Len(c) /\ \A k \in (a + 1)..e : c[k].role = "tool"
    BY <1>4, <1>7
  <1>9. ASSUME NEW i \in (e + 1)..Len(c)
        PROVE  c[i].role # "tool"
    <2> SUFFICES ASSUME c[i].role = "tool"
                 PROVE  FALSE
      OBVIOUS
    <2>1. i \in 1..Len(c) /\ i > e
      BY <1>4, <1>8
    <2>2. PICK j \in 1..(i - 1) : /\ c[i].answers \in c[j].calls
                                  /\ \A k \in (j + 1)..i : c[k].role = "tool"
      BY <1>1, <2>1 DEF Whole
    <2>3. j \in S
      BY <1>1, <2>1, <2>2
    <2>4. j \in Nat /\ j <= a /\ i \in Nat /\ a \in Nat
      BY <1>3, <1>4, <2>1, <2>2, <2>3
    <2>5. \A k \in (a + 1)..i : c[k].role = "tool"
      BY <2>2, <2>4
    <2>6. i \in T
      BY <1>4, <1>8, <2>1, <2>5
    <2> HIDE DEF T
    <2> QED BY <1>7, <1>8, <2>1, <2>4, <2>6
  <1>10. ASSUME NEW i \in a..e
         PROVE  Words(c[i]) = {}
    <2>1. i = a \/ (i \in (a + 1)..e /\ i \in 1..Len(c))
      BY <1>4, <1>8
    <2>2. CASE i = a
      BY <1>4, <2>2 DEF Words, IsText
    <2>3. CASE i # a
      <3>1. c[i].role = "tool" /\ Proper(c[i], n)
        BY <1>1, <1>8, <2>1, <2>3
      <3> QED BY <3>1 DEF Words, IsText, Proper
    <2> QED BY <2>2, <2>3
  <1>11. PICK A : A = SubSeq(c, 1, a - 1)
    OBVIOUS
  <1>12. PICK B : B = SubSeq(c, e + 1, Len(c))
    OBVIOUS
  <1>13. A \in Seq(Msg) /\ Len(A) = a - 1 /\ \A k \in 1..(a - 1) : A[k] = c[k]
    <2>1. a - 1 \in Nat /\ 1 <= (a - 1) + 1 /\ a - 1 <= Len(c) /\ ((a - 1) - 1) + 1 = a - 1
          /\ \A k \in 1..(a - 1) : (1 + k) - 1 = k
      BY <1>1, <1>4
    <2>2. /\ A \in Seq(Msg) /\ Len(A) = ((a - 1) - 1) + 1
          /\ \A k \in 1..(((a - 1) - 1) + 1) : A[k] = c[(1 + k) - 1]
      BY <1>1, <1>11, <2>1, Slice
    <2> QED BY <2>1, <2>2
  <1>14. B \in Seq(Msg) /\ Len(B) = Len(c) - e /\ \A k \in 1..(Len(c) - e) : B[k] = c[k + e]
    <2>1. e + 1 \in Nat /\ 1 <= e + 1 /\ e + 1 <= Len(c) + 1 /\ (Len(c) - (e + 1)) + 1 = Len(c) - e
          /\ \A k \in 1..(Len(c) - e) : ((e + 1) + k) - 1 = k + e
      BY <1>1, <1>8
    <2>2. /\ B \in Seq(Msg) /\ Len(B) = (Len(c) - (e + 1)) + 1
          /\ \A k \in 1..((Len(c) - (e + 1)) + 1) : B[k] = c[((e + 1) + k) - 1]
      <3>1. c \in Seq(Msg) /\ Len(c) \in Nat /\ Len(c) <= Len(c)
        BY <1>1
      <3> QED BY <1>12, <2>1, <3>1, Slice
    <2> QED BY <2>1, <2>2
  <1>15. PICK F : F = A \o <<note>>
    OBVIOUS
  <1>16. F \in Seq(Msg) /\ Len(F) = a /\ F[a] = note /\ \A k \in 1..(a - 1) : F[k] = c[k]
    BY <1>4, <1>13, <1>15
  <1>17. PICK d : d = F \o B
    OBVIOUS
  <1>18. d \in Seq(Msg) /\ Len(d) = Len(c) - (e - a)
    <2>1. d \in Seq(Msg) /\ Len(d) = Len(F) + Len(B)
      BY <1>14, <1>16, <1>17, ConcatProperties
    <2> QED BY <1>1, <1>4, <1>8, <1>14, <1>16, <2>1
  <1>19. d[a] = note /\ \A k \in 1..(a - 1) : d[k] = c[k]
    BY <1>1, <1>4, <1>8, <1>14, <1>16, <1>17
  <1>20. ASSUME NEW k \in (a + 1)..(Len(c) - (e - a))
         PROVE  d[k] = c[k + (e - a)]
    <2>1. k \in Nat /\ k > a /\ k - a \in 1..(Len(c) - e) /\ k <= a + Len(B)
      BY <1>1, <1>4, <1>8, <1>14, <1>20
    <2>2. d[k] = B[k - a]
      BY <1>4, <1>14, <1>16, <1>17, <2>1
    <2>3. B[k - a] = c[(k - a) + e]
      BY <1>14, <2>1
    <2>4. (k - a) + e = k + (e - a)
      BY <1>4, <1>8, <2>1
    <2> QED BY <2>2, <2>3, <2>4
  <1>21. d = Dropped(c, note)
    BY <1>2, <1>6, <1>11, <1>12, <1>15, <1>17 DEF Dropped
  <1>22. a \in Nat
    BY <1>4
  <1>23. Drops(c, note, d, a, e)
    BY <1>5, <1>8, <1>9, <1>10, <1>18, <1>19, <1>20 DEF Drops
  <1> QED BY <1>8, <1>21, <1>22, <1>23

LEMMA DroppedList ==
  ASSUME NEW c, NEW n \in Nat, IsList(c, n), NEW note \in Msg,
         note.role = "user", note.calls = {}, \E i \in DOMAIN c : c[i].calls # {}
  PROVE  /\ IsList(Dropped(c, note), n) /\ Len(Dropped(c, note)) >= 2
         /\ StandsFor(Dropped(c, note)) = StandsFor(c) \cup Words(note)
  <1>1. /\ c \in Seq(Msg) /\ Opened(c) /\ Whole(c) /\ Len(c) \in Nat
        /\ DOMAIN c = 1..Len(c) /\ \A i \in 1..Len(c) : Proper(c[i], n)
    BY DEF IsList
  <1>2. PICK d : d = Dropped(c, note)
    OBVIOUS
  <1>25. PICK a, e \in Nat : Drops(c, note, d, a, e)
    BY <1>2, DroppedShape
  <1>3. /\ a >= 3 /\ a <= e /\ e <= Len(c)
        /\ d \in Seq(Msg) /\ Len(d) = Len(c) - (e - a)
        /\ \A k \in 1..(a - 1) : d[k] = c[k]
        /\ d[a] = note
        /\ \A k \in (a + 1)..(Len(c) - (e - a)) : d[k] = c[k + (e - a)]
        /\ \A i \in a..e : Words(c[i]) = {}
        /\ \A i \in (e + 1)..Len(c) : c[i].role # "tool"
    BY <1>25 DEF Drops
  <1>4. DOMAIN d = 1..(Len(c) - (e - a)) /\ Len(d) >= a
    BY <1>1, <1>3
  <1>5. \A k \in DOMAIN d : k \in 1..(a - 1) \/ k = a
           \/ (k \in (a + 1)..(Len(c) - (e - a)) /\ k + (e - a) \in (e + 1)..Len(c))
    BY <1>1, <1>3, <1>4
  <1>6. \A i \in 1..Len(c) : i \in 1..(a - 1) \/ i \in a..e
           \/ (i \in (e + 1)..Len(c) /\ i - (e - a) \in (a + 1)..(Len(c) - (e - a)))
    BY <1>1, <1>3
  <1>7. \A i \in (e + 1)..Len(c) : i \in 1..Len(c)
    BY <1>1, <1>3
  <1>8. \A i \in 1..(a - 1) : i \in 1..Len(c) /\ i \in DOMAIN d
    BY <1>1, <1>3, <1>4
  <1>9. Proper(note, n)
    BY DEF Proper
  <1>10. \A k \in DOMAIN d : Proper(d[k], n)
    BY <1>1, <1>3, <1>5, <1>7, <1>8, <1>9
  <1>11. Opened(d)
    <2>1. Len(c) >= 2 /\ 1 \in 1..(a - 1) /\ 2 \in 1..(a - 1)
      BY <1>1, <1>3
    <2>2. d[1] = c[1] /\ d[2] = c[2] /\ d # <<>>
      BY <1>3, <1>4, <2>1
    <2> QED BY <1>1, <2>1, <2>2 DEF Opened
  <1>12. Whole(d)
    <2> SUFFICES ASSUME NEW i \in DOMAIN d, d[i].role = "tool"
                 PROVE  \E j \in 1..(i - 1) : /\ d[i].answers \in d[j].calls
                                              /\ \A k \in (j + 1)..i : d[k].role = "tool"
      BY DEF Whole
    <2>1. i \in 1..(a - 1) /\ d[i] = c[i] /\ i \in 1..Len(c)
      BY <1>3, <1>5, <1>8
    <2>2. PICK j \in 1..(i - 1) : /\ c[i].answers \in c[j].calls
                                  /\ \A k \in (j + 1)..i : c[k].role = "tool"
      BY <1>1, <2>1 DEF Whole
    <2>3. j \in 1..(a - 1) /\ \A k \in (j + 1)..i : k \in 1..(a - 1)
      BY <1>3, <2>1, <2>2
    <2> QED BY <1>3, <2>1, <2>2, <2>3
  <1>13. ASSUME NEW w
         PROVE  w \in StandsFor(d) <=> w \in StandsFor(c) \cup Words(note)
    <2>1. w \in StandsFor(d) <=> \E k \in DOMAIN d : w \in Words(d[k])
      BY InWords
    <2>2. w \in StandsFor(c) <=> \E i \in 1..Len(c) : w \in Words(c[i])
      BY <1>1, InWords
    <2>3. ASSUME NEW k \in DOMAIN d, w \in Words(d[k])
          PROVE  w \in StandsFor(c) \cup Words(note)
      <3>1. CASE k \in 1..(a - 1)
        BY <1>3, <1>8, <2>2, <2>3, <3>1
      <3>2. CASE k = a
        BY <1>3, <2>3, <3>2
      <3>3. CASE k \in (a + 1)..(Len(c) - (e - a)) /\ k + (e - a) \in (e + 1)..Len(c)
        BY <1>3, <1>7, <2>2, <2>3, <3>3
      <3> QED BY <1>5, <3>1, <3>2, <3>3
    <2>4. ASSUME NEW i \in 1..Len(c), w \in Words(c[i])
          PROVE  w \in StandsFor(d)
      <3>1. CASE i \in 1..(a - 1)
        BY <1>3, <1>8, <2>1, <2>4, <3>1
      <3>2. CASE i \in a..e
        BY <1>3, <2>4, <3>2
      <3>3. CASE i \in (e + 1)..Len(c) /\ i - (e - a) \in (a + 1)..(Len(c) - (e - a))
        <4>1. PICK k : k = i - (e - a)
          OBVIOUS
        <4>2. k \in DOMAIN d /\ k + (e - a) = i
          BY <1>1, <1>3, <1>4, <3>3, <4>1
        <4>3. d[k] = c[i]
          BY <1>3, <3>3, <4>1, <4>2
        <4> QED BY <2>1, <2>4, <4>2, <4>3
      <3> QED BY <1>6, <3>1, <3>2, <3>3
    <2>5. ASSUME w \in Words(note)
          PROVE  w \in StandsFor(d)
      <3>1. a \in DOMAIN d
        BY <1>1, <1>3, <1>4
      <3> QED BY <1>3, <2>1, <2>5, <3>1
    <2> QED BY <2>1, <2>2, <2>3, <2>4, <2>5
  <1>14. StandsFor(d) = StandsFor(c) \cup Words(note)
    BY <1>13
  <1>15. Len(d) >= 2
    BY <1>1, <1>3, <1>4
  <1> QED BY <1>2, <1>3, <1>10, <1>11, <1>12, <1>14, <1>15 DEF IsList

-----------------------------------------------------------------------------
(* The splice.                                                             *)

\* d is c with a summary m, and r = 1 retained message, for the messages 2 to b.
Joins(c, b, m, d, r) ==
  /\ d \in Seq(Msg) /\ Len(d) = (Len(c) - b) + (2 + r)
  /\ d[1] = c[1] /\ d[2] = m
  /\ r = 1 => \E x \in 2..b : c[x].role = "user" /\ d[3] = c[x]
  /\ \A k \in (3 + r)..Len(d) : d[k] = c[k + ((b - 2) - r)]

LEMMA JoinShape ==
  ASSUME NEW c \in Seq(Msg), NEW b \in 2..Len(c), NEW m \in Msg, NEW R,
         R = <<>> \/ \E x \in 2..b : c[x].role = "user" /\ R = <<c[x]>>
  PROVE  \E r \in {0, 1} :
            Joins(c, b, m, <<c[1], m>> \o R \o SubSeq(c, b + 1, Len(c)), r)
  <1>1. Len(c) \in Nat /\ b \in Nat /\ b >= 2 /\ b <= Len(c)
    OBVIOUS
  <1>2. PICK B : B = SubSeq(c, b + 1, Len(c))
    OBVIOUS
  <1>3. B \in Seq(Msg) /\ Len(B) = Len(c) - b /\ \A k \in 1..(Len(c) - b) : B[k] = c[b + k]
    <2>1. b + 1 \in Nat /\ 1 <= b + 1 /\ b + 1 <= Len(c) + 1 /\ (Len(c) - (b + 1)) + 1 = Len(c) - b
          /\ Len(c) <= Len(c) /\ \A k \in 1..(Len(c) - b) : ((b + 1) + k) - 1 = b + k
      BY <1>1
    <2>2. /\ B \in Seq(Msg) /\ Len(B) = (Len(c) - (b + 1)) + 1
          /\ \A k \in 1..((Len(c) - (b + 1)) + 1) : B[k] = c[((b + 1) + k) - 1]
      BY <1>1, <1>2, <2>1, Slice
    <2> QED BY <2>1, <2>2
  <1>4. c[1] \in Msg /\ \A x \in 2..b : c[x] \in Msg
    BY <1>1
  <1>5. PICK A : A = <<c[1], m>> \o R
    OBVIOUS
  <1>6. PICK r \in {0, 1} :
           /\ A \in Seq(Msg) /\ Len(A) = 2 + r /\ A[1] = c[1] /\ A[2] = m
           /\ r = 1 => \E x \in 2..b : c[x].role = "user" /\ A[3] = c[x]
    <2>1. CASE R = <<>>
      <3>1. A = <<c[1], m>>
        BY <1>4, <1>5, <2>1
      <3> QED BY <1>4, <3>1
    <2>2. ASSUME NEW x \in 2..b, c[x].role = "user", R = <<c[x]>>
          PROVE  A \in Seq(Msg) /\ Len(A) = 2 + 1 /\ A[1] = c[1] /\ A[2] = m /\ A[3] = c[x]
      <3>1. PICK u : u = <<c[1], m>>
        OBVIOUS
      <3>2. PICK v : v = <<c[x]>>
        OBVIOUS
      <3>3. u \in Seq(Msg) /\ Len(u) = 2 /\ u[1] = c[1] /\ u[2] = m
        BY <1>4, <3>1
      <3>4. v \in Seq(Msg) /\ Len(v) = 1 /\ v[1] = c[x]
        BY <1>4, <3>2
      <3>5. /\ A \in Seq(Msg) /\ Len(A) = Len(u) + Len(v)
            /\ \A i \in 1..(Len(u) + Len(v)) : A[i] = IF i <= Len(u) THEN u[i] ELSE v[i - Len(u)]
        BY <1>5, <2>2, <3>1, <3>2, <3>3, <3>4, ConcatProperties
      <3>6. 1 \in 1..(Len(u) + Len(v)) /\ 2 \in 1..(Len(u) + Len(v)) /\ 3 \in 1..(Len(u) + Len(v))
            /\ 1 <= Len(u) /\ 2 <= Len(u) /\ ~(3 <= Len(u)) /\ 3 - Len(u) = 1
            /\ Len(u) + Len(v) = 2 + 1
        BY <3>3, <3>4
      <3> QED BY <3>3, <3>4, <3>5, <3>6
    <2>3. 1 \in {0, 1}
      OBVIOUS
    <2> QED BY <2>1, <2>2, <2>3
  <1>7. PICK d : d = A \o B
    OBVIOUS
  <1>8. /\ d \in Seq(Msg) /\ Len(d) = Len(A) + Len(B)
        /\ \A k \in 1..(Len(A) + Len(B)) : d[k] = IF k <= Len(A) THEN A[k] ELSE B[k - Len(A)]
    BY <1>3, <1>6, <1>7, ConcatProperties
  <1>9. Len(d) = (Len(c) - b) + (2 + r)
    BY <1>1, <1>3, <1>6, <1>8
  <1>10. \A k \in 1..(2 + r) : d[k] = A[k]
    <2> TAKE k \in 1..(2 + r)
    <2>1. Len(B) \in Nat
      BY <1>3
    <2>2. k \in 1..(Len(A) + Len(B)) /\ k <= Len(A)
      BY <1>6, <2>1
    <2> QED BY <1>8, <2>2
  <1>11. d[1] = c[1] /\ d[2] = m
    BY <1>6, <1>10
  <1>12. r = 1 => d[3] = A[3]
    BY <1>6, <1>10
  <1>13. ASSUME NEW k \in (3 + r)..Len(d)
         PROVE  d[k] = c[k + ((b - 2) - r)]
    <2>1. k \in 1..(Len(A) + Len(B)) /\ ~(k <= Len(A)) /\ k - Len(A) \in 1..(Len(c) - b)
      BY <1>1, <1>3, <1>6, <1>9, <1>13
    <2>2. d[k] = c[b + (k - Len(A))]
      BY <1>3, <1>8, <2>1
    <2>3. b + (k - Len(A)) = k + ((b - 2) - r)
      BY <1>1, <1>6, <2>1
    <2> QED BY <2>2, <2>3
  <1>14. Joins(c, b, m, d, r)
    BY <1>6, <1>8, <1>9, <1>11, <1>12, <1>13 DEF Joins
  <1> QED BY <1>2, <1>5, <1>7, <1>14

LEMMA ZoneWords ==
  ASSUME NEW c, NEW n \in Nat, IsList(c, n), NEW b \in 2..Len(c)
  PROVE  /\ \A w : w \in StandsFor(SubSeq(c, 2, b)) <=> \E i \in 2..b : w \in Words(c[i])
         /\ StandsFor(SubSeq(c, 2, b)) # {}
         /\ StandsFor(SubSeq(c, 2, b)) \subseteq StandsFor(c)
  <1>1. c \in Seq(Msg) /\ Opened(c) /\ Len(c) \in Nat /\ b \in Nat /\ b >= 2 /\ b <= Len(c)
    BY DEF IsList
  <1>2. PICK z : z = SubSeq(c, 2, b)
    OBVIOUS
  <1>3. DOMAIN z = 1..(b - 1) /\ \A k \in 1..(b - 1) : z[k] = c[k + 1]
    <2>1. 2 \in Nat /\ 1 <= 2 /\ 2 <= b + 1 /\ (b - 2) + 1 = b - 1
          /\ \A k \in 1..(b - 1) : (2 + k) - 1 = k + 1
      BY <1>1
    <2>2. /\ z \in Seq(Msg) /\ Len(z) = (b - 2) + 1
          /\ \A k \in 1..((b - 2) + 1) : z[k] = c[(2 + k) - 1]
      BY <1>1, <1>2, <2>1, Slice
    <2> QED BY <2>1, <2>2
  <1>4. ASSUME NEW w
        PROVE  w \in StandsFor(z) <=> \E i \in 2..b : w \in Words(c[i])
    <2>1. w \in StandsFor(z) <=> \E k \in 1..(b - 1) : w \in Words(z[k])
      BY <1>3, InWords
    <2>2. \A k \in 1..(b - 1) : k + 1 \in 2..b
      BY <1>1
    <2>3. \A i \in 2..b : i - 1 \in 1..(b - 1) /\ (i - 1) + 1 = i
      BY <1>1
    <2> QED BY <1>3, <2>1, <2>2, <2>3
  <1>5. Words(c[2]) # {}
    <2>1. c[2].role \in {"user", "assistant"} /\ c[2].calls = {}
      BY <1>1 DEF Opened
    <2>2. CASE c[2].covers = {}
      <3>1. IsText(c[2])
        BY <2>1, <2>2 DEF IsText
      <3> QED BY <3>1 DEF Words
    <2>3. CASE c[2].covers # {}
      BY <2>3 DEF Words
    <2> QED BY <2>2, <2>3
  <1>6. 2 \in 2..b /\ \A i \in 2..b : i \in DOMAIN c
    BY <1>1
  <1>7. StandsFor(z) # {}
    BY <1>4, <1>5, <1>6
  <1>8. \A w \in StandsFor(z) : w \in StandsFor(c)
    BY <1>4, <1>6, InWords
  <1> QED BY <1>2, <1>4, <1>7, <1>8

LEMMA JoinedList ==
  ASSUME NEW c, NEW n \in Nat, IsList(c, n), NEW b \in 2..Len(c), NEW m \in Msg,
         m.role = "assistant", m.calls = {}, m.covers = StandsFor(SubSeq(c, 2, b)),
         NEW d, NEW r \in {0, 1}, Joins(c, b, m, d, r), ~HeadIsTool(c, b)
  PROVE  /\ IsList(d, n) /\ StandsFor(d) = StandsFor(c) /\ Len(d) >= 2 /\ d[2] = m
         /\ \A i \in DOMAIN d : d[i].calls # {} =>
               /\ i \in (3 + r)..Len(d) /\ d[i] = c[i + ((b - 2) - r)]
               /\ i + ((b - 2) - r) \in (b + 1)..Len(c)
  <1> DEFINE o == (b - 2) - r
  <1>1. /\ c \in Seq(Msg) /\ Opened(c) /\ Whole(c) /\ Len(c) \in Nat
        /\ DOMAIN c = 1..Len(c) /\ (\A i \in 1..Len(c) : Proper(c[i], n))
        /\ b \in Nat /\ b >= 2 /\ b <= Len(c) /\ o \in Int
    BY DEF IsList
  <1>2. /\ d \in Seq(Msg) /\ Len(d) = (Len(c) - b) + (2 + r)
        /\ d[1] = c[1] /\ d[2] = m
        /\ r = 1 => \E x \in 2..b : c[x].role = "user" /\ d[3] = c[x]
        /\ \A k \in (3 + r)..Len(d) : d[k] = c[k + o]
    BY DEF Joins
  <1>3. DOMAIN d = 1..Len(d) /\ Len(d) \in Nat /\ Len(d) >= 2 /\ (r = 1 => Len(d) >= 3)
    BY <1>1, <1>2
  <1>4. \A k \in 1..Len(d) : k = 1 \/ k = 2 \/ (r = 1 /\ k = 3) \/ k \in (3 + r)..Len(d)
    BY <1>3
  <1>5. \A k \in (3 + r)..Len(d) : k + o \in (b + 1)..Len(c) /\ k + o \in 1..Len(c)
    BY <1>1, <1>2
  <1>6. \A i \in (b + 1)..Len(c) : i - o \in (3 + r)..Len(d) /\ (i - o) + o = i
    BY <1>1, <1>2
  <1> HIDE DEF o
  <1>7. Proper(m, n)
    BY DEF Proper
  <1>8. \A k \in 1..Len(d) : Proper(d[k], n)
    <2> TAKE k \in 1..Len(d)
    <2>1. 1 \in 1..Len(c) /\ \A x \in 2..b : x \in 1..Len(c)
      BY <1>1
    <2> QED BY <1>1, <1>2, <1>4, <1>5, <1>7, <2>1
  <1>9. Opened(d)
    <2>1. d # <<>> /\ d[1].role = "system"
      BY <1>1, <1>2, <1>3 DEF Opened
    <2> QED BY <1>2, <2>1 DEF Opened
  <1>10. ASSUME NEW i \in 1..Len(d), d[i].role = "tool" \/ d[i].calls # {}
         PROVE  i \in (3 + r)..Len(d)
    <2>1. i # 1
      <3>1. 1 \in 1..Len(c)
        BY <1>1
      <3> QED BY <1>1, <1>2, <1>10, <3>1 DEF Opened, Proper
    <2>2. i # 2
      BY <1>2, <1>10
    <2>3. ~(r = 1 /\ i = 3)
      <3> SUFFICES ASSUME r = 1, i = 3
                   PROVE  FALSE
        OBVIOUS
      <3>1. PICK x \in 2..b : c[x].role = "user" /\ d[3] = c[x]
        BY <1>2
      <3>2. Proper(c[x], n)
        BY <1>1, <3>1
      <3> QED BY <1>10, <3>1, <3>2 DEF Proper
    <2> QED BY <1>4, <2>1, <2>2, <2>3
  <1>11. Whole(d)
    <2> SUFFICES ASSUME NEW i \in 1..Len(d), d[i].role = "tool"
                 PROVE  \E j \in 1..(i - 1) : /\ d[i].answers \in d[j].calls
                                              /\ \A k \in (j + 1)..i : d[k].role = "tool"
      BY <1>3 DEF Whole
    <2>1. i \in (3 + r)..Len(d) /\ i + o \in (b + 1)..Len(c) /\ i + o \in 1..Len(c) /\ d[i] = c[i + o]
      BY <1>2, <1>5, <1>10
    <2>2. PICK g \in 1..((i + o) - 1) : /\ c[i + o].answers \in c[g].calls
                                        /\ \A k \in (g + 1)..(i + o) : c[k].role = "tool"
      BY <1>1, <2>1 DEF Whole
    <2>3. g \in (b + 1)..Len(c)
      <3>1. g \in Nat /\ g < i + o /\ i + o \in Nat
        BY <2>1, <2>2
      <3>2. ~(g <= b)
        <4> SUFFICES ASSUME g <= b
                     PROVE  FALSE
          OBVIOUS
        <4>1. b + 1 \in (g + 1)..(i + o) /\ b < Len(c)
          BY <1>1, <2>1, <3>1
        <4> QED BY <2>2, <4>1 DEF HeadIsTool
      <3> QED BY <1>1, <2>1, <3>1, <3>2
    <2>4. PICK j : j = g - o
      OBVIOUS
    <2>5. j \in (3 + r)..Len(d) /\ j + o = g /\ d[j] = c[g]
      BY <1>2, <1>6, <2>3, <2>4
    <2>6. j \in 1..(i - 1) /\ \A k \in (j + 1)..i : k \in (3 + r)..Len(d) /\ k + o \in (g + 1)..(i + o)
      BY <1>1, <1>3, <2>1, <2>2, <2>5
    <2>7. \A k \in (j + 1)..i : d[k].role = "tool"
      BY <1>2, <2>2, <2>6
    <2> QED BY <2>1, <2>2, <2>5, <2>6, <2>7
  <1>12. StandsFor(d) = StandsFor(c)
    <2>1. \A w : w \in StandsFor(d) <=> \E k \in 1..Len(d) : w \in Words(d[k])
      BY <1>3, InWords
    <2>2. \A w : w \in StandsFor(c) <=> \E i \in 1..Len(c) : w \in Words(c[i])
      BY <1>1, InWords
    <2>3. \A w : w \in m.covers <=> \E i \in 2..b : w \in Words(c[i])
      BY ZoneWords
    <2>4. Words(m) = m.covers
      BY ZoneWords DEF Words, IsText
    <2>5. 1 \in 1..Len(c) /\ 1 \in 1..Len(d) /\ 2 \in 1..Len(d) /\ \A x \in 2..b : x \in 1..Len(c)
      BY <1>1, <1>3
    <2>6. ASSUME NEW w, NEW k \in 1..Len(d), w \in Words(d[k])
          PROVE  w \in StandsFor(c)
      <3>1. CASE k = 1
        BY <1>2, <2>2, <2>5, <2>6, <3>1
      <3>2. CASE k = 2
        BY <1>2, <2>2, <2>3, <2>4, <2>5, <2>6, <3>2
      <3>3. CASE r = 1 /\ k = 3
        BY <1>2, <2>2, <2>5, <2>6, <3>3
      <3>4. CASE k \in (3 + r)..Len(d)
        BY <1>2, <1>5, <2>2, <2>6, <3>4
      <3> QED BY <1>4, <3>1, <3>2, <3>3, <3>4
    <2>7. ASSUME NEW w, NEW i \in 1..Len(c), w \in Words(c[i])
          PROVE  w \in StandsFor(d)
      <3>1. CASE i = 1
        BY <1>2, <2>1, <2>5, <2>7, <3>1
      <3>2. CASE i \in 2..b
        BY <1>2, <2>1, <2>3, <2>4, <2>5, <2>7, <3>2
      <3>3. CASE i \in (b + 1)..Len(c)
        <4>1. PICK k : k = i - o
          OBVIOUS
        <4>2. k \in (3 + r)..Len(d) /\ d[k] = c[i]
          BY <1>2, <1>6, <3>3, <4>1
        <4>3. k \in 1..Len(d)
          BY <1>3, <4>2
        <4> QED BY <2>1, <2>7, <4>2, <4>3
      <3> QED BY <1>1, <3>1, <3>2, <3>3
    <2> QED BY <2>1, <2>2, <2>6, <2>7
  <1>13. \A i \in DOMAIN d : d[i].calls # {} =>
            i \in (3 + r)..Len(d) /\ d[i] = c[i + o] /\ i + o \in (b + 1)..Len(c)
    BY <1>2, <1>3, <1>5, <1>10
  <1>14. IsList(d, n)
    BY <1>2, <1>3, <1>8, <1>9, <1>11 DEF IsList
  <1> QED BY <1>2, <1>3, <1>12, <1>13, <1>14 DEF o

-----------------------------------------------------------------------------
(* The round under way and the reply just recorded, through all of these.  *)

\* The reply w calls for left: it is the last to speak and the only one of that name.
Round(c, w, left) ==
  /\ left = c[LastTalk(c)].calls \ Observed(c, LastTalk(c))
  /\ c[LastTalk(c)].body = w
  /\ \A i \in DOMAIN c : c[i].calls # {} /\ c[i].body = w => i = LastTalk(c)

\* The reply w is in the list at most once, and if it is no summary stands for it.
Spoken(c, w) ==
  \A i \in DOMAIN c : IsText(c[i]) /\ c[i].body = w =>
     /\ c[i].role = "assistant"
     /\ \A j \in DOMAIN c : /\ IsText(c[j]) /\ c[j].body = w => j = i
                            /\ <<w, 0>> \notin c[j].covers

LEMMA AlikeRound ==
  ASSUME NEW c, NEW n \in Nat, IsList(c, n), NEW d \in Seq(Msg), DOMAIN d = DOMAIN c,
         \A i \in DOMAIN c : Alike(c[i], d[i]), NEW w, NEW left, Round(c, w, left)
  PROVE  Round(d, w, left)
  <1>1. PICK p : p = LastTalk(c)
    OBVIOUS
  <1>2. LastTalk(d) = p /\ Observed(d, p) = Observed(c, p)
    BY <1>1, AlikeList
  <1>3. p \in DOMAIN c /\ c \in Seq(Msg)
    BY <1>1, LastTalkIs DEF IsList
  <1> QED BY <1>1, <1>2, <1>3 DEF Round, Alike

LEMMA AlikeSpoken ==
  ASSUME NEW c, NEW d, DOMAIN d = DOMAIN c,
         \A i \in DOMAIN c : Alike(c[i], d[i]), NEW w, Spoken(c, w)
  PROVE  Spoken(d, w)
  <1>1. \A i \in DOMAIN c : /\ IsText(d[i]) <=> IsText(c[i])
                            /\ d[i].body = c[i].body /\ d[i].role = c[i].role
                            /\ d[i].covers = c[i].covers
    BY DEF Alike, IsText
  <1> QED BY <1>1 DEF Spoken

LEMMA SanitizedRound ==
  ASSUME NEW c, NEW n \in Nat, IsList(c, n), NEW w, NEW left, Round(c, w, left), left # {}
  PROVE  Round(Sanitized(c, c[LastTalk(c)].calls), w, left)
  <1>1. PICK p : p = LastTalk(c)
    OBVIOUS
  <1>2. c[p].calls # {} /\ c[p].body = w /\ left = c[p].calls \ Observed(c, p)
    BY <1>1 DEF Round
  <1>3. \A k \in DOMAIN c : c[k].calls # {} /\ c[k].body = c[p].body => k = p
    BY <1>1, <1>2 DEF Round
  <1>4. PICK s : s = Sanitized(c, c[p].calls)
    OBVIOUS
  <1>5. /\ s[LastTalk(s)].calls = c[p].calls /\ s[LastTalk(s)].body = c[p].body
        /\ Observed(s, LastTalk(s)) = Observed(c, p)
        /\ \A i \in DOMAIN s : s[i].calls # {} /\ s[i].body = c[p].body =>
             i = LastTalk(s) \/ \E k \in DOMAIN c : k # p /\ c[k].calls # {} /\ c[k].body = c[p].body
    BY <1>1, <1>2, <1>4, SanitizedLast
  <1>6. Round(s, w, left)
    BY <1>2, <1>3, <1>5 DEF Round
  <1> QED BY <1>1, <1>4, <1>6

LEMMA SanitizedSpoken ==
  ASSUME NEW c, NEW n \in Nat, IsList(c, n), NEW P, NEW w, Spoken(c, w)
  PROVE  Spoken(Sanitized(c, P), w)
  <1>1. c \in Seq(Msg)
    BY DEF IsList
  <1>2. PICK s : s = Sanitized(c, P)
    OBVIOUS
  <1>3. PICK at : Picks(at, c, P, s)
    BY <1>1, <1>2, SanitizedPicks
  <1>4. DOMAIN s = 1..Len(s)
    BY <1>3 DEF Picks
  <1>5. \A k \in DOMAIN s : /\ at[k] \in DOMAIN c
                            /\ s[k].body = c[at[k]].body /\ s[k].role = c[at[k]].role
                            /\ s[k].covers = c[at[k]].covers
                            /\ IsText(s[k]) => IsText(c[at[k]])
    <2> TAKE k \in DOMAIN s
    <2>1. /\ at[k] \in DOMAIN c
          /\ s[k].body = c[at[k]].body /\ s[k].role = c[at[k]].role
          /\ s[k].covers = c[at[k]].covers
          /\ s[k].calls = {} => c[at[k]].calls = {}
      BY <1>1, <1>3, <1>4, PickedMessage
    <2> QED BY <2>1 DEF IsText
  <1>6. \A k, l \in DOMAIN s : at[k] = at[l] => k = l
    BY <1>1, <1>3, <1>4, PickedOrder
  <1>7. Spoken(s, w)
    BY <1>5, <1>6 DEF Spoken
  <1> QED BY <1>2, <1>7

LEMMA JoinedRound ==
  ASSUME NEW c, NEW n \in Nat, IsList(c, n), NEW b \in 2..Len(c), NEW m \in Msg,
         m.role = "assistant", m.calls = {}, m.covers = StandsFor(SubSeq(c, 2, b)),
         NEW d, NEW r \in {0, 1}, Joins(c, b, m, d, r), ~HeadIsTool(c, b),
         NEW w, NEW left, Round(c, w, left), LastTalk(c) > b
  PROVE  Round(d, w, left)
  <1> DEFINE o == (b - 2) - r
  <1>1. IsList(d, n) /\ \A i \in DOMAIN d : d[i].calls # {} =>
           /\ i \in (3 + r)..Len(d) /\ d[i] = c[i + o] /\ i + o \in (b + 1)..Len(c)
    BY JoinedList
  <1>2. /\ c \in Seq(Msg) /\ Opened(c) /\ Len(c) \in Nat /\ b \in Nat /\ b >= 2 /\ b <= Len(c)
        /\ o \in Int /\ DOMAIN c = 1..Len(c)
    BY DEF IsList
  <1>3. /\ d \in Seq(Msg) /\ Opened(d) /\ Len(d) = (Len(c) - b) + (2 + r)
        /\ \A k \in (3 + r)..Len(d) : d[k] = c[k + o]
    BY <1>1 DEF Joins, IsList
  <1>4. DOMAIN d = 1..Len(d)
    BY <1>3
  <1>5. \A i \in (b + 1)..Len(c) : i - o \in (3 + r)..Len(d) /\ (i - o) + o = i /\ i - o \in Nat
    <2> TAKE i \in (b + 1)..Len(c)
    <2>1. PICK l : l = Len(d) /\ l = (Len(c) - b) + (2 + r)
      BY <1>3
    <2>2. i - o \in Int /\ i - o >= 3 + r /\ i - o <= l /\ (i - o) + o = i
      BY <1>2, <2>1
    <2> QED BY <1>2, <2>1, <2>2
  <1>6. \A k \in (3 + r)..Len(d) : k + o \in (b + 1)..Len(c) /\ k \in 1..Len(d) /\ (k + o) - o = k
    <2> TAKE k \in (3 + r)..Len(d)
    <2>1. PICK l : l = Len(d) /\ l = (Len(c) - b) + (2 + r)
      BY <1>3
    <2>2. k \in Int /\ k >= 3 + r /\ k <= l
      BY <2>1
    <2>3. k + o \in Int /\ k + o >= b + 1 /\ k + o <= Len(c) /\ (k + o) - o = k
      BY <1>2, <2>1, <2>2
    <2> QED BY <1>2, <2>1, <2>2, <2>3
  <1>7. PICK p : p = LastTalk(c)
    OBVIOUS
  <1>8. /\ p \in (b + 1)..Len(c) /\ c[p].role # "tool"
        /\ \A i \in 1..Len(c) : i > p => c[i].role = "tool"
    BY <1>2, <1>7, LastTalkIs
  <1>9. PICK q : q = p - o
    OBVIOUS
  <1>10. q \in (3 + r)..Len(d) /\ q + o = p /\ d[q] = c[p] /\ q \in Nat /\ q \in 1..Len(d)
    <2>1. q \in (3 + r)..Len(d) /\ q + o = p /\ q \in Nat
      BY <1>5, <1>8, <1>9
    <2>2. d[q] = c[q + o] /\ q \in 1..Len(d)
      BY <1>3, <1>6, <2>1
    <2> QED BY <2>1, <2>2
  <1>11. \A k \in (q + 1)..Len(d) : k \in (3 + r)..Len(d) /\ k + o \in (p + 1)..Len(c)
    <2> TAKE k \in (q + 1)..Len(d)
    <2>1. k \in (3 + r)..Len(d) /\ k \in Nat /\ k >= q + 1
      BY <1>10
    <2>2. k + o >= p + 1 /\ k + o \in (b + 1)..Len(c)
      BY <1>2, <1>6, <1>10, <2>1
    <2> QED BY <1>2, <1>8, <2>2
  <1>12. \A i \in (p + 1)..Len(c) : i \in (b + 1)..Len(c) /\ i - o \in (q + 1)..Len(d)
                                    /\ c[i].role = "tool"
    BY <1>2, <1>3, <1>8, <1>10
  <1> HIDE DEF o
  <1>13. LastTalk(d) = q
    <2>1. ASSUME NEW k \in 1..Len(d), k > q
          PROVE  d[k].role = "tool"
      <3>1. k \in (q + 1)..Len(d)
        BY <1>10, <2>1
      <3> QED BY <1>3, <1>11, <1>12, <3>1
    <2> QED BY <1>3, <1>8, <1>10, <2>1, LastTalkIsAt
  <1>14. ASSUME NEW a
         PROVE  a \in Observed(d, q) <=> a \in Observed(c, p)
    <2>1. a \in Observed(d, q) <=> \E k \in (q + 1)..Len(d) : a = d[k].answers
      BY <1>3, <1>13, ObservedLast
    <2>2. a \in Observed(c, p) <=> \E i \in (p + 1)..Len(c) : a = c[i].answers
      BY <1>2, <1>7, ObservedLast
    <2>3. ASSUME NEW k \in (q + 1)..Len(d), a = d[k].answers
          PROVE  \E i \in (p + 1)..Len(c) : a = c[i].answers
      BY <1>3, <1>11, <2>3
    <2>4. ASSUME NEW i \in (p + 1)..Len(c), a = c[i].answers
          PROVE  \E k \in (q + 1)..Len(d) : a = d[k].answers
      <3>1. i - o \in (q + 1)..Len(d) /\ (i - o) + o = i /\ i - o \in (3 + r)..Len(d)
        BY <1>5, <1>12
      <3>2. d[i - o] = c[i]
        BY <1>3, <3>1
      <3> QED BY <2>4, <3>1, <3>2
    <2> QED BY <2>1, <2>2, <2>3, <2>4
  <1>15. Observed(d, q) = Observed(c, p)
    BY <1>14
  <1>16. ASSUME NEW i \in DOMAIN d, d[i].calls # {}, d[i].body = w
         PROVE  i = q
    <2>1. i \in (3 + r)..Len(d) /\ d[i] = c[i + o] /\ i + o \in (b + 1)..Len(c)
      BY <1>1, <1>16 DEF o
    <2>2. i + o \in DOMAIN c
      BY <1>2, <2>1
    <2>3. i + o = p
      BY <1>7, <1>16, <2>1, <2>2 DEF Round
    <2> QED BY <1>6, <1>9, <2>1, <2>3
  <1> QED BY <1>7, <1>10, <1>13, <1>15, <1>16 DEF Round

LEMMA JoinedSpoken ==
  ASSUME NEW c, NEW n \in Nat, IsList(c, n), NEW b \in 2..Len(c), NEW m \in Msg,
         m.role = "assistant", m.calls = {}, m.covers = StandsFor(SubSeq(c, 2, b)),
         NEW d, NEW r \in {0, 1}, Joins(c, b, m, d, r), NEW w, Spoken(c, w)
  PROVE  Spoken(d, w)
  <1> DEFINE o == (b - 2) - r
  <1>1. /\ c \in Seq(Msg) /\ Len(c) \in Nat /\ b \in Nat /\ b >= 2 /\ b <= Len(c)
        /\ c[1].role = "system" /\ DOMAIN c = 1..Len(c)
    BY DEF IsList, Opened
  <1>2. /\ d \in Seq(Msg) /\ Len(d) = (Len(c) - b) + (2 + r)
        /\ d[1] = c[1] /\ d[2] = m
        /\ r = 1 => \E x \in 2..b : c[x].role = "user" /\ d[3] = c[x]
        /\ \A k \in (3 + r)..Len(d) : d[k] = c[k + o]
    BY DEF Joins
  <1>3. \A k \in (3 + r)..Len(d) : k + o \in (b + 1)..Len(c) /\ k + o \in DOMAIN c
                                   /\ (k + o) - o = k
    BY <1>1, <1>2
  <1>4. \A k \in DOMAIN d : k = 1 \/ k = 2 \/ (r = 1 /\ k = 3) \/ k \in (3 + r)..Len(d)
    BY <1>1, <1>2
  <1>5. /\ 1 \in DOMAIN c /\ \A x \in 2..b : x \in DOMAIN c /\ x \notin (b + 1)..Len(c)
    BY <1>1
  <1> HIDE DEF o
  <1>6. m.covers # {} /\ \A v : v \in m.covers <=> \E i \in 2..b : v \in Words(c[i])
    BY ZoneWords
  <1>7. ASSUME NEW i \in DOMAIN d, IsText(d[i]), d[i].body = w
        PROVE  /\ i \in (3 + r)..Len(d) /\ IsText(c[i + o]) /\ c[i + o].body = w
               /\ c[i + o].role = "assistant" /\ d[i] = c[i + o]
    <2>1. i # 1
      BY <1>1, <1>2, <1>7 DEF IsText
    <2>2. i # 2
      BY <1>2, <1>6, <1>7 DEF IsText
    <2>3. ~(r = 1 /\ i = 3)
      <3> SUFFICES ASSUME r = 1, i = 3
                   PROVE  FALSE
        OBVIOUS
      <3>1. PICK x \in 2..b : c[x].role = "user" /\ d[3] = c[x]
        BY <1>2
      <3> QED BY <1>5, <1>7, <3>1 DEF Spoken
    <2>4. i \in (3 + r)..Len(d) /\ d[i] = c[i + o] /\ i + o \in DOMAIN c
      BY <1>2, <1>3, <1>4, <2>1, <2>2, <2>3
    <2> QED BY <1>7, <2>4 DEF Spoken
  <1>8. ASSUME NEW i \in DOMAIN d, IsText(d[i]), d[i].body = w,
               NEW j \in DOMAIN d
        PROVE  /\ IsText(d[j]) /\ d[j].body = w => j = i
               /\ <<w, 0>> \notin d[j].covers
    <2>1. PICK k : k = i + o
      OBVIOUS
    <2>2. /\ i \in (3 + r)..Len(d) /\ k \in (b + 1)..Len(c) /\ k \in DOMAIN c
          /\ IsText(c[k]) /\ c[k].body = w
      BY <1>3, <1>7, <1>8, <2>1
    <2>3. \A l \in DOMAIN c : (IsText(c[l]) /\ c[l].body = w => l = k) /\ <<w, 0>> \notin c[l].covers
      BY <2>2 DEF Spoken
    <2>4. ASSUME IsText(d[j]), d[j].body = w
          PROVE  j = i
      <3>1. j + o = k
        BY <1>3, <1>7, <2>3, <2>4
      <3>2. (j + o) - o = j /\ (i + o) - o = i
        BY <1>3, <1>7, <2>2, <2>4
      <3> QED BY <2>1, <3>1, <3>2
    <2>5. <<w, 0>> \notin m.covers
      <3> SUFFICES ASSUME NEW x \in 2..b, <<w, 0>> \in Words(c[x])
                   PROVE  FALSE
        BY <1>6
      <3>1. x \in DOMAIN c /\ x # k /\ <<w, 0>> \notin c[x].covers
        BY <1>5, <2>2, <2>3
      <3>2. IsText(c[x]) /\ <<w, 0>> = <<c[x].body, c[x].ver>>
        BY <3>1 DEF Words
      <3> QED BY <2>3, <3>1, <3>2
    <2>6. <<w, 0>> \notin d[j].covers
      <3>1. CASE j = 1
        BY <1>2, <1>5, <2>3, <3>1
      <3>2. CASE j = 2
        BY <1>2, <2>5, <3>2
      <3>3. CASE r = 1 /\ j = 3
        BY <1>2, <1>5, <2>3, <3>3
      <3>4. CASE j \in (3 + r)..Len(d)
        BY <1>2, <1>3, <2>3, <3>4
      <3> QED BY <1>4, <3>1, <3>2, <3>3, <3>4
    <2> QED BY <2>4, <2>6
  <1> QED BY <1>7, <1>8 DEF Spoken

-----------------------------------------------------------------------------
(* Where a summary may end: never inside a round that is under way.        *)

LEMMA TurnBoundaryIs ==
  ASSUME NEW c \in Seq(Msg), Opened(c)
  PROVE  /\ TurnBoundary(c) \in 0..Len(c)
         /\ Len(c) >= 2 => TurnBoundary(c) < LastTalk(c) \/ TurnBoundary(c) = 1
  <1> DEFINE n == Len(c)
             whole == {i \in 1..n : Cardinality(Users(c, i)) >= KeepTurns}
             b == n - KeepMessages(c)
             open == {k \in 1..b : k = 1 \/ ~HeadIsTool(c, k)}
  <1>1. n \in Nat /\ n >= 1
    BY DEF Opened
  <1>2. n <= 1 => KeepMessages(c) = 0
    BY DEF KeepMessages
  <1>3. ASSUME n >= 2
        PROVE  KeepMessages(c) \in 1..(n - 1)
    <2>1. whole # {} => Latest(whole) \in 1..n
      <3>1. whole \subseteq 1..n
        OBVIOUS
      <3> HIDE DEF whole
      <3>2. whole # {} => Latest(whole) \in whole
        BY <1>1, <3>1, LatestIs
      <3> QED BY <3>1, <3>2
    <2>2. n \div 2 \in 1..n
      BY <1>1, <1>3
    <2>3. \A k \in 1..n : (IF k < n - 1 THEN k ELSE n - 1) \in 1..(n - 1)
      BY <1>1, <1>3
    <2>4. KeepMessages(c) =
            IF whole # {} THEN IF (n - Latest(whole)) + 1 < n - 1 THEN (n - Latest(whole)) + 1 ELSE n - 1
            ELSE IF n < MinCompactable THEN n - 1
            ELSE IF n \div 2 < n - 1 THEN n \div 2 ELSE n - 1
      BY <1>1, <1>3 DEF KeepMessages
    <2> HIDE DEF whole
    <2>5. CASE whole # {}
      <3>1. (n - Latest(whole)) + 1 \in 1..n
        BY <1>1, <2>1, <2>5
      <3> HIDE DEF n
      <3> QED BY <2>3, <2>4, <2>5, <3>1
    <2>6. CASE whole = {}
      <3>1. n - 1 \in 1..(n - 1)
        BY <1>1, <1>3
      <3> HIDE DEF n
      <3> QED BY <2>2, <2>3, <2>4, <2>6, <3>1
    <2> QED BY <2>5, <2>6
  <1>4. TurnBoundary(c) = IF open = {} THEN b ELSE Latest(open)
    BY DEF TurnBoundary
  <1>5. CASE n <= 1
    <2>1. n = 1 /\ b = 1
      <3>1. PICK k : k = KeepMessages(c)
        OBVIOUS
      <3>2. k = 0 /\ b = n - k
        BY <1>2, <1>5, <3>1
      <3> HIDE DEF n, b
      <3> QED BY <1>1, <1>5, <3>2
    <2>2. open = {1}
      BY <2>1
    <2>3. TurnBoundary(c) = 1
      <3> HIDE DEF open, b
      <3>1. Latest({1}) = 1
        BY DEF Latest
      <3> QED BY <1>4, <2>2, <3>1
    <2> QED BY <1>1, <1>5, <2>3
  <1>6. CASE n >= 2
    <2>1. b \in 1..(n - 1)
      <3>1. PICK k : k = KeepMessages(c)
        OBVIOUS
      <3>2. k \in 1..(n - 1)
        BY <1>3, <1>6, <3>1
      <3>3. b = n - k
        BY <3>1
      <3> HIDE DEF n, b
      <3> QED BY <1>1, <3>2, <3>3
    <2> HIDE DEF b
    <2>2. open \subseteq 1..n /\ 1 \in open
      BY <1>1, <2>1
    <2>3. Latest(open) \in open
      <3> HIDE DEF open
      <3> QED BY <1>1, <2>2, LatestIs
    <2>4. PICK t : t = TurnBoundary(c)
      OBVIOUS
    <2>5. t \in 1..(n - 1) /\ (t = 1 \/ ~HeadIsTool(c, t))
      BY <1>1, <1>4, <2>1, <2>2, <2>3, <2>4
    <2>6. PICK p : p = LastTalk(c) /\ p \in 1..n /\ \A i \in 1..n : i > p => c[i].role = "tool"
      BY LastTalkIs
    <2>7. t = 1 \/ t < p
      <3> SUFFICES ASSUME ~(t < p), ~HeadIsTool(c, t)
                   PROVE  FALSE
        BY <2>5
      <3>1. t + 1 \in 1..n /\ t + 1 > p /\ t < n
        BY <1>1, <2>5, <2>6
      <3> QED BY <2>6, <3>1 DEF HeadIsTool
    <2> QED BY <1>1, <2>4, <2>5, <2>6, <2>7
  <1> QED BY <1>1, <1>5, <1>6

LEMMA BoundaryIs ==
  ASSUME NEW c, NEW n \in Nat, IsList(c, n), NEW b \in Boundaries(c), b > 1
  PROVE  /\ b \in 2..Len(c)
         /\ ~(c[LastTalk(c)].calls \subseteq Observed(c, LastTalk(c))) => b < LastTalk(c)
  <1>1. c \in Seq(Msg) /\ Opened(c) /\ Len(c) \in Nat
    BY DEF IsList
  <1>2. PICK t : t = TurnBoundary(c)
    OBVIOUS
  <1>3. t \in 0..Len(c) /\ (Len(c) >= 2 => t < LastTalk(c) \/ t = 1)
    BY <1>1, <1>2, TurnBoundaryIs
  <1>4. PICK p : p = LastTalk(c)
    OBVIOUS
  <1>5. p \in 1..Len(c)
    BY <1>1, <1>4, LastTalkIs
  <1>6. PICK s : s = PendingStart(c)
    OBVIOUS
  <1>7. s \in 0..Len(c) /\ (p > 1 /\ ~(c[p].calls \subseteq Observed(c, p)) => s = p - 1)
    BY <1>1, <1>4, <1>5, <1>6 DEF PendingStart
  <1>8. b = t \/ (b \in TokenBoundaries(c) /\ b > t)
    BY <1>2 DEF Boundaries
  <1>9. b \in TokenBoundaries(c) => b \in 0..Len(c) /\ b <= s
    <2>1. b \in TokenBoundaries(c) => (b \in 1..Len(c) /\ b < s) \/ b = s
      BY <1>6 DEF TokenBoundaries
    <2> QED BY <1>1, <1>7, <2>1
  <1>10. b \in 2..Len(c)
    BY <1>1, <1>3, <1>8, <1>9
  <1>11. ASSUME ~(c[p].calls \subseteq Observed(c, p))
         PROVE  b < p
    <2>1. p > 1
      <3>1. p # 1
        <4>1. c[1].calls = {}
          BY <1>1 DEF IsList, Opened, Proper
        <4> QED BY <1>11, <4>1
      <3> QED BY <1>5, <3>1
    <2>2. s = p - 1
      BY <1>7, <1>11, <2>1
    <2> QED BY <1>1, <1>3, <1>4, <1>5, <1>8, <1>9, <1>10, <2>1, <2>2
  <1> QED BY <1>4, <1>10, <1>11

-----------------------------------------------------------------------------
(* The inductive invariant.                                                *)

Phases   == {"idle", "asking", "rescue", "hooks", "tools"}
Closings == {"skipped", "complete"}
Reading  == {"meta", "veto", "llm", "ownWait"}
Turns    == [phase : Phases, left : SUBSET Ids, request : Seq(Msg),
             tried : BOOLEAN, dropped : BOOLEAN, waits : {0} \cup Flights]
FlightSet == [stage : Stages, room : Nat, boundary : Nat, taken : Seq(Msg),
              keepUser : BOOLEAN, cancelled : BOOLEAN, flushCut : BOOLEAN, said : Seq(Closings)]

\* The conversation is in order, and stands for what it must.
ListOK ==
  /\ IsList(conv, made) /\ \A i \in DOMAIN conv : conv[i].gen <= gen
  /\ room \in 1..(MaxSwitches + 1) /\ gen \in Nat /\ made \in 0..MaxBodies
  /\ live \in SUBSET Word /\ \A w \in live : w[1] <= made \/ w[1] > MaxBodies
  /\ NothingLost

\* A request that may be dropped from stands for the same words; a round waits
\* for what its announcement still lacks.
TurnOK ==
  /\ turn \in Turns
  /\ turn.phase # "tools" => turn.left = {}
  /\ turn.phase # "idle" => Len(conv) >= 2
  /\ turn.phase \in {"asking", "rescue"} =>
        IsList(turn.request, made) /\ StandsFor(turn.request) = live
  /\ turn.phase = "hooks" => Spoken(conv, made)
  /\ turn.left # {} => Round(conv, made, turn.left)

\* What a flight has said fits its stage.
FlightOK(fl, n) ==
  /\ fl \in FlightSet
  /\ fl.stage = "none" => ~fl.cancelled
  /\ fl.stage \in Reading => fl.boundary >= 2
  /\ \A k \in DOMAIN fl.taken : fl.taken[k].calls # {} => fl.taken[k].body <= n
  /\ fl.stage \in {"new"} \cup Reading => fl.said = <<>>
  /\ fl.stage \in {"flush", "persist"} => fl.said = <<"complete">>

ManagerOK ==
  /\ running \in BOOLEAN /\ token \in 0..MaxFlights /\ active \in 0..token
  /\ stop \in {"no", "cancelling", "done"}
  /\ DOMAIN flights = Flights /\ flights = [f \in Flights |-> flights[f]]
  /\ \A f \in Flights : /\ FlightOK(flights[f], made)
                        /\ (flights[f].stage = "none") <=> (f > token)
  /\ OneTerminalUnlessCut

\* fl has not read the announcement n of the round under way.
HasNot(fl, n) == \A k \in DOMAIN fl.taken : fl.taken[k].calls # {} => fl.taken[k].body # n

Uncaptured == turn.left # {} => \A f \in Flights : HasNot(flights[f], made)

IInv == ListOK /\ TurnOK /\ ManagerOK /\ Uncaptured

LEMMA NoFlightOK ==
  ASSUME NEW n \in Nat
  PROVE  /\ NoFlight \in FlightSet /\ FlightOK(NoFlight, n) /\ HasNot(NoFlight, n)
  <1>1. NoFlight \in FlightSet
    BY DEF NoFlight, FlightSet, Stages
  <1>2. NoFlight.stage = "none" /\ NoFlight.taken = <<>> /\ ~NoFlight.cancelled
    BY DEF NoFlight
  <1> QED BY <1>1, <1>2 DEF FlightOK, HasNot, Reading

LEMMA InitInv == Init => IInv
  <1> SUFFICES ASSUME Init
               PROVE  IInv
    OBVIOUS
  <1> USE CompactionAssumption
  <1> DEFINE sys == [body |-> 0, gen |-> 0, ver |-> 0, role |-> "system",
                     calls |-> {}, answers |-> NoCall, covers |-> {}]
  <1>1. sys \in Msg /\ sys.role = "system" /\ sys.calls = {} /\ sys.covers = {} /\ sys.gen = 0
    BY DEF Msg, Roles
  <1>2. conv = <<sys>>
    BY DEF Init
  <1> HIDE DEF sys
  <1>3. conv \in Seq(Msg) /\ Len(conv) = 1 /\ conv[1] = sys /\ DOMAIN conv = {1}
    BY <1>1, <1>2
  <1>4. IsList(conv, 0)
    <2>1. Opened(conv)
      <3>1. conv # <<>> /\ ~(Len(conv) >= 2)
        BY <1>3
      <3> QED BY <1>1, <1>3, <3>1 DEF Opened
    <2>2. Whole(conv)
      BY <1>1, <1>3 DEF Whole
    <2>3. Proper(sys, 0)
      BY <1>1 DEF Proper
    <2> QED BY <1>3, <2>1, <2>2, <2>3 DEF IsList
  <1>5. StandsFor(conv) = {}
    <2>1. Words(sys) = {}
      BY <1>1 DEF Words, IsText
    <2> QED BY <1>3, <2>1, InWords
  <1>6. ListOK
    <2>1. made = 0 /\ gen = 0 /\ room = 1 /\ live = {}
      BY DEF Init
    <2>2. 1 \in 1..(MaxSwitches + 1) /\ 0 \in 0..MaxBodies /\ 0 \in Nat
      OBVIOUS
    <2>3. \A i \in DOMAIN conv : conv[i].gen <= gen
      BY <1>1, <1>3, <2>1
    <2> QED BY <1>4, <1>5, <2>1, <2>2, <2>3 DEF ListOK, NothingLost
  <1>7. turn = NoTurn /\ turn.phase = "idle" /\ turn.left = {}
    BY DEF Init, NoTurn
  <1>8. TurnOK
    <2>1. <<>> \in Seq(Msg)
      OBVIOUS
    <2>2. NoTurn \in Turns
      BY <2>1 DEF NoTurn, Turns, Phases
    <2> QED BY <1>7, <2>2 DEF TurnOK
  <1>9. \A f \in Flights : flights[f] = NoFlight
    BY DEF Init
  <1>10. ManagerOK
    <2>1. 0 \in Nat /\ NoFlight.stage = "none" /\ \A f \in Flights : f > 0
      BY DEF NoFlight, Flights
    <2>2. made = 0 /\ running = FALSE /\ token = 0 /\ active = 0 /\ stop = "no"
          /\ flights = [f \in Flights |-> NoFlight]
      BY DEF Init
    <2>3. \A f \in Flights : FlightOK(flights[f], made)
      BY <1>9, <2>1, <2>2, NoFlightOK
    <2>4. \A f \in Flights : flights[f].stage = "none" <=> f > token
      BY <1>9, <2>1, <2>2
    <2>5. DOMAIN flights = Flights /\ flights = [f \in Flights |-> flights[f]]
      BY <2>2
    <2>6. OneTerminalUnlessCut
      BY <2>2 DEF OneTerminalUnlessCut
    <2>7. token \in 0..MaxFlights /\ active \in 0..token
      BY <2>2
    <2> QED BY <2>2, <2>3, <2>4, <2>5, <2>6, <2>7 DEF ManagerOK
  <1>11. Uncaptured
    BY <1>7 DEF Uncaptured
  <1> QED BY <1>6, <1>8, <1>10, <1>11 DEF IInv

-----------------------------------------------------------------------------
(* The steps of the compaction task.                                       *)

LEMMA FlightGoes ==
  ASSUME ManagerOK, Uncaptured, NEW f \in Flights, flights[f].stage # "none", NEW r,
         FlightOK(r, made), r.stage # "none", turn.left # {} => HasNot(r, made),
         r.stage = "done" /\ ~r.cancelled /\ ~r.flushCut => Len(r.said) = 1,
         flights' = [flights EXCEPT ![f] = r], running' \in BOOLEAN, active' \in {active, 0},
         UNCHANGED <<token, stop, made, turn>>
  PROVE  ManagerOK' /\ Uncaptured'
  <1>1. /\ DOMAIN flights' = Flights /\ flights' = [g \in Flights |-> flights'[g]]
        /\ \A g \in Flights : flights'[g] = IF g = f THEN r ELSE flights[g]
    BY DEF ManagerOK
  <1>2. \A g \in Flights : FlightOK(flights'[g], made)
    BY <1>1 DEF ManagerOK
  <1>3. \A g \in Flights : (flights'[g].stage = "none") <=> (g > token)
    BY <1>1 DEF ManagerOK
  <1>4. OneTerminalUnlessCut'
    <2> SUFFICES ASSUME token > 0
                 PROVE  LET last == flights'[token]
                        IN  last.stage = "done" /\ ~last.cancelled /\ ~last.flushCut
                              => Len(last.said) = 1
      BY DEF OneTerminalUnlessCut
    <2>1. token \in Flights
      BY CompactionAssumption DEF ManagerOK, Flights
    <2> QED BY <1>1, <2>1 DEF ManagerOK, OneTerminalUnlessCut
  <1>5. active' \in 0..token'
    BY CompactionAssumption DEF ManagerOK
  <1>6. ManagerOK'
    BY <1>1, <1>2, <1>3, <1>4, <1>5 DEF ManagerOK
  <1>7. Uncaptured'
    BY <1>1 DEF Uncaptured
  <1> QED BY <1>6, <1>7

LEMMA AsideInv ==
  ASSUME ListOK, TurnOK, Aside
  PROVE  ListOK' /\ TurnOK'
  BY DEF ListOK, TurnOK, Aside, source, NothingLost

\* The finally block, reached from any stage with a terminal that fits it.
LEMMA FinishInv ==
  ASSUME ManagerOK, Uncaptured, NEW f \in Flights, flights[f].stage \notin {"none", "done"},
         NEW said \in Seq(Closings), Finish(f, said), UNCHANGED <<made, turn>>,
         flights[f].cancelled
           \/ (flights[f].stage \in {"new"} \cup Reading /\ Len(said) = 1)
           \/ (flights[f].stage = "flush" /\ said # <<>>)
           \/ (flights[f].stage = "persist" /\ said = <<>>)
  PROVE  ManagerOK' /\ Uncaptured'
  <1>1. FlightOK(flights[f], made)
    BY DEF ManagerOK
  <1>2. flights[f] \in FlightSet
    BY <1>1 DEF FlightOK
  <1>3. PICK r : r = [NoFlight EXCEPT !.stage = "done", !.said = flights[f].said \o said,
                         !.cancelled = flights[f].cancelled,
                         !.flushCut = (flights[f].stage = "flush" /\ said # <<>>)]
    OBVIOUS
  <1>4. flights[f].said \in Seq(Closings) /\ flights[f].cancelled \in BOOLEAN
    BY <1>2 DEF FlightSet
  <1>5. flights[f].said \o said \in Seq(Closings)
        /\ Len(flights[f].said \o said) = Len(flights[f].said) + Len(said)
    BY <1>4, ConcatProperties
  <1>6. /\ r.stage = "done" /\ r.taken = <<>> /\ r.said = flights[f].said \o said
        /\ r.cancelled = flights[f].cancelled
        /\ r.flushCut <=> (flights[f].stage = "flush" /\ said # <<>>)
    BY <1>3 DEF NoFlight
  <1>7. r \in FlightSet
    <2>1. PICK cut \in BOOLEAN : cut = (flights[f].stage = "flush" /\ said # <<>>)
      OBVIOUS
    <2>2. r = [NoFlight EXCEPT !.stage = "done", !.said = flights[f].said \o said,
                               !.cancelled = flights[f].cancelled, !.flushCut = cut]
      BY <1>3, <2>1
    <2>3. <<>> \in Seq(Msg) /\ "done" \in Stages
      BY DEF Stages
    <2> QED BY <1>4, <1>5, <2>2, <2>3 DEF NoFlight, FlightSet
  <1>8. FlightOK(r, made) /\ HasNot(r, made)
    BY <1>6, <1>7 DEF FlightOK, HasNot, Reading
  <1>9. r.stage = "done" /\ ~r.cancelled /\ ~r.flushCut => Len(r.said) = 1
    <2>1. CASE flights[f].stage \in {"new"} \cup Reading /\ Len(said) = 1
      <3>1. flights[f].said = <<>>
        BY <1>1, <2>1 DEF FlightOK
      <3> QED BY <1>5, <1>6, <2>1, <3>1
    <2>2. CASE flights[f].stage = "persist" /\ said = <<>>
      <3>1. flights[f].said = <<"complete">>
        BY <1>1, <2>2 DEF FlightOK
      <3> QED BY <1>5, <1>6, <2>2, <3>1
    <2> QED BY <1>6, <2>1, <2>2
  <1>10. /\ flights' = [flights EXCEPT ![f] = r] /\ running' \in BOOLEAN /\ active' \in {active, 0}
         /\ UNCHANGED <<token, stop, made, turn>>
    BY <1>3 DEF Finish, ManagerOK
  <1> QED BY <1>6, <1>8, <1>9, <1>10, FlightGoes

\* The task goes on to another stage of its reading.
LEMMA GoInv ==
  ASSUME ManagerOK, Uncaptured, NEW f \in Flights, NEW stage \in Stages \ {"none", "done"},
         \/ flights[f].stage \in Reading /\ stage \in Reading
         \/ flights[f].stage \in {"flush", "persist"} /\ stage \in {"flush", "persist"},
         Go(f, stage), KeepsLease, UNCHANGED <<made, turn>>
  PROVE  ManagerOK' /\ Uncaptured'
  <1>1. FlightOK(flights[f], made)
    BY DEF ManagerOK
  <1>2. PICK r : r = [flights[f] EXCEPT !.stage = stage]
    OBVIOUS
  <1>3. /\ r \in FlightSet /\ r.stage = stage /\ r.taken = flights[f].taken
        /\ r.said = flights[f].said /\ r.boundary = flights[f].boundary
    BY <1>1, <1>2 DEF FlightOK, FlightSet
  <1>4. FlightOK(r, made)
    BY <1>1, <1>3 DEF FlightOK, Reading
  <1>5. turn.left # {} => HasNot(r, made)
    BY <1>3 DEF Uncaptured, HasNot
  <1>6. flights[f].stage # "none" /\ r.stage \notin {"none", "done"}
    BY <1>3 DEF Reading
  <1>7. flights' = [flights EXCEPT ![f] = r] /\ running' \in BOOLEAN /\ active' \in {active, 0}
        /\ UNCHANGED <<token, stop, made, turn>>
    BY <1>2 DEF Go, KeepsLease, ManagerOK
  <1> QED BY <1>4, <1>5, <1>6, <1>7, FlightGoes

LEMMA CaptureInv ==
  ASSUME IInv, NEW f \in Flights, Capture(f)
  PROVE  IInv'
  <1>1. ListOK /\ TurnOK /\ ManagerOK /\ Uncaptured /\ Aside /\ UNCHANGED <<made, turn>>
    BY DEF IInv, Capture, Aside
  <1>2. flights[f].stage = "new" /\ ~flights[f].cancelled
    BY DEF Capture, At
  <1>3. PICK b \in Boundaries(conv) :
          \/ /\ b <= 1
             /\ Finish(f, <<"skipped">>)
          \/ /\ b > 1
             /\ flights' = [flights EXCEPT ![f] = [@ EXCEPT
                    !.stage = "meta", !.room = room, !.boundary = b,
                    !.taken = Zone(conv, b), !.keepUser = (b > TurnBoundary(conv))]]
             /\ KeepsLease
    BY DEF Capture
  <1>4. CASE b <= 1 /\ Finish(f, <<"skipped">>)
    <2>1. <<"skipped">> \in Seq(Closings) /\ Len(<<"skipped">>) = 1
      BY DEF Closings
    <2>2. ManagerOK' /\ Uncaptured'
      BY <1>1, <1>2, <1>4, <2>1, FinishInv
    <2> QED BY <1>1, <2>2, AsideInv DEF IInv
  <1>5. CASE ~(b <= 1 /\ Finish(f, <<"skipped">>))
    <2>1. PICK keep \in BOOLEAN : keep = (b > TurnBoundary(conv))
      <3>1. b > 1
        BY <1>3, <1>5
      <3>2. conv \in Seq(Msg) /\ Opened(conv) /\ IsList(conv, made) /\ made \in Nat
        BY <1>1, CompactionAssumption DEF ListOK, IsList
      <3>3. PICK t : t = TurnBoundary(conv)
        OBVIOUS
      <3>4. b \in Nat /\ t \in Nat
        BY <3>1, <3>2, <3>3, BoundaryIs, TurnBoundaryIs
      <3>5. PICK k \in BOOLEAN : (k = TRUE) <=> (b > t)
        OBVIOUS
      <3>6. k = (b > t)
        BY <3>4, <3>5
      <3> QED BY <3>3, <3>6
    <2>2. PICK r : r = [flights[f] EXCEPT !.stage = "meta", !.room = room, !.boundary = b,
                                          !.taken = Zone(conv, b), !.keepUser = keep]
      OBVIOUS
    <2>3. b > 1 /\ KeepsLease /\ flights' = [flights EXCEPT ![f] = r]
      BY <1>3, <1>5, <2>1, <2>2
    <2>4. IsList(conv, made) /\ made \in Nat /\ conv \in Seq(Msg) /\ Len(conv) \in Nat
      BY <1>1, CompactionAssumption DEF ListOK, IsList
    <2>5. /\ b \in 2..Len(conv)
          /\ ~(conv[LastTalk(conv)].calls \subseteq Observed(conv, LastTalk(conv)))
                => b < LastTalk(conv)
      BY <1>3, <2>3, <2>4, BoundaryIs
    <2>6. PICK z : z = Zone(conv, b)
      OBVIOUS
    <2>7. z \in Seq(Msg) /\ DOMAIN z = 1..(b - 1) /\ \A k \in 1..(b - 1) : z[k] = conv[k + 1]
      <3>1. 2 \in Nat /\ b \in Nat /\ 1 <= 2 /\ 2 <= b + 1 /\ b <= Len(conv) /\ (b - 2) + 1 = b - 1
            /\ \A k \in 1..(b - 1) : (2 + k) - 1 = k + 1
        BY <2>4, <2>5
      <3>2. /\ z \in Seq(Msg) /\ Len(z) = (b - 2) + 1
            /\ \A k \in 1..((b - 2) + 1) : z[k] = conv[(2 + k) - 1]
        BY <2>4, <2>6, <3>1, Slice DEF Zone
      <3> QED BY <3>1, <3>2
    <2>8. \A k \in 1..(b - 1) : k + 1 \in 1..b /\ k + 1 \in DOMAIN conv
      BY <2>4, <2>5
    <2>9. flights[f] \in FlightSet /\ FlightOK(flights[f], made)
      BY <1>1 DEF ManagerOK, FlightOK
    <2>10. room \in Nat /\ b \in Nat
      BY <1>1, <2>5, CompactionAssumption DEF ListOK
    <2>11. /\ r \in FlightSet /\ r.stage = "meta" /\ r.taken = z /\ r.boundary = b
           /\ r.said = flights[f].said
      BY <2>2, <2>6, <2>7, <2>9, <2>10 DEF FlightSet, Stages
    <2>12. \A k \in DOMAIN z : z[k].calls # {} => z[k].body <= made
      <3> TAKE k \in DOMAIN z
      <3>1. Proper(conv[k + 1], made) /\ z[k] = conv[k + 1]
        BY <2>4, <2>7, <2>8 DEF IsList
      <3> QED BY <2>4, <3>1 DEF Proper
    <2>13. flights[f].said = <<>>
      BY <1>2, <2>9 DEF FlightOK
    <2>14. FlightOK(r, made)
      BY <2>5, <2>11, <2>12, <2>13 DEF FlightOK, Reading
    <2>15. ASSUME turn.left # {}
           PROVE  HasNot(r, made)
      <3>1. Round(conv, made, turn.left)
        BY <1>1, <2>15 DEF TurnOK
      <3>2. b < LastTalk(conv)
        BY <2>5, <2>15, <3>1 DEF Round
      <3>3. \A k \in 1..(b - 1) : k + 1 # LastTalk(conv)
        BY <2>8, <2>10, <3>2
      <3>4. \A k \in 1..(b - 1) : z[k].calls # {} => z[k].body # made
        BY <2>7, <2>8, <3>1, <3>3 DEF Round
      <3> QED BY <2>7, <2>11, <3>4 DEF HasNot
    <2>16. running' \in BOOLEAN /\ active' \in {active, 0} /\ UNCHANGED <<token, stop, made, turn>>
      BY <1>1, <2>3 DEF KeepsLease, ManagerOK
    <2>17. ManagerOK' /\ Uncaptured'
      BY <1>1, <1>2, <2>3, <2>11, <2>14, <2>15, <2>16, FlightGoes
    <2> QED BY <1>1, <2>17, AsideInv DEF IInv
  <1> QED BY <1>4, <1>5

LEMMA PlainFlightInv ==
  ASSUME IInv, NEW f \in Flights,
         \/ MetadataRead(f) \/ Proceed(f) \/ Vetoed(f) \/ Fails(f) \/ SummarizerOverflows(f)
         \/ ConversationReplaced(f) \/ SpliceRefused(f)
         \/ Flushed(f) \/ FlushFails(f) \/ Persisted(f) \/ Cancelled(f)
  PROVE  IInv'
  <1>1. ListOK /\ TurnOK /\ ManagerOK /\ Uncaptured
    BY DEF IInv
  <1>2. Aside /\ UNCHANGED <<made, turn>>
    BY DEF MetadataRead, Proceed, Vetoed, Fails, SummarizerOverflows, ConversationReplaced,
           SpliceRefused, Flushed, FlushFails, Persisted, Cancelled, Aside
  <1>3. <<"skipped">> \in Seq(Closings) /\ Len(<<"skipped">>) = 1 /\ <<"skipped">> # <<>>
        /\ <<>> \in Seq(Closings)
    BY DEF Closings
  <1>4. SUFFICES ManagerOK' /\ Uncaptured'
    BY <1>1, <1>2, AsideInv DEF IInv
  <1>5. CASE MetadataRead(f)
    <2>1. Go(f, "veto") /\ KeepsLease /\ flights[f].stage \in Reading /\ "veto" \in Reading
          /\ "veto" \in Stages \ {"none", "done"}
      BY <1>5 DEF MetadataRead, At, Reading, Stages
    <2> QED BY <1>1, <1>2, <2>1, GoInv
  <1>6. CASE Proceed(f)
    <2>1. Go(f, "llm") /\ KeepsLease /\ flights[f].stage \in Reading /\ "llm" \in Reading
          /\ "llm" \in Stages \ {"none", "done"}
      BY <1>6 DEF Proceed, At, Reading, Stages
    <2> QED BY <1>1, <1>2, <2>1, GoInv
  <1>7. CASE SummarizerOverflows(f) /\ ~RescueIsOwn(f)
    <2>1. Go(f, "ownWait") /\ KeepsLease /\ flights[f].stage \in Reading /\ "ownWait" \in Reading
          /\ "ownWait" \in Stages \ {"none", "done"}
      BY <1>7 DEF SummarizerOverflows, At, Reading, Stages
    <2> QED BY <1>1, <1>2, <2>1, GoInv
  <1>8. CASE Flushed(f)
    <2>1. Go(f, "persist") /\ KeepsLease /\ flights[f].stage \in {"flush", "persist"}
          /\ "persist" \in Stages \ {"none", "done"}
      BY <1>8 DEF Flushed, At, Stages
    <2> QED BY <1>1, <1>2, <2>1, GoInv
  <1>9. CASE \/ Vetoed(f) \/ Fails(f) \/ (SummarizerOverflows(f) /\ RescueIsOwn(f))
             \/ ConversationReplaced(f) \/ SpliceRefused(f)
    <2>1. Finish(f, <<"skipped">>) /\ flights[f].stage \in Reading
      BY <1>9 DEF Vetoed, Fails, SummarizerOverflows, ConversationReplaced, SpliceRefused,
                  At, Reading
    <2>2. flights[f].stage \notin {"none", "done"}
      BY <2>1 DEF Reading
    <2> QED BY <1>1, <1>2, <1>3, <2>1, <2>2, FinishInv
  <1>10. CASE FlushFails(f)
    <2>1. Finish(f, <<"skipped">>) /\ flights[f].stage = "flush"
      BY <1>10 DEF FlushFails, At
    <2> QED BY <1>1, <1>2, <1>3, <2>1, FinishInv
  <1>11. CASE Persisted(f)
    <2>1. Finish(f, <<>>) /\ flights[f].stage = "persist"
      BY <1>11 DEF Persisted, At
    <2> QED BY <1>1, <1>2, <1>3, <2>1, FinishInv
  <1>12. CASE Cancelled(f)
    <2>1. PICK said : said = IF flights[f].stage = "persist" THEN <<>> ELSE <<"skipped">>
      OBVIOUS
    <2>2. /\ flights[f].cancelled /\ flights[f].stage \notin {"new", "done"}
          /\ Finish(f, said) /\ said \in Seq(Closings)
      BY <1>3, <1>12, <2>1 DEF Cancelled
    <2>3. CASE flights[f].stage # "none"
      BY <1>1, <1>2, <2>2, <2>3, FinishInv
    <2>4. CASE flights[f].stage = "none"
      BY <1>1, <2>2, <2>4 DEF ManagerOK, FlightOK
    <2> QED BY <2>3, <2>4
  <1> QED BY <1>5, <1>6, <1>7, <1>8, <1>9, <1>10, <1>11, <1>12

-----------------------------------------------------------------------------
(* The splice.                                                             *)

\* d is what the splice of f sanitises: the summary m for what f has read.
Splices(f, m, d, r) ==
  /\ flights[f].boundary \in 2..Len(conv) /\ flights[f].taken = SubSeq(conv, 2, flights[f].boundary)
  /\ ~HeadIsTool(conv, flights[f].boundary)
  /\ m \in Msg /\ m.role = "assistant" /\ m.calls = {} /\ m.gen = gen
  /\ m.covers = StandsFor(SubSeq(conv, 2, flights[f].boundary))
  /\ r \in {0, 1} /\ Joins(conv, flights[f].boundary, m, d, r)
  /\ Spliced(f) = Sanitized(d, d[LastTalk(d)].calls)

LEMMA SplicedShape ==
  ASSUME ListOK, NEW f \in Flights, flights[f] \in FlightSet, flights[f].boundary >= 2,
         SpliceFits(f)
  PROVE  \E m, d, r : Splices(f, m, d, r)
  <1>1. PICK b : b = flights[f].boundary
    OBVIOUS
  <1>2. PICK z : z = flights[f].taken
    OBVIOUS
  <1>3. /\ IsList(conv, made) /\ made \in Nat /\ conv \in Seq(Msg) /\ Len(conv) \in Nat
        /\ gen \in Nat /\ live \in SUBSET Word /\ StandsFor(conv) = live
    BY CompactionAssumption DEF ListOK, IsList, NothingLost
  <1>4. b \in 2..Len(conv) /\ z = SubSeq(conv, 2, b) /\ ~HeadIsTool(conv, b)
    <2>1. b \in Nat
      BY <1>1 DEF FlightSet
    <2> QED BY <1>1, <1>2, <1>3, <2>1 DEF SpliceFits, Zone
  <1>5. PICK m : m = Summary(f)
    OBVIOUS
  <1>6. PICK w : w = StandsFor(z)
    OBVIOUS
  <1>7. w \in SUBSET Word
    BY <1>3, <1>4, <1>6, ZoneWords
  <1>8. m = [body |-> 0, gen |-> gen, ver |-> 0, role |-> "assistant", calls |-> {},
             answers |-> NoCall, covers |-> w]
    BY <1>2, <1>5, <1>6 DEF Summary, Said
  <1>9. m \in Msg /\ m.role = "assistant" /\ m.calls = {} /\ m.gen = gen /\ m.covers = w
    BY <1>3, <1>7, <1>8 DEF Msg, Roles
  <1>10. PICK R : R = RetainedUser(f)
    OBVIOUS
  <1>11. R = <<>> \/ \E x \in 2..b : conv[x].role = "user" /\ R = <<conv[x]>>
    <2> SUFFICES ASSUME R # <<>>
                 PROVE  \E x \in 2..b : conv[x].role = "user" /\ R = <<conv[x]>>
      OBVIOUS
    <2>1. PICK users : users = {i \in DOMAIN z : z[i].role = "user"}
      OBVIOUS
    <2>2. users # {} /\ R = <<z[Latest(users)]>>
      BY <1>2, <1>10, <2>1 DEF RetainedUser
    <2>3. 2 \in Nat /\ b \in Nat /\ 1 <= 2 /\ 2 <= b + 1 /\ b <= Len(conv) /\ (b - 2) + 1 = b - 1
          /\ b - 1 \in Nat
      BY <1>3, <1>4
    <2>4. z \in Seq(Msg) /\ Len(z) = b - 1 /\ \A k \in 1..(b - 1) : z[k] = conv[(2 + k) - 1]
      <3>1. /\ z \in Seq(Msg) /\ Len(z) = (b - 2) + 1
            /\ \A k \in 1..((b - 2) + 1) : z[k] = conv[(2 + k) - 1]
        BY <1>3, <1>4, <2>3, Slice
      <3> QED BY <2>3, <3>1
    <2>5. users \subseteq 1..(b - 1)
      BY <2>1, <2>4
    <2>6. PICK x \in users : x = Latest(users)
      BY <2>2, <2>3, <2>5, LatestIs
    <2>7. x \in 1..(b - 1) /\ z[x].role = "user"
      BY <2>1, <2>5, <2>6
    <2>8. x + 1 \in 2..b /\ (2 + x) - 1 = x + 1
      BY <2>3, <2>7
    <2> QED BY <2>2, <2>4, <2>6, <2>7, <2>8
  <1>12. PICK d : d = <<conv[1], m>> \o R \o SubSeq(conv, b + 1, Len(conv))
    OBVIOUS
  <1>13. PICK r \in {0, 1} : Joins(conv, b, m, d, r)
    BY <1>3, <1>4, <1>9, <1>11, <1>12, JoinShape
  <1>14. Spliced(f) = Sanitized(d, d[LastTalk(d)].calls)
    BY <1>1, <1>5, <1>10, <1>12 DEF Spliced
  <1> QED BY <1>1, <1>2, <1>4, <1>6, <1>9, <1>13, <1>14 DEF Splices

\* Eliding changes the text of tool results only.
LEMMA ElidedIs ==
  ASSUME NEW c \in Seq(Msg)
  PROVE  /\ Elided(c) \in Seq(Msg) /\ DOMAIN Elided(c) = DOMAIN c /\ Len(Elided(c)) = Len(c)
         /\ \A i \in DOMAIN c : /\ Alike(c[i], Elided(c)[i]) /\ Elided(c)[i].gen = c[i].gen
                                /\ IsText(c[i]) => c[i].ver = Elided(c)[i].ver
  <1>1. PICK d : d = Elided(c)
    OBVIOUS
  <1>2. DOMAIN d = DOMAIN c /\ \A i \in DOMAIN c :
          d[i] = c[i] \/ (c[i].role = "tool" /\ d[i] = [c[i] EXCEPT !.ver = 1])
    BY <1>1 DEF Elided
  <1>3. \A i \in DOMAIN c :
          /\ d[i] \in Msg /\ Alike(c[i], d[i]) /\ d[i].gen = c[i].gen
          /\ IsText(c[i]) => c[i].ver = d[i].ver
    <2> TAKE i \in DOMAIN c
    <2>1. c[i] \in Msg
      OBVIOUS
    <2> QED BY <1>2, <2>1 DEF Msg, Alike, IsText
  <1>4. d = [i \in 1..Len(c) |-> d[i]] /\ DOMAIN c = 1..Len(c) /\ Len(c) \in Nat
    BY <1>1 DEF Elided
  <1>5. d \in Seq(Msg)
    BY <1>3, <1>4
  <1>6. Len(d) = Len(c)
    BY <1>2, <1>4, <1>5
  <1> QED BY <1>1, <1>2, <1>3, <1>5, <1>6

\* The list after the splice.
LEMMA SplicedList ==
  ASSUME ListOK, NEW f \in Flights, NEW m, NEW d, NEW r, Splices(f, m, d, r)
  PROVE  /\ IsList(d, made) /\ IsList(Spliced(f), made)
         /\ StandsFor(Spliced(f)) = StandsFor(conv)
         /\ Len(Spliced(f)) >= 2 /\ Spliced(f)[2].covers = m.covers
         /\ \A i \in DOMAIN Spliced(f) : Spliced(f)[i].gen <= gen
  <1>1. PICK b : b = flights[f].boundary
    OBVIOUS
  <1>2. PICK P : P = d[LastTalk(d)].calls
    OBVIOUS
  <1>3. PICK s : s = Spliced(f)
    OBVIOUS
  <1>4. /\ IsList(conv, made) /\ made \in Nat /\ conv \in Seq(Msg) /\ Len(conv) \in Nat
        /\ gen \in Nat /\ \A i \in 1..Len(conv) : conv[i].gen <= gen
    BY CompactionAssumption DEF ListOK, IsList
  <1>5. /\ b \in 2..Len(conv) /\ m \in Msg /\ m.role = "assistant" /\ m.calls = {} /\ m.gen = gen
        /\ m.covers = StandsFor(SubSeq(conv, 2, b)) /\ r \in {0, 1} /\ Joins(conv, b, m, d, r)
        /\ ~HeadIsTool(conv, b) /\ s = Sanitized(d, P)
    BY <1>1, <1>2, <1>3 DEF Splices
  <1>6. IsList(d, made) /\ StandsFor(d) = StandsFor(conv) /\ Len(d) >= 2 /\ d[2] = m
    BY <1>4, <1>5, JoinedList
  <1>7. IsList(s, made) /\ StandsFor(s) = StandsFor(d)
    BY <1>4, <1>5, <1>6, SanitizedIsList, SanitizedWords
  <1>8. d \in Seq(Msg) /\ Len(d) \in Nat
    BY <1>6 DEF IsList
  <1>9. PICK at : Picks(at, d, P, s)
    BY <1>5, <1>8, SanitizedPicks
  <1>10. Len(s) >= 2 /\ s \in Seq(Msg) /\ at[2] = 2
    BY <1>4, <1>6, <1>9, SanitizedHead
  <1>11. s[2].covers = m.covers
    <2>1. 2 \in 1..Len(s)
      BY <1>10
    <2> QED BY <1>6, <1>8, <1>9, <1>10, <2>1, PickedMessage
  <1>12. \A i \in 1..Len(d) : d[i].gen <= gen
    <2> TAKE i \in 1..Len(d)
    <2>1. CASE i = 1
      <3>1. d[i] = conv[1] /\ 1 \in 1..Len(conv)
        BY <1>4, <1>5, <2>1 DEF Joins
      <3> QED BY <1>4, <3>1
    <2>2. CASE i = 2
      BY <1>4, <1>5, <1>6, <2>2
    <2>3. CASE i = 3 /\ r = 1
      <3>1. PICK x \in 2..b : d[3] = conv[x]
        BY <1>5, <2>3 DEF Joins
      <3>2. x \in 1..Len(conv)
        BY <1>4, <1>5
      <3> QED BY <1>4, <2>3, <3>1, <3>2
    <2>4. CASE i >= 3 + r
      <3>1. i \in (3 + r)..Len(d) /\ Len(d) = (Len(conv) - b) + (2 + r)
        BY <1>5, <1>8, <2>4 DEF Joins
      <3>2. d[i] = conv[i + ((b - 2) - r)]
        BY <1>5, <3>1 DEF Joins
      <3>3. i + ((b - 2) - r) \in 1..Len(conv)
        BY <1>4, <1>5, <3>1
      <3> QED BY <1>4, <3>2, <3>3
    <2> QED BY <1>5, <2>1, <2>2, <2>3, <2>4
  <1>13. \A i \in DOMAIN s : s[i].gen <= gen
    <2> TAKE i \in DOMAIN s
    <2>1. i \in 1..Len(s)
      BY <1>10
    <2>2. at[i] \in 1..Len(d) /\ s[i].gen = d[at[i]].gen
      BY <1>8, <1>9, <2>1, PickedMessage
    <2> QED BY <1>12, <2>2
  <1> QED BY <1>3, <1>6, <1>7, <1>10, <1>11, <1>13

LEMMA SpliceInv ==
  ASSUME IInv, NEW f \in Flights, Splice(f)
  PROVE  /\ IInv'
         /\ Len(conv') >= 2 /\ conv'[2].covers = StandsFor(flights[f].taken)
  <1>1. /\ ListOK /\ TurnOK /\ ManagerOK /\ Uncaptured
        /\ UNCHANGED <<room, gen, made, turn, live, running, token, active, stop>>
    BY DEF IInv, Splice, KeepsLease, source
  <1>2. flights[f].stage = "llm" /\ SpliceFits(f) /\ conv' = Elided(Spliced(f))
    BY DEF Splice, At, IsReplaced
  <1>3. FlightOK(flights[f], made) /\ flights[f] \in FlightSet /\ flights[f].boundary >= 2
        /\ flights[f].said = <<>>
    BY <1>1, <1>2 DEF ManagerOK, FlightOK, Reading
  <1>4. PICK m, d, r : Splices(f, m, d, r)
    BY <1>1, <1>2, <1>3, SplicedShape
  <1>5. PICK s : s = Spliced(f)
    OBVIOUS
  <1>6. PICK e : e = Elided(s)
    OBVIOUS
  <1>7. /\ IsList(d, made) /\ IsList(s, made) /\ StandsFor(s) = StandsFor(conv)
        /\ Len(s) >= 2 /\ s[2].covers = m.covers /\ \A i \in DOMAIN s : s[i].gen <= gen
    BY <1>1, <1>4, <1>5, SplicedList
  <1>8. s \in Seq(Msg) /\ made \in Nat /\ conv' = e
    BY <1>1, <1>2, <1>5, <1>6, <1>7, CompactionAssumption DEF IsList, ListOK
  <1>9. /\ e \in Seq(Msg) /\ DOMAIN e = DOMAIN s /\ Len(e) = Len(s)
        /\ \A i \in DOMAIN s : /\ Alike(s[i], e[i]) /\ e[i].gen = s[i].gen
                               /\ IsText(s[i]) => s[i].ver = e[i].ver
    BY <1>6, <1>8, ElidedIs
  <1>10. IsList(e, made)
    BY <1>7, <1>8, <1>9, AlikeList
  <1>11. StandsFor(e) = StandsFor(s)
    BY <1>9, AlikeWords
  <1>12. ListOK'
    BY <1>1, <1>7, <1>8, <1>9, <1>10, <1>11 DEF ListOK, NothingLost
  <1>13. PICK b : b = flights[f].boundary
    OBVIOUS
  <1>14. PICK P : P = d[LastTalk(d)].calls
    OBVIOUS
  <1>15. /\ b \in 2..Len(conv) /\ flights[f].taken = SubSeq(conv, 2, b) /\ ~HeadIsTool(conv, b)
         /\ m \in Msg /\ m.role = "assistant" /\ m.calls = {}
         /\ m.covers = StandsFor(SubSeq(conv, 2, b))
         /\ r \in {0, 1} /\ Joins(conv, b, m, d, r) /\ s = Sanitized(d, P)
    BY <1>4, <1>5, <1>13, <1>14 DEF Splices
  <1>16. IsList(conv, made) /\ conv \in Seq(Msg) /\ Len(conv) \in Nat
    BY <1>1 DEF ListOK, IsList
  <1>17. ASSUME turn.left # {}
         PROVE  Round(e, made, turn.left)
    <2>1. PICK p : p = LastTalk(conv)
      OBVIOUS
    <2>2. /\ turn.left = conv[p].calls \ Observed(conv, p) /\ conv[p].body = made
          /\ Round(conv, made, turn.left)
      BY <1>1, <1>17, <2>1 DEF TurnOK, Round
    <2>3. p \in 1..Len(conv) /\ conv[p].calls # {}
      BY <1>16, <1>17, <2>1, <2>2, LastTalkIs DEF IsList
    <2>4. p # 1
      BY <1>16, <2>3 DEF IsList, Opened, Proper
    <2>5. p > b
      <3> SUFFICES ASSUME ~(p > b)
                   PROVE  FALSE
        OBVIOUS
      <3>1. p - 1 \in 1..(b - 1) /\ (2 + (p - 1)) - 1 = p
        BY <1>15, <1>16, <2>3, <2>4
      <3>2. 2 \in Nat /\ b \in Nat /\ 1 <= 2 /\ 2 <= b + 1 /\ b <= Len(conv) /\ (b - 2) + 1 = b - 1
        BY <1>15, <1>16
      <3>3. PICK z : z = flights[f].taken
        OBVIOUS
      <3>4. /\ z \in Seq(Msg) /\ Len(z) = (b - 2) + 1
            /\ \A k \in 1..((b - 2) + 1) : z[k] = conv[(2 + k) - 1]
        BY <1>15, <1>16, <3>2, <3>3, Slice
      <3>5. p - 1 \in DOMAIN z /\ z[p - 1] = conv[p]
        BY <3>1, <3>2, <3>4
      <3>6. HasNot(flights[f], made)
        BY <1>1, <1>17 DEF Uncaptured
      <3> QED BY <2>2, <2>3, <3>3, <3>5, <3>6 DEF HasNot
    <2>6. Round(d, made, turn.left)
      BY <1>8, <1>15, <1>16, <2>1, <2>2, <2>5, JoinedRound
    <2>7. Round(s, made, turn.left)
      BY <1>7, <1>8, <1>14, <1>15, <1>17, <2>6, SanitizedRound
    <2> QED BY <1>7, <1>8, <1>9, <2>7, AlikeRound
  <1>18. ASSUME turn.phase = "hooks"
         PROVE  Spoken(e, made)
    <2>1. Spoken(conv, made)
      BY <1>1, <1>18 DEF TurnOK
    <2>2. Spoken(d, made)
      BY <1>8, <1>15, <1>16, <2>1, JoinedSpoken
    <2>3. Spoken(s, made)
      BY <1>7, <1>8, <1>15, <2>2, SanitizedSpoken
    <2> QED BY <1>9, <2>3, AlikeSpoken
  <1>19. TurnOK'
    BY <1>1, <1>7, <1>8, <1>9, <1>17, <1>18 DEF TurnOK
  <1>20. PICK g : g = [flights[f] EXCEPT !.stage = "flush", !.said = Append(@, "complete")]
    OBVIOUS
  <1>21. /\ g \in FlightSet /\ g.stage = "flush" /\ g.said = <<"complete">>
         /\ g.taken = flights[f].taken
    <2>1. Append(flights[f].said, "complete") = <<"complete">>
          /\ <<"complete">> \in Seq(Closings) /\ "flush" \in Stages
      BY <1>3 DEF Closings, Stages
    <2> QED BY <1>3, <1>20, <2>1 DEF FlightSet
  <1>22. FlightOK(g, made)
    BY <1>3, <1>21 DEF FlightOK, Reading
  <1>23. turn.left # {} => HasNot(g, made)
    BY <1>1, <1>21 DEF Uncaptured, HasNot
  <1>24. flights' = [flights EXCEPT ![f] = g]
    BY <1>1, <1>20 DEF Splice, ManagerOK
  <1>25. ManagerOK' /\ Uncaptured'
    <2>1. running' \in BOOLEAN /\ active' \in {active, 0} /\ UNCHANGED <<token, stop, made, turn>>
      BY <1>1 DEF ManagerOK
    <2> QED BY <1>1, <1>2, <1>21, <1>22, <1>23, <1>24, <2>1, FlightGoes
  <1>26. Len(e) >= 2 /\ e[2].covers = StandsFor(flights[f].taken)
    <2>1. 2 \in DOMAIN s
      BY <1>7, <1>8
    <2>2. e[2].covers = s[2].covers
      BY <1>9, <2>1 DEF Alike
    <2> QED BY <1>7, <1>9, <1>15, <2>2
  <1> QED BY <1>8, <1>12, <1>19, <1>25, <1>26 DEF IInv

-----------------------------------------------------------------------------
(* The steps of the turn.                                                  *)

LEMMA ManagerStays ==
  ASSUME ManagerOK, made \in Nat, made' \in Nat, made <= made', UNCHANGED manager
  PROVE  ManagerOK'
  <1>1. UNCHANGED <<running, token, active, flights, stop>>
    BY DEF manager
  <1>2. ASSUME NEW f \in Flights
        PROVE  FlightOK(flights[f], made')
    <2>1. FlightOK(flights[f], made)
      BY DEF ManagerOK
    <2>2. flights[f].taken \in Seq(Msg)
      BY <2>1 DEF FlightOK, FlightSet
    <2>3. ASSUME NEW k \in DOMAIN flights[f].taken, flights[f].taken[k].calls # {}
          PROVE  flights[f].taken[k].body <= made'
      <3>1. flights[f].taken[k] \in Msg
        BY <2>2
      <3>2. flights[f].taken[k].body \in Nat /\ flights[f].taken[k].body <= made
        BY <2>1, <2>3, <3>1 DEF Msg, FlightOK
      <3> QED BY <3>2
    <2> QED BY <2>1, <2>3 DEF FlightOK
  <1> QED BY <1>1, <1>2 DEF ManagerOK, OneTerminalUnlessCut

LEMMA NoTurnIs ==
  /\ NoTurn \in Turns /\ NoTurn.phase = "idle" /\ NoTurn.left = {} /\ NoTurn.request = <<>>
  /\ NoTurn.tried = FALSE /\ NoTurn.dropped = FALSE /\ NoTurn.waits = 0
  <1>1. <<>> \in Seq(Msg)
    OBVIOUS
  <1> QED BY <1>1 DEF NoTurn, Turns, Phases

\* The request of a list is a list that stands for the same words.
LEMMA RequestIs ==
  ASSUME NEW c, NEW n \in Nat, IsList(c, n)
  PROVE  /\ IsList(Request(c), n) /\ StandsFor(Request(c)) = StandsFor(c)
         /\ Asking(c) \in Turns /\ Asking(c).phase = "asking" /\ Asking(c).left = {}
         /\ Asking(c).request = Request(c)
  <1>1. IsList(Request(c), n) /\ StandsFor(Request(c)) = StandsFor(c)
    BY SanitizedIsList, SanitizedWords DEF Request
  <1>2. PICK q : q = Request(c)
    OBVIOUS
  <1>3. q \in Seq(Msg)
    BY <1>1, <1>2 DEF IsList
  <1>4. Asking(c) = [NoTurn EXCEPT !.phase = "asking", !.request = q]
    BY <1>2 DEF Asking
  <1> QED BY <1>1, <1>2, <1>3, <1>4, NoTurnIs DEF Turns, Phases

\* A turn that ends leaves the rest as it was.
LEMMA TurnEnds ==
  ASSUME IInv, turn' = NoTurn, UNCHANGED <<conv, source, made, live, manager>>
  PROVE  IInv'
  <1>1. ListOK'
    BY DEF IInv, ListOK, source, NothingLost
  <1>2. TurnOK'
    BY NoTurnIs DEF TurnOK
  <1>3. made \in Nat
    BY CompactionAssumption DEF IInv, ListOK
  <1>4. ManagerOK'
    BY <1>3, ManagerStays DEF IInv
  <1>5. Uncaptured'
    BY NoTurnIs DEF Uncaptured
  <1> QED BY <1>1, <1>2, <1>4, <1>5 DEF IInv

\* What is said is new: no message, no summary and no standing word has its name.
LEMMA Unsaid ==
  ASSUME ListOK, made < MaxBodies, NEW i \in DOMAIN conv
  PROVE  /\ ~(IsText(conv[i]) /\ conv[i].body = made + 1)
         /\ <<made + 1, 0>> \notin conv[i].covers
         /\ ~(conv[i].calls # {} /\ conv[i].body = made + 1)
  <1>1. made \in Nat /\ MaxBodies \in Nat /\ StandsFor(conv) = live
        /\ \A w \in live : w[1] <= made \/ w[1] > MaxBodies
    BY CompactionAssumption DEF ListOK, NothingLost
  <1>2. \A v : <<made + 1, v>> \notin live
    <2> SUFFICES ASSUME NEW v, <<made + 1, v>> \in live
                 PROVE  FALSE
      OBVIOUS
    <2>1. <<made + 1, v>>[1] = made + 1
      OBVIOUS
    <2>2. made + 1 <= made \/ made + 1 > MaxBodies
      BY <1>1, <2>1
    <2> QED BY <1>1, <2>2
  <1>3. \A w : w \in Words(conv[i]) => w \in live
    BY <1>1, InWords
  <1>4. ~(IsText(conv[i]) /\ conv[i].body = made + 1)
    BY <1>2, <1>3 DEF Words
  <1>5. <<made + 1, 0>> \notin conv[i].covers
    BY <1>2, <1>3 DEF Words
  <1>6. Proper(conv[i], made)
    BY DEF ListOK, IsList
  <1>7. ~(conv[i].calls # {} /\ conv[i].body = made + 1)
    BY <1>1, <1>6 DEF Proper
  <1> QED BY <1>4, <1>5, <1>7

\* A message of the next body is added; what it says stands.
LEMMA SaidInv ==
  ASSUME ListOK, made < MaxBodies, NEW m \in Msg, m.gen = gen, Proper(m, made + 1),
         m.role \in {"user", "assistant"}, Len(conv) = 1 => m.calls = {}, m.body = made + 1,
         m.covers = {}, m.ver = 0, conv' = Append(conv, m), live' = live \cup Words(m),
         made' = made + 1, UNCHANGED source
  PROVE  /\ ListOK' /\ conv' \in Seq(Msg) /\ Len(conv') = Len(conv) + 1 /\ Len(conv') >= 2
         /\ made' \in Nat /\ made <= made' /\ IsList(conv', made')
         /\ LastTalk(conv') = Len(conv) + 1 /\ Observed(conv', Len(conv) + 1) = {}
         /\ conv'[Len(conv) + 1] = m /\ \A i \in DOMAIN conv : conv'[i] = conv[i]
         /\ \A i \in DOMAIN conv' : i = Len(conv) + 1 \/ i \in DOMAIN conv
  <1>1. /\ IsList(conv, made) /\ made \in Nat /\ MaxBodies \in Nat /\ StandsFor(conv) = live
        /\ conv \in Seq(Msg) /\ Len(conv) \in Nat /\ Len(conv) >= 1 /\ UNCHANGED <<room, gen>>
    BY CompactionAssumption DEF ListOK, IsList, Opened, NothingLost, source
  <1>2. IsList(conv, made + 1)
    BY <1>1, MoreBodies
  <1>3. PICK d : d = Append(conv, m)
    OBVIOUS
  <1>4. /\ IsList(d, made + 1) /\ LastTalk(d) = Len(conv) + 1 /\ Observed(d, Len(conv) + 1) = {}
        /\ StandsFor(d) = StandsFor(conv) \cup Words(m)
    <2>1. made + 1 \in Nat
      BY <1>1
    <2> QED BY <1>2, <1>3, <2>1, AppendTalk
  <1>5. /\ d \in Seq(Msg) /\ Len(d) = Len(conv) + 1 /\ d[Len(conv) + 1] = m
        /\ \A i \in DOMAIN conv : d[i] = conv[i]
        /\ \A i \in DOMAIN d : i = Len(conv) + 1 \/ i \in DOMAIN conv
    BY <1>1, <1>3
  <1>6. \A i \in DOMAIN d : d[i].gen <= gen
    <2>1. gen \in Nat /\ \A i \in DOMAIN conv : conv[i].gen <= gen
      BY DEF ListOK
    <2> QED BY <1>5, <2>1
  <1>7. Words(m) \subseteq {<<made + 1, 0>>}
    BY DEF Words
  <1>8. live' \in SUBSET Word /\ \A w \in live' : w[1] <= made + 1 \/ w[1] > MaxBodies
    <2> SUFFICES ASSUME NEW w \in live'
                 PROVE  w \in Word /\ (w[1] <= made + 1 \/ w[1] > MaxBodies)
      OBVIOUS
    <2>1. CASE w \in live
      <3>1. w \in Word /\ (w[1] <= made \/ w[1] > MaxBodies)
        BY <2>1 DEF ListOK
      <3>2. w[1] \in Nat
        BY <3>1 DEF Word
      <3> QED BY <1>1, <3>1, <3>2
    <2>2. CASE w = <<made + 1, 0>>
      <3>1. made + 1 \in Nat /\ 0 \in {0, 1} /\ w[1] = made + 1
        BY <1>1, <2>2
      <3> QED BY <2>2, <3>1 DEF Word
    <2> QED BY <1>7, <2>1, <2>2
  <1>9. made' \in 0..MaxBodies /\ made' \in Nat /\ made <= made'
    BY <1>1
  <1>10. StandsFor(d) = live'
    BY <1>1, <1>4
  <1>11. ListOK'
    BY <1>1, <1>3, <1>4, <1>6, <1>8, <1>9, <1>10 DEF ListOK, NothingLost
  <1> QED BY <1>1, <1>3, <1>4, <1>5, <1>9, <1>11

LEMMA SaidIs ==
  ASSUME ListOK, made < MaxBodies, NEW role \in {"user", "assistant"}
  PROVE  LET m == Said(made + 1, role)
         IN  /\ m \in Msg /\ m.gen = gen /\ m.role = role /\ m.calls = {} /\ m.covers = {}
             /\ m.body = made + 1 /\ m.ver = 0 /\ Proper(m, made + 1)
             /\ Words(m) = {<<made + 1, 0>>}
  <1>1. PICK m : m = Said(made + 1, role)
    OBVIOUS
  <1>2. m = [body |-> made + 1, gen |-> gen, ver |-> 0, role |-> role, calls |-> {},
             answers |-> NoCall, covers |-> {}]
    BY <1>1 DEF Said
  <1>3. made + 1 \in Nat /\ gen \in Nat
    BY CompactionAssumption DEF ListOK
  <1>4. m \in Msg
    BY <1>2, <1>3 DEF Msg, Roles
  <1>5. Proper(m, made + 1)
    BY <1>2 DEF Proper
  <1>6. Words(m) = {<<made + 1, 0>>}
    BY <1>2 DEF Words, IsText
  <1> QED BY <1>1, <1>2, <1>4, <1>5, <1>6

LEMMA UserSaysInv == IInv /\ UserSays => IInv'
  <1> SUFFICES ASSUME IInv, UserSays
               PROVE  IInv'
    OBVIOUS
  <1>1. ListOK /\ ManagerOK /\ made < MaxBodies /\ made \in Nat /\ UNCHANGED <<source, manager>>
    BY CompactionAssumption DEF IInv, UserSays, ListOK
  <1>2. PICK m : m = Said(made + 1, "user")
    OBVIOUS
  <1>3. /\ m \in Msg /\ m.gen = gen /\ m.role = "user" /\ m.calls = {} /\ m.covers = {}
        /\ m.body = made + 1 /\ m.ver = 0 /\ Proper(m, made + 1) /\ Words(m) = {<<made + 1, 0>>}
    BY <1>1, <1>2, SaidIs
  <1>4. conv' = Append(conv, m) /\ live' = live \cup Words(m) /\ made' = made + 1
    BY <1>2, <1>3 DEF UserSays, Speak
  <1>5. /\ ListOK' /\ Len(conv') >= 2 /\ made' \in Nat /\ made <= made' /\ IsList(conv', made')
    BY <1>1, <1>3, <1>4, SaidInv
  <1>6. PICK c : c = conv'
    OBVIOUS
  <1>7. turn' = Asking(c)
    BY <1>6 DEF UserSays
  <1>8. /\ turn' \in Turns /\ turn'.phase = "asking" /\ turn'.left = {}
        /\ IsList(turn'.request, made') /\ StandsFor(turn'.request) = StandsFor(c)
    BY <1>5, <1>6, <1>7, RequestIs
  <1>9. StandsFor(c) = live'
    BY <1>5, <1>6 DEF ListOK, NothingLost
  <1>10. TurnOK'
    BY <1>5, <1>8, <1>9 DEF TurnOK
  <1>11. ManagerOK'
    BY <1>1, <1>5, ManagerStays
  <1>12. Uncaptured'
    BY <1>8 DEF Uncaptured
  <1> QED BY <1>5, <1>10, <1>11, <1>12 DEF IInv

LEMMA ReplyInv == IInv /\ Reply => IInv'
  <1> SUFFICES ASSUME IInv, Reply
               PROVE  IInv'
    OBVIOUS
  <1>1. ListOK /\ ManagerOK /\ made < MaxBodies /\ made \in Nat /\ UNCHANGED <<source, manager>>
    BY CompactionAssumption DEF IInv, Reply, ListOK
  <1>2. PICK m : m = Said(made + 1, "assistant")
    OBVIOUS
  <1>3. /\ m \in Msg /\ m.gen = gen /\ m.role = "assistant" /\ m.calls = {} /\ m.covers = {}
        /\ m.body = made + 1 /\ m.ver = 0 /\ Proper(m, made + 1) /\ Words(m) = {<<made + 1, 0>>}
    BY <1>1, <1>2, SaidIs
  <1>4. conv' = Append(conv, m) /\ live' = live \cup Words(m) /\ made' = made + 1
    BY <1>2, <1>3 DEF Reply, Speak
  <1>5. PICK c : c = conv'
    OBVIOUS
  <1>6. /\ ListOK' /\ Len(c) >= 2 /\ made' \in Nat /\ made <= made'
        /\ c[Len(conv) + 1] = m /\ \A i \in DOMAIN conv : c[i] = conv[i]
        /\ \A i \in DOMAIN c : i = Len(conv) + 1 \/ i \in DOMAIN conv
    BY <1>1, <1>3, <1>4, <1>5, SaidInv
  <1>7. Spoken(c, made + 1)
    <2>1. ASSUME NEW i \in DOMAIN c, IsText(c[i]), c[i].body = made + 1
          PROVE  i = Len(conv) + 1
      BY <1>1, <1>6, <2>1, Unsaid
    <2>2. ASSUME NEW i \in DOMAIN c
          PROVE  <<made + 1, 0>> \notin c[i].covers
      BY <1>1, <1>3, <1>6, <2>2, Unsaid
    <2> QED BY <1>3, <1>6, <2>1, <2>2 DEF Spoken
  <1>8. turn' = [NoTurn EXCEPT !.phase = "hooks"]
    BY DEF Reply
  <1>9. turn' \in Turns /\ turn'.phase = "hooks" /\ turn'.left = {}
    BY <1>8, NoTurnIs DEF Turns, Phases
  <1>10. TurnOK'
    BY <1>4, <1>5, <1>6, <1>7, <1>9 DEF TurnOK
  <1>11. ManagerOK'
    BY <1>1, <1>6, ManagerStays
  <1>12. Uncaptured'
    BY <1>9 DEF Uncaptured
  <1> QED BY <1>6, <1>10, <1>11, <1>12 DEF IInv

LEMMA AnnounceInv == IInv /\ Announce => IInv'
  <1> SUFFICES ASSUME IInv, Announce
               PROVE  IInv'
    OBVIOUS
  <1>1. /\ ListOK /\ TurnOK /\ ManagerOK /\ made < MaxBodies /\ made \in Nat /\ MaxBodies \in Nat
        /\ gen \in Nat /\ turn.phase = "asking" /\ UNCHANGED <<source, live, manager>>
    BY CompactionAssumption DEF IInv, Announce, ListOK
  <1>2. PICK calls : calls = {<<made + 1, k>> : k \in Calls}
    OBVIOUS
  <1>3. calls \subseteq Ids /\ calls \subseteq {made + 1} \X Calls
    <2>1. made + 1 \in 1..MaxBodies
      BY <1>1
    <2> QED BY <1>2, <2>1 DEF Ids
  <1>4. PICK m : m = [Said(made + 1, "assistant") EXCEPT !.calls = calls]
    OBVIOUS
  <1>5. m = [body |-> made + 1, gen |-> gen, ver |-> 0, role |-> "assistant", calls |-> calls,
             answers |-> NoCall, covers |-> {}]
    BY <1>4 DEF Said
  <1>6. m \in Msg
    BY <1>1, <1>3, <1>5 DEF Msg, Roles
  <1>7. calls # {}
    BY <1>2, CompactionAssumption
  <1>8. Proper(m, made + 1)
    <2>1. made + 1 \in 1..(made + 1)
      BY <1>1
    <2> QED BY <1>3, <1>5, <2>1 DEF Proper
  <1>9. Words(m) = {}
    BY <1>5, <1>7 DEF Words, IsText
  <1>10. Len(conv) >= 2
    BY <1>1 DEF TurnOK
  <1>11. conv' = Append(conv, m) /\ live' = live \cup Words(m) /\ made' = made + 1
    BY <1>1, <1>2, <1>4, <1>9 DEF Announce
  <1>12. PICK c : c = conv'
    OBVIOUS
  <1>13. PICK l : l = Len(conv) + 1
    OBVIOUS
  <1>14. /\ ListOK' /\ Len(c) >= 2 /\ made' \in Nat /\ made <= made'
         /\ LastTalk(c) = l /\ Observed(c, l) = {} /\ c[l] = m
         /\ \A i \in DOMAIN conv : c[i] = conv[i]
         /\ \A i \in DOMAIN c : i = l \/ i \in DOMAIN conv
    <2>1. m.gen = gen /\ m.role = "assistant" /\ m.body = made + 1 /\ m.covers = {} /\ m.ver = 0
      BY <1>5
    <2>2. Len(conv) = 1 => m.calls = {}
      BY <1>10
    <2>3. /\ ListOK' /\ Len(conv') >= 2 /\ made' \in Nat /\ made <= made'
          /\ LastTalk(conv') = Len(conv) + 1 /\ Observed(conv', Len(conv) + 1) = {}
          /\ conv'[Len(conv) + 1] = m /\ \A i \in DOMAIN conv : conv'[i] = conv[i]
          /\ \A i \in DOMAIN conv' : i = Len(conv) + 1 \/ i \in DOMAIN conv
      BY <1>1, <1>6, <1>8, <1>11, <2>1, <2>2, SaidInv
    <2> QED BY <1>12, <1>13, <2>3
  <1>15. Round(c, made + 1, calls)
    <2>1. ASSUME NEW i \in DOMAIN c, c[i].calls # {}, c[i].body = made + 1
          PROVE  i = l
      BY <1>1, <1>14, <2>1, Unsaid
    <2> QED BY <1>5, <1>14, <2>1 DEF Round
  <1>16. turn' = [NoTurn EXCEPT !.phase = "tools", !.left = calls]
    BY <1>2 DEF Announce
  <1>17. turn' \in Turns /\ turn'.phase = "tools" /\ turn'.left = calls
    BY <1>3, <1>16, NoTurnIs DEF Turns, Phases
  <1>18. TurnOK'
    BY <1>11, <1>12, <1>14, <1>15, <1>17 DEF TurnOK
  <1>19. ManagerOK'
    BY <1>1, <1>14, ManagerStays
  <1>20. Uncaptured'
    <2> SUFFICES ASSUME NEW f \in Flights
                 PROVE  HasNot(flights[f], made + 1)
      BY <1>1, <1>11 DEF Uncaptured, manager
    <2>1. FlightOK(flights[f], made)
      BY <1>1 DEF ManagerOK
    <2>2. \A k \in DOMAIN flights[f].taken :
             flights[f].taken[k].calls # {} => flights[f].taken[k].body <= made
      BY <2>1 DEF FlightOK
    <2>3. ~(made + 1 <= made)
      BY <1>1
    <2> QED BY <2>2, <2>3 DEF HasNot
  <1> QED BY <1>14, <1>18, <1>19, <1>20 DEF IInv

LEMMA ResultInv ==
  ASSUME IInv, NEW c \in turn.left, Result(c)
  PROVE  IInv'
  <1>1. /\ ListOK /\ TurnOK /\ ManagerOK /\ Uncaptured /\ made \in Nat /\ gen \in Nat
        /\ turn.phase = "tools" /\ UNCHANGED <<room, gen, made, live, manager>>
        /\ IsList(conv, made) /\ conv \in Seq(Msg) /\ Len(conv) \in Nat /\ Opened(conv)
    BY CompactionAssumption DEF IInv, Result, ListOK, IsList, source
  <1>2. PICK p : p = LastTalk(conv)
    OBVIOUS
  <1>3. /\ turn \in Turns /\ turn.left \subseteq Ids /\ c \in Ids
        /\ turn.left = conv[p].calls \ Observed(conv, p) /\ conv[p].body = made
        /\ \A i \in DOMAIN conv : conv[i].calls # {} /\ conv[i].body = made => i = p
    BY <1>1, <1>2 DEF TurnOK, Round, Turns
  <1>4. p \in 1..Len(conv) /\ p \in DOMAIN conv
    BY <1>1, <1>2, LastTalkIs
  <1>5. PICK m : m = [Said(0, "tool") EXCEPT !.answers = c]
    OBVIOUS
  <1>6. m = [body |-> 0, gen |-> gen, ver |-> 0, role |-> "tool", calls |-> {},
             answers |-> c, covers |-> {}]
    BY <1>5 DEF Said
  <1>7. m \in Msg
    BY <1>1, <1>3, <1>6 DEF Msg, Roles
  <1>8. PICK d : d = Append(conv, m)
    OBVIOUS
  <1>9. /\ IsList(d, made) /\ Len(d) = Len(conv) + 1 /\ LastTalk(d) = p /\ d[p] = conv[p]
        /\ Observed(d, p) = Observed(conv, p) \cup {c} /\ StandsFor(d) = StandsFor(conv)
    <2>1. m.role = "tool" /\ m.calls = {} /\ m.covers = {} /\ m.answers = c
      BY <1>6
    <2>2. c \in conv[p].calls
      BY <1>3
    <2> QED BY <1>1, <1>2, <1>7, <1>8, <2>1, <2>2, AppendResult
  <1>10. /\ d[Len(conv) + 1] = m /\ \A i \in DOMAIN conv : d[i] = conv[i]
         /\ \A i \in DOMAIN d : i = Len(conv) + 1 \/ i \in DOMAIN conv
    BY <1>1, <1>8
  <1>11. conv' = d
    BY <1>5, <1>8 DEF Result
  <1>12. ListOK'
    <2>1. \A i \in DOMAIN d : d[i].gen <= gen
      BY <1>1, <1>6, <1>10 DEF ListOK
    <2> QED BY <1>1, <1>9, <1>11, <2>1 DEF ListOK, NothingLost
  <1>13. PICK left : left = turn.left \ {c}
    OBVIOUS
  <1>14. turn' = [turn EXCEPT !.left = left]
    BY <1>13 DEF Result
  <1>15. turn' \in Turns /\ turn'.phase = "tools" /\ turn'.left = left
    BY <1>1, <1>3, <1>13, <1>14 DEF Turns
  <1>16. Round(d, made, left)
    <2>1. \A i \in DOMAIN d : d[i].calls # {} /\ d[i].body = made => i = p
      BY <1>3, <1>6, <1>10
    <2> QED BY <1>3, <1>9, <1>13, <2>1 DEF Round
  <1>17. Len(d) >= 2
    BY <1>1, <1>4, <1>9
  <1>18. TurnOK'
    BY <1>1, <1>11, <1>15, <1>16, <1>17 DEF TurnOK
  <1>19. ManagerOK'
    BY <1>1, ManagerStays
  <1>20. Uncaptured'
    BY <1>1 DEF Uncaptured, manager
  <1> QED BY <1>12, <1>18, <1>19, <1>20 DEF IInv

LEMMA NextRoundInv == IInv /\ NextRound => IInv'
  <1> SUFFICES ASSUME IInv, NextRound
               PROVE  IInv'
    OBVIOUS
  <1>1. /\ ListOK /\ TurnOK /\ ManagerOK /\ made \in Nat /\ IsList(conv, made)
        /\ turn.phase = "tools" /\ UNCHANGED <<conv, source, made, live, manager>>
        /\ StandsFor(conv) = live /\ turn' = Asking(conv)
    BY CompactionAssumption DEF IInv, NextRound, ListOK, NothingLost
  <1>2. ListOK'
    BY <1>1 DEF ListOK, source, NothingLost
  <1>3. /\ turn' \in Turns /\ turn'.phase = "asking" /\ turn'.left = {}
        /\ IsList(turn'.request, made) /\ StandsFor(turn'.request) = StandsFor(conv)
    BY <1>1, RequestIs
  <1>4. TurnOK'
    BY <1>1, <1>3 DEF TurnOK
  <1>5. ManagerOK'
    BY <1>1, ManagerStays
  <1>6. Uncaptured'
    BY <1>3 DEF Uncaptured
  <1> QED BY <1>2, <1>4, <1>5, <1>6 DEF IInv

\* A plugin's rewrite of the reply replaces its words and no others.
Rewritten(c, h) == [i \in DOMAIN c |-> IF i = h THEN [c[i] EXCEPT !.ver = 1] ELSE c[i]]

LEMMA RewrittenWords ==
  ASSUME NEW c, NEW n \in Nat, IsList(c, n), NEW w \in Nat, Spoken(c, w),
         NEW h \in DOMAIN c, IsText(c[h]), c[h].body = w,
         NEW d, d = Rewritten(c, h)
  PROVE  /\ IsList(d, n) /\ Len(d) = Len(c) /\ \A i \in DOMAIN c : d[i].gen = c[i].gen
         /\ StandsFor(d) = (StandsFor(c) \ {<<w, 0>>}) \cup {<<w, 1>>}
  <1>1. c \in Seq(Msg) /\ c[h] \in Msg
    BY DEF IsList
  <1>2. DOMAIN d = DOMAIN c /\ \A i \in DOMAIN c : i # h => d[i] = c[i]
    BY DEF Rewritten
  <1>3. /\ d[h] = [c[h] EXCEPT !.ver = 1] /\ d[h] \in Msg /\ Alike(c[h], d[h])
        /\ d[h].gen = c[h].gen /\ d[h].ver = 1
    BY <1>1 DEF Msg, Alike, Rewritten
  <1>4. \A i \in DOMAIN c : d[i] \in Msg /\ Alike(c[i], d[i]) /\ d[i].gen = c[i].gen
    <2> TAKE i \in DOMAIN c
    <2>1. CASE i = h
      BY <1>3, <2>1
    <2>2. CASE i # h
      <3>1. d[i] = c[i] /\ c[i] \in Msg
        BY <1>1, <1>2, <2>2
      <3> QED BY <3>1 DEF Alike
    <2> QED BY <2>1, <2>2
  <1>5. d \in Seq(Msg)
    <2>1. d = [i \in DOMAIN c |-> d[i]] /\ DOMAIN c = 1..Len(c) /\ Len(c) \in Nat
      BY <1>1 DEF Rewritten
    <2>2. d \in [1..Len(c) -> Msg]
      BY <1>4, <2>1
    <2> QED BY <2>1, <2>2
  <1>6. IsList(d, n) /\ Len(d) = Len(c)
    BY <1>2, <1>4, <1>5, AlikeList
  <1>7. Words(d[h]) = {<<w, 1>>}
    <2>1. c[h].covers = {} /\ IsText(d[h]) /\ d[h].covers = {} /\ d[h].body = w
      BY <1>3 DEF IsText, Alike
    <2> QED BY <1>3, <2>1 DEF Words
  <1>8. Words(c[h]) \subseteq {<<w, 0>>, <<w, 1>>}
    <2>1. c[h].covers = {} /\ c[h].ver \in {0, 1}
      BY <1>1 DEF IsText, Msg
    <2> QED BY <2>1 DEF Words
  <1>9. ASSUME NEW i \in DOMAIN c, i # h
        PROVE  <<w, 0>> \notin Words(c[i])
    <2>1. <<w, 0>> \notin c[i].covers
      BY DEF Spoken
    <2>2. ~(IsText(c[i]) /\ c[i].body = w)
      BY <1>9 DEF Spoken
    <2> QED BY <2>1, <2>2 DEF Words
  <1>10. ASSUME NEW x
         PROVE  x \in StandsFor(d) <=> x \in (StandsFor(c) \ {<<w, 0>>}) \cup {<<w, 1>>}
    <2>1. x \in StandsFor(d) <=> \E i \in DOMAIN c : x \in Words(d[i])
      BY <1>2, InWords
    <2>2. x \in StandsFor(c) <=> \E i \in DOMAIN c : x \in Words(c[i])
      BY InWords
    <2>3. ASSUME x \in StandsFor(d)
          PROVE  x \in (StandsFor(c) \ {<<w, 0>>}) \cup {<<w, 1>>}
      <3>1. PICK i \in DOMAIN c : x \in Words(d[i])
        BY <2>1, <2>3
      <3>2. CASE i = h
        BY <1>7, <3>1, <3>2
      <3>3. CASE i # h
        <4>1. x \in Words(c[i])
          BY <1>2, <3>1, <3>3
        <4> QED BY <1>9, <2>2, <3>3, <4>1
      <3> QED BY <3>2, <3>3
    <2>4. ASSUME x \in (StandsFor(c) \ {<<w, 0>>}) \cup {<<w, 1>>}
          PROVE  x \in StandsFor(d)
      <3>1. CASE x = <<w, 1>>
        BY <1>7, <2>1, <3>1
      <3>2. CASE x # <<w, 1>>
        <4>1. x # <<w, 0>> /\ x \in StandsFor(c)
          BY <2>4, <3>2
        <4>2. PICK i \in DOMAIN c : x \in Words(c[i])
          BY <2>2, <4>1
        <4>3. i # h
          BY <1>8, <3>2, <4>1, <4>2
        <4> QED BY <1>2, <2>1, <4>2, <4>3
      <3> QED BY <3>1, <3>2
    <2> QED BY <2>3, <2>4
  <1>11. StandsFor(d) = (StandsFor(c) \ {<<w, 0>>}) \cup {<<w, 1>>}
    BY <1>10
  <1> QED BY <1>4, <1>6, <1>11

LEMMA HooksEndInv == IInv /\ HooksEnd => IInv'
  <1> SUFFICES ASSUME IInv, HooksEnd
               PROVE  IInv'
    OBVIOUS
  <1>1. /\ ListOK /\ TurnOK /\ ManagerOK /\ made \in Nat /\ IsList(conv, made)
        /\ turn.phase = "hooks" /\ turn' = NoTurn /\ UNCHANGED <<source, made, manager>>
        /\ StandsFor(conv) = live /\ Spoken(conv, made) /\ conv \in Seq(Msg)
    BY CompactionAssumption DEF IInv, HooksEnd, ListOK, TurnOK, NothingLost, IsList
  <1>2. TurnOK'
    BY <1>1, NoTurnIs DEF TurnOK
  <1>3. ManagerOK'
    BY <1>1, ManagerStays
  <1>4. Uncaptured'
    BY <1>1, NoTurnIs DEF Uncaptured
  <1>5. PICK hit : /\ hit \subseteq {i \in DOMAIN conv : conv[i].body = made /\ IsText(conv[i])}
                   /\ conv' = [i \in DOMAIN conv |->
                                 IF i \in hit THEN [conv[i] EXCEPT !.ver = 1] ELSE conv[i]]
                   /\ live' = IF hit = {} THEN live
                              ELSE (live \ {<<made, 0>>}) \cup {<<made, 1>>}
    <2>1. PICK rewritten \in BOOLEAN :
            LET hit == {i \in DOMAIN conv : rewritten /\ conv[i].body = made /\ IsText(conv[i])}
            IN  /\ conv' = [i \in DOMAIN conv |->
                              IF i \in hit THEN [conv[i] EXCEPT !.ver = 1] ELSE conv[i]]
                /\ live' = IF hit = {} THEN live
                           ELSE (live \ {<<made, 0>>}) \cup {<<made, 1>>}
      BY DEF HooksEnd
    <2>2. PICK hit : hit = {i \in DOMAIN conv : rewritten /\ conv[i].body = made /\ IsText(conv[i])}
      OBVIOUS
    <2>3. hit \subseteq {i \in DOMAIN conv : conv[i].body = made /\ IsText(conv[i])}
      BY <2>2
    <2> QED BY <2>1, <2>2, <2>3
  <1>6. CASE hit = {}
    <2>1. conv' = conv /\ live' = live
      <3>1. conv' = [i \in DOMAIN conv |-> conv[i]]
        BY <1>5, <1>6
      <3> QED BY <1>1, <1>5, <1>6, <3>1
    <2>2. ListOK'
      BY <1>1, <2>1 DEF ListOK, source, NothingLost
    <2> QED BY <1>2, <1>3, <1>4, <2>2 DEF IInv
  <1>7. CASE hit # {}
    <2>1. PICK h : h \in hit
      BY <1>7
    <2>2. h \in DOMAIN conv /\ IsText(conv[h]) /\ conv[h].body = made
      BY <1>5, <2>1
    <2>3. \A i \in DOMAIN conv : i \in hit <=> i = h
      BY <1>1, <1>5, <2>1, <2>2 DEF Spoken
    <2>4. PICK d : d = conv'
      OBVIOUS
    <2>5. d = Rewritten(conv, h) /\ DOMAIN d = DOMAIN conv
      BY <1>5, <2>3, <2>4 DEF Rewritten
    <2>6. /\ IsList(d, made) /\ Len(d) = Len(conv) /\ \A i \in DOMAIN conv : d[i].gen = conv[i].gen
          /\ StandsFor(d) = (StandsFor(conv) \ {<<made, 0>>}) \cup {<<made, 1>>}
      BY <1>1, <2>2, <2>5, RewrittenWords
    <2>7. live' = (live \ {<<made, 0>>}) \cup {<<made, 1>>}
      BY <1>5, <1>7
    <2>8. \A i \in DOMAIN d : d[i].gen <= gen
      BY <1>1, <2>5, <2>6 DEF ListOK
    <2>9. live' \in SUBSET Word /\ \A w \in live' : w[1] <= made \/ w[1] > MaxBodies
      <3>1. <<made, 1>> \in Word /\ <<made, 1>>[1] = made /\ made <= made
        BY <1>1 DEF Word
      <3> QED BY <1>1, <2>7, <3>1 DEF ListOK
    <2>10. ListOK'
      BY <1>1, <2>4, <2>6, <2>7, <2>8, <2>9 DEF ListOK, source, NothingLost
    <2> QED BY <1>2, <1>3, <1>4, <2>10 DEF IInv
  <1> QED BY <1>6, <1>7

-----------------------------------------------------------------------------
(* A compaction is started, and a refused request is rescued.              *)

LEMMA StartedInv ==
  ASSUME ManagerOK, CanTrigger, Started, UNCHANGED made, made \in Nat
  PROVE  ManagerOK' /\ active' \in Flights /\ \A f \in Flights, n \in Nat : HasNot(flights'[f], n)
  <1>1. token \in Nat /\ token + 1 \in 1..MaxFlights /\ token' = token + 1 /\ active' = token + 1
        /\ running' = TRUE /\ stop' = stop
    BY CompactionAssumption DEF ManagerOK, CanTrigger, Started
  <1>2. flights' = [f \in Flights |->
          [NoFlight EXCEPT !.stage = IF f = token + 1 THEN "new"
                                     ELSE IF f <= token THEN "done" ELSE "none"]]
    BY DEF Started
  <1>3. ASSUME NEW stage \in {"new", "done", "none"}, NEW n \in Nat
        PROVE  /\ FlightOK([NoFlight EXCEPT !.stage = stage], n)
               /\ HasNot([NoFlight EXCEPT !.stage = stage], n)
    <2>1. PICK r : r = [NoFlight EXCEPT !.stage = stage]
      OBVIOUS
    <2>2. NoFlight \in FlightSet
      BY <1>3, NoFlightOK
    <2>3. r \in FlightSet /\ r.stage = stage /\ r.taken = <<>> /\ r.said = <<>> /\ r.cancelled = FALSE
      BY <1>3, <2>1, <2>2 DEF NoFlight, FlightSet, Stages
    <2>4. FlightOK(r, n) /\ HasNot(r, n)
      BY <1>3, <2>3 DEF FlightOK, HasNot, Reading
    <2> QED BY <2>1, <2>4
  <1>4. ASSUME NEW f \in Flights
        PROVE  /\ FlightOK(flights'[f], made) /\ \A n \in Nat : HasNot(flights'[f], n)
               /\ (flights'[f].stage = "none") <=> (f > token')
               /\ f = token' => flights'[f].stage = "new"
    <2>1. PICK stage : stage = IF f = token + 1 THEN "new" ELSE IF f <= token THEN "done" ELSE "none"
      OBVIOUS
    <2>2. stage \in {"new", "done", "none"} /\ flights'[f] = [NoFlight EXCEPT !.stage = stage]
      BY <1>2, <2>1
    <2>3. flights'[f].stage = stage
      BY <2>2 DEF NoFlight
    <2>4. f \in Nat
      BY DEF Flights
    <2>5. stage = "none" <=> f > token + 1
      BY <1>1, <2>1, <2>4
    <2> QED BY <1>1, <1>3, <2>1, <2>2, <2>3, <2>5
  <1>5. active' \in Flights /\ token' \in Flights /\ token' \in 0..MaxFlights /\ active' \in 0..token'
    BY <1>1, CompactionAssumption DEF Flights
  <1>6. OneTerminalUnlessCut'
    <2>1. flights'[token'].stage = "new"
      BY <1>4, <1>5
    <2> QED BY <2>1 DEF OneTerminalUnlessCut
  <1>7. DOMAIN flights' = Flights /\ flights' = [f \in Flights |-> flights'[f]]
    BY <1>2
  <1>8. ManagerOK'
    BY <1>1, <1>4, <1>5, <1>6, <1>7 DEF ManagerOK
  <1> QED BY <1>4, <1>5, <1>8

LEMMA TriggerCompactInv == IInv /\ TriggerCompact => IInv'
  <1> SUFFICES ASSUME IInv, TriggerCompact
               PROVE  IInv'
    OBVIOUS
  <1>1. ListOK /\ TurnOK /\ ManagerOK /\ Aside /\ CanTrigger /\ Started /\ made \in Nat
        /\ UNCHANGED <<made, turn>>
    BY CompactionAssumption DEF IInv, TriggerCompact, Aside, ListOK
  <1>2. ManagerOK' /\ \A f \in Flights, n \in Nat : HasNot(flights'[f], n)
    BY <1>1, StartedInv
  <1>3. Uncaptured'
    BY <1>1, <1>2 DEF Uncaptured
  <1> QED BY <1>1, <1>2, <1>3, AsideInv DEF IInv

LEMMA OverflowRescueInv == IInv /\ OverflowRescue => IInv'
  <1> SUFFICES ASSUME IInv, OverflowRescue
               PROVE  IInv'
    OBVIOUS
  <1>1. /\ ListOK /\ TurnOK /\ ManagerOK /\ made \in Nat /\ UNCHANGED <<conv, source, made, live>>
        /\ turn.phase = "asking" /\ turn \in Turns /\ turn.left = {}
    BY CompactionAssumption DEF IInv, OverflowRescue, ListOK, TurnOK
  <1>2. ListOK'
    BY <1>1 DEF ListOK, source, NothingLost
  <1>3. ManagerOK' /\ active' \in {0} \cup Flights
    <2>1. CASE UNCHANGED manager
      <3>1. ManagerOK'
        BY <1>1, <2>1, ManagerStays
      <3>2. active' = active /\ active \in 0..token /\ token \in 0..MaxFlights
        BY <1>1, <2>1 DEF ManagerOK, manager
      <3> QED BY <3>1, <3>2, CompactionAssumption DEF Flights
    <2>2. CASE CanTrigger /\ Started
      BY <1>1, <2>2, StartedInv
    <2> QED BY <2>1, <2>2 DEF OverflowRescue
  <1>4. turn' = [turn EXCEPT !.phase = "rescue", !.tried = TRUE, !.waits = active']
    BY DEF OverflowRescue
  <1>5. turn' \in Turns /\ turn'.phase = "rescue" /\ turn'.left = {} /\ turn'.request = turn.request
    <2>1. PICK a \in {0} \cup Flights : a = active'
      BY <1>3
    <2> QED BY <1>1, <1>4, <2>1 DEF Turns, Phases
  <1>6. TurnOK'
    BY <1>1, <1>5 DEF TurnOK
  <1>7. Uncaptured'
    BY <1>5 DEF Uncaptured
  <1> QED BY <1>2, <1>3, <1>6, <1>7 DEF IInv

\* The emergency drop, replayed on the conversation as new objects.
LEMMA DropOrFailInv ==
  ASSUME IInv, turn.phase \in {"asking", "rescue"}, DropOrFail(turn.request),
         UNCHANGED <<room, made, manager>>
  PROVE  IInv'
  <1>1. /\ ListOK /\ TurnOK /\ ManagerOK /\ made \in Nat /\ gen \in Nat /\ MaxBodies \in Nat
        /\ IsList(turn.request, made) /\ StandsFor(turn.request) = live
        /\ live \in SUBSET Word /\ \A w \in live : w[1] <= made \/ w[1] > MaxBodies
    BY CompactionAssumption DEF IInv, ListOK, TurnOK
  <1>2. CASE turn' = NoTurn /\ UNCHANGED <<conv, gen, live>>
    BY <1>2, TurnEnds DEF source
  <1>3. CASE ~(turn' = NoTurn /\ UNCHANGED <<conv, gen, live>>)
    <2>1. PICK q : q = turn.request
      OBVIOUS
    <2>2. PICK note : note = Said(MaxBodies + gen + 1, "user")
      OBVIOUS
    <2>3. PICK c : c = Dropped(q, note)
      OBVIOUS
    <2>4. \E i \in DOMAIN q : q[i].calls # {}
      BY <1>3, <2>1 DEF DropOrFail
    <2>5. /\ gen' = gen + 1 /\ conv' = [i \in DOMAIN c |-> [c[i] EXCEPT !.gen = gen + 1]]
          /\ live' = live \cup {<<note.body, 0>>}
          /\ turn' = [turn EXCEPT !.phase = "asking", !.request = conv',
                                  !.tried = TRUE, !.dropped = TRUE, !.waits = 0]
      BY <1>3, <2>1, <2>2, <2>3 DEF DropOrFail
    <2>6. note = [body |-> MaxBodies + gen + 1, gen |-> gen, ver |-> 0, role |-> "user",
                  calls |-> {}, answers |-> NoCall, covers |-> {}]
      BY <2>2 DEF Said
    <2>7. /\ note \in Msg /\ note.role = "user" /\ note.calls = {}
          /\ note.body \in Nat /\ note.body > MaxBodies /\ Words(note) = {<<note.body, 0>>}
      <3>1. MaxBodies + gen + 1 \in Nat /\ MaxBodies + gen + 1 > MaxBodies
        BY <1>1
      <3>2. note \in Msg
        BY <1>1, <2>6, <3>1 DEF Msg, Roles
      <3>3. Words(note) = {<<note.body, 0>>}
        BY <2>6 DEF Words, IsText
      <3> QED BY <2>6, <3>1, <3>2, <3>3
    <2>8. IsList(c, made) /\ Len(c) >= 2 /\ StandsFor(c) = StandsFor(q) \cup Words(note)
      BY <1>1, <2>1, <2>3, <2>4, <2>7, DroppedList
    <2>9. c \in Seq(Msg) /\ Len(c) \in Nat /\ DOMAIN c = 1..Len(c)
      BY <2>8 DEF IsList
    <2>10. PICK d : d = conv'
      OBVIOUS
    <2>11. /\ DOMAIN d = DOMAIN c
           /\ \A i \in DOMAIN c : /\ d[i] \in Msg /\ Alike(c[i], d[i]) /\ d[i].gen = gen + 1
                                  /\ c[i].ver = d[i].ver
      <3>1. DOMAIN d = DOMAIN c /\ \A i \in DOMAIN c : d[i] = [c[i] EXCEPT !.gen = gen + 1]
        BY <2>5, <2>10
      <3>2. gen + 1 \in Nat /\ \A i \in DOMAIN c : c[i] \in Msg
        BY <1>1, <2>9
      <3> QED BY <3>1, <3>2 DEF Msg, Alike
    <2>12. d \in Seq(Msg)
      <3>1. d \in [1..Len(c) -> Msg]
        BY <2>5, <2>9, <2>10, <2>11
      <3> QED BY <2>9, <3>1
    <2>13. IsList(d, made) /\ Len(d) = Len(c)
      BY <1>1, <2>8, <2>11, <2>12, AlikeList
    <2>14. StandsFor(d) = StandsFor(c)
      BY <2>11, AlikeWords
    <2>15. StandsFor(d) = live'
      BY <1>1, <2>1, <2>5, <2>7, <2>8, <2>14
    <2>16. live' \in SUBSET Word /\ \A w \in live' : w[1] <= made \/ w[1] > MaxBodies
      <3>1. <<note.body, 0>> \in Word /\ <<note.body, 0>>[1] = note.body
        BY <2>7 DEF Word
      <3> QED BY <1>1, <2>5, <2>7, <3>1
    <2>17. gen' \in Nat /\ \A i \in DOMAIN d : d[i].gen <= gen'
      BY <1>1, <2>5, <2>11
    <2>18. ListOK'
      BY <1>1, <2>10, <2>13, <2>15, <2>16, <2>17 DEF ListOK, NothingLost
    <2>19. /\ turn' \in Turns /\ turn'.phase = "asking" /\ turn'.left = {} /\ turn'.request = d
      <3>1. turn \in Turns /\ turn.left = {}
        BY <1>1 DEF TurnOK
      <3>2. turn' = [turn EXCEPT !.phase = "asking", !.request = d,
                                 !.tried = TRUE, !.dropped = TRUE, !.waits = 0]
        BY <2>5, <2>10
      <3> QED BY <2>12, <3>1, <3>2 DEF Turns, Phases
    <2>20. TurnOK'
      BY <2>8, <2>10, <2>13, <2>15, <2>19 DEF TurnOK
    <2>21. ManagerOK'
      BY <1>1, ManagerStays
    <2>22. Uncaptured'
      BY <2>19 DEF Uncaptured
    <2> QED BY <2>18, <2>20, <2>21, <2>22 DEF IInv
  <1> QED BY <1>2, <1>3

LEMMA RescueReturnsInv == IInv /\ RescueReturns => IInv'
  <1> SUFFICES ASSUME IInv, RescueReturns
               PROVE  IInv'
    OBVIOUS
  <1>1. turn.phase = "rescue" /\ UNCHANGED <<room, made, manager>>
    BY DEF RescueReturns
  <1>2. CASE DropOrFail(turn.request)
    BY <1>1, <1>2, DropOrFailInv
  <1>3. CASE ~DropOrFail(turn.request)
    <2>1. /\ ListOK /\ TurnOK /\ ManagerOK /\ made \in Nat /\ IsList(conv, made)
          /\ StandsFor(conv) = live /\ turn \in Turns /\ turn.left = {} /\ Len(conv) >= 2
      BY <1>1, CompactionAssumption DEF IInv, ListOK, TurnOK, NothingLost
    <2>2. PICK q : q = Request(conv)
      OBVIOUS
    <2>3. /\ turn' = [turn EXCEPT !.phase = "asking", !.request = q, !.waits = 0]
          /\ UNCHANGED <<conv, gen, live>>
      BY <1>3, <2>2 DEF RescueReturns
    <2>4. IsList(q, made) /\ StandsFor(q) = live /\ q \in Seq(Msg)
      BY <2>1, <2>2, RequestIs DEF IsList
    <2>5. turn' \in Turns /\ turn'.phase = "asking" /\ turn'.left = {} /\ turn'.request = q
      BY <2>1, <2>3, <2>4 DEF Turns, Phases
    <2>6. ListOK'
      BY <1>1, <2>1, <2>3 DEF ListOK, NothingLost
    <2>7. TurnOK'
      BY <1>1, <2>1, <2>3, <2>4, <2>5 DEF TurnOK
    <2>8. ManagerOK'
      BY <1>1, <2>1, ManagerStays
    <2>9. Uncaptured'
      BY <2>5 DEF Uncaptured
    <2> QED BY <2>6, <2>7, <2>8, <2>9 DEF IInv
  <1> QED BY <1>2, <1>3

-----------------------------------------------------------------------------
(* The other actors.                                                       *)

\* A prefix of the list, the same objects or others, when no turn runs.
LEMMA PrefixInv ==
  ASSUME IInv, turn.phase = "idle", NEW n \in 1..Len(conv), NEW d \in Seq(Msg), DOMAIN d = 1..n,
         \A i \in 1..n : Alike(conv[i], d[i]) /\ d[i].ver = conv[i].ver /\ d[i].gen <= gen',
         conv' = d, live' = StandsFor(d), gen' \in Nat, room' \in 1..(MaxSwitches + 1),
         UNCHANGED <<made, turn, manager>>
  PROVE  IInv'
  <1>1. /\ ListOK /\ TurnOK /\ ManagerOK /\ made \in Nat /\ IsList(conv, made)
        /\ StandsFor(conv) = live /\ turn.left = {} /\ conv \in Seq(Msg) /\ Len(conv) \in Nat
        /\ live \in SUBSET Word /\ \A w \in live : w[1] <= made \/ w[1] > MaxBodies
    BY CompactionAssumption DEF IInv, ListOK, TurnOK, NothingLost, IsList
  <1>2. IsList(d, made)
    BY <1>1, PrefixList
  <1>3. \A w : w \in StandsFor(d) => w \in live
    <2> SUFFICES ASSUME NEW w \in StandsFor(d)
                 PROVE  w \in live
      OBVIOUS
    <2>1. PICK i \in 1..n : w \in Words(d[i])
      BY InWords
    <2>2. Words(d[i]) = Words(conv[i]) /\ i \in DOMAIN conv
      BY <1>1 DEF Words, Alike, IsText
    <2> QED BY <1>1, <2>1, <2>2, InWords
  <1>4. live' \in SUBSET Word /\ \A w \in live' : w[1] <= made \/ w[1] > MaxBodies
    BY <1>1, <1>3
  <1>5. ListOK'
    BY <1>1, <1>2, <1>4 DEF ListOK, NothingLost
  <1>6. TurnOK'
    BY <1>1 DEF TurnOK
  <1>7. ManagerOK'
    BY <1>1, ManagerStays
  <1>8. Uncaptured'
    BY <1>1 DEF Uncaptured
  <1> QED BY <1>5, <1>6, <1>7, <1>8 DEF IInv

LEMMA SwitchBranchInv == IInv /\ SwitchBranch => IInv'
  <1> SUFFICES ASSUME IInv, SwitchBranch
               PROVE  IInv'
    OBVIOUS
  <1>1. /\ conv \in Seq(Msg) /\ Len(conv) \in Nat /\ gen \in Nat /\ room \in 1..(MaxSwitches + 1)
        /\ MaxSwitches \in Nat
    BY CompactionAssumption DEF IInv, ListOK, IsList
  <1>2. PICK n \in 1..Len(conv) : conv' = [i \in 1..n |-> [conv[i] EXCEPT !.gen = gen + 1]]
    BY DEF SwitchBranch
  <1>3. PICK d : d = conv'
    OBVIOUS
  <1>4. DOMAIN d = 1..n /\ n \in Nat /\ \A i \in 1..n : d[i] = [conv[i] EXCEPT !.gen = gen + 1]
    BY <1>1, <1>2, <1>3
  <1>5. \A i \in 1..n : conv[i] \in Msg
    BY <1>1
  <1>6. \A i \in 1..n : /\ d[i] \in Msg /\ Alike(conv[i], d[i]) /\ d[i].ver = conv[i].ver
                        /\ d[i].gen = gen + 1
    <2>1. gen + 1 \in Nat
      BY <1>1
    <2> QED BY <1>4, <1>5, <2>1 DEF Msg, Alike
  <1>7. d \in Seq(Msg)
    <2>1. d \in [1..n -> Msg]
      BY <1>2, <1>3, <1>4, <1>6
    <2> QED BY <1>4, <2>1
  <1>8. /\ turn.phase = "idle" /\ live' = StandsFor(d) /\ gen' = gen + 1 /\ room' = room + 1
        /\ room <= MaxSwitches /\ UNCHANGED <<made, turn, manager>>
    BY <1>3 DEF SwitchBranch
  <1>9. gen' \in Nat /\ room' \in 1..(MaxSwitches + 1) /\ \A i \in 1..n : d[i].gen <= gen'
    BY <1>1, <1>6, <1>8
  <1> QED BY <1>3, <1>4, <1>6, <1>7, <1>8, <1>9, PrefixInv

LEMMA RewindInv == IInv /\ Rewind => IInv'
  <1> SUFFICES ASSUME IInv, Rewind
               PROVE  IInv'
    OBVIOUS
  <1>1. /\ conv \in Seq(Msg) /\ Len(conv) \in Nat /\ gen \in Nat /\ room \in 1..(MaxSwitches + 1)
        /\ \A i \in DOMAIN conv : conv[i].gen <= gen
    BY DEF IInv, ListOK, IsList
  <1>2. PICK n \in 1..(Len(conv) - 1) : conv' = SubSeq(conv, 1, n)
    BY DEF Rewind
  <1>3. PICK d : d = conv'
    OBVIOUS
  <1>4. n \in Nat /\ n \in 1..Len(conv) /\ (n - 1) + 1 = n /\ \A k \in 1..n : (1 + k) - 1 = k
    BY <1>1
  <1>5. d \in Seq(Msg) /\ Len(d) = n /\ \A k \in 1..n : d[k] = conv[k]
    <2>1. 1 \in Nat /\ 1 <= 1 /\ 1 <= n + 1 /\ n <= Len(conv)
      BY <1>1, <1>4
    <2>2. /\ d \in Seq(Msg) /\ Len(d) = (n - 1) + 1
          /\ \A k \in 1..((n - 1) + 1) : d[k] = conv[(1 + k) - 1]
      BY <1>1, <1>2, <1>3, <1>4, <2>1, Slice
    <2> QED BY <1>4, <2>2
  <1>6. DOMAIN d = 1..n
    BY <1>5
  <1>7. /\ turn.phase = "idle" /\ live' = StandsFor(d) /\ gen' = gen /\ room' = room
        /\ UNCHANGED <<made, turn, manager>>
    BY <1>3 DEF Rewind, source
  <1>8. \A i \in 1..n : Alike(conv[i], d[i]) /\ d[i].ver = conv[i].ver /\ d[i].gen <= gen'
    <2> TAKE i \in 1..n
    <2>1. i \in DOMAIN conv /\ d[i] = conv[i]
      BY <1>1, <1>4, <1>5
    <2> QED BY <1>1, <1>7, <2>1 DEF Alike
  <1> QED BY <1>1, <1>3, <1>4, <1>5, <1>6, <1>7, <1>8, PrefixInv

LEMMA StopInv == IInv /\ Stop => IInv'
  <1> SUFFICES ASSUME IInv, Stop
               PROVE  IInv'
    OBVIOUS
  <1>1. /\ ListOK /\ ManagerOK /\ made \in Nat /\ turn' = NoTurn /\ stop' = "cancelling"
        /\ UNCHANGED <<conv, source, made, live, running, token, active>>
    <2>1. ListOK /\ ManagerOK /\ made \in Nat
      BY CompactionAssumption DEF IInv, ListOK
    <2>2. /\ turn' = NoTurn /\ stop' = "cancelling"
          /\ UNCHANGED <<conv, source, made, live, running, token, active>>
      BY DEF Stop
    <2> QED BY <2>1, <2>2
  <1>2. ListOK'
    BY <1>1 DEF ListOK, source, NothingLost
  <1>3. TurnOK' /\ Uncaptured'
    BY <1>1, NoTurnIs DEF TurnOK, Uncaptured
  <1>4. DOMAIN flights' = Flights /\ flights' = [f \in Flights |-> flights'[f]]
    BY DEF Stop
  <1>5. ASSUME NEW f \in Flights
        PROVE  \/ flights'[f] = flights[f]
               \/ /\ FlightOK(flights'[f], made) /\ flights'[f].cancelled
                  /\ flights[f].stage # "none" /\ flights'[f].stage # "none"
    <2>1. FlightOK(flights[f], made) /\ ((flights[f].stage = "none") <=> (f > token))
          /\ flights[f] \in FlightSet
      BY <1>1 DEF ManagerOK, FlightOK
    <2>2. flights'[f] = IF f # active \/ flights[f].stage = "done" THEN flights[f]
                        ELSE IF flights[f].stage = "new"
                             THEN [flights[f] EXCEPT !.stage = "done", !.cancelled = TRUE]
                        ELSE [flights[f] EXCEPT !.cancelled = TRUE]
      BY DEF Stop
    <2>3. CASE f = active /\ flights[f].stage # "done"
      <3>1. flights[f].stage # "none"
        <4>1. active \in 0..token /\ token \in Nat
          BY <1>1, CompactionAssumption DEF ManagerOK
        <4>2. f \in Nat /\ ~(f > token)
          BY <2>3, <4>1
        <4> QED BY <2>1, <4>2
      <3>2. CASE flights[f].stage = "new"
        <4>1. PICK r : r = [flights[f] EXCEPT !.stage = "done", !.cancelled = TRUE]
          OBVIOUS
        <4>2. /\ r \in FlightSet /\ r.stage = "done" /\ r.cancelled = TRUE
              /\ r.taken = flights[f].taken /\ r.said = flights[f].said
          BY <2>1, <4>1 DEF FlightSet, Stages
        <4>3. FlightOK(r, made)
          BY <2>1, <4>2 DEF FlightOK, Reading
        <4> QED BY <2>2, <2>3, <3>1, <3>2, <4>1, <4>2, <4>3
      <3>3. CASE flights[f].stage # "new"
        <4>1. PICK r : r = [flights[f] EXCEPT !.cancelled = TRUE]
          OBVIOUS
        <4>2. /\ r \in FlightSet /\ r.stage = flights[f].stage /\ r.cancelled = TRUE
              /\ r.taken = flights[f].taken /\ r.said = flights[f].said
              /\ r.boundary = flights[f].boundary
          BY <2>1, <4>1 DEF FlightSet
        <4>3. FlightOK(r, made)
          BY <2>1, <3>1, <4>2 DEF FlightOK
        <4> QED BY <2>2, <2>3, <3>1, <3>3, <4>1, <4>2, <4>3
      <3> QED BY <3>2, <3>3
    <2> QED BY <2>2, <2>3
  <1>6. \A f \in Flights : FlightOK(flights'[f], made) /\ ((flights'[f].stage = "none") <=> (f > token))
    BY <1>1, <1>5 DEF ManagerOK
  <1>7. OneTerminalUnlessCut'
    <2>1. token > 0 => token \in Flights
      BY <1>1, CompactionAssumption DEF ManagerOK, Flights
    <2>2. OneTerminalUnlessCut
      BY <1>1 DEF ManagerOK
    <2> QED BY <1>1, <1>5, <2>1, <2>2 DEF OneTerminalUnlessCut
  <1>8. ManagerOK'
    BY <1>1, <1>4, <1>6, <1>7 DEF ManagerOK
  <1> QED BY <1>2, <1>3, <1>8 DEF IInv

LEMMA StopReturnsInv == IInv /\ StopReturns => IInv'
  <1> SUFFICES ASSUME IInv, StopReturns
               PROVE  IInv'
    OBVIOUS
  <1>1. /\ ListOK /\ TurnOK /\ ManagerOK /\ Uncaptured
        /\ running' = FALSE /\ active' = 0 /\ stop' = "done"
        /\ UNCHANGED <<conv, source, made, turn, live, token, flights>>
    BY DEF IInv, StopReturns, ForceRelease
  <1>2. ListOK'
    BY <1>1 DEF ListOK, source, NothingLost
  <1>3. TurnOK' /\ Uncaptured'
    BY <1>1 DEF TurnOK, Uncaptured
  <1>4. 0 \in 0..token
    BY <1>1, CompactionAssumption DEF ManagerOK
  <1>5. ManagerOK'
    BY <1>1, <1>4 DEF ManagerOK, OneTerminalUnlessCut
  <1> QED BY <1>2, <1>3, <1>5 DEF IInv

LEMMA FlightStepInv ==
  ASSUME IInv, NEW f \in Flights, FlightStep(f)
  PROVE  IInv'
  <1>1. CASE Capture(f)
    BY <1>1, CaptureInv
  <1>2. CASE Splice(f)
    BY <1>2, SpliceInv
  <1>3. CASE ~Capture(f) /\ ~Splice(f)
    BY <1>3, PlainFlightInv DEF FlightStep
  <1> QED BY <1>1, <1>2, <1>3

LEMMA StepInv == IInv /\ [Next]_vars => IInv'
  <1> SUFFICES ASSUME IInv, [Next]_vars
               PROVE  IInv'
    OBVIOUS
  <1>1. CASE UserSays
    BY <1>1, UserSaysInv
  <1>2. CASE Reply
    BY <1>2, ReplyInv
  <1>3. CASE HooksEnd
    BY <1>3, HooksEndInv
  <1>4. CASE Announce
    BY <1>4, AnnounceInv
  <1>5. CASE NextRound
    BY <1>5, NextRoundInv
  <1>6. CASE TurnFails
    BY <1>6, TurnEnds DEF TurnFails
  <1>7. CASE OverflowRescue
    BY <1>7, OverflowRescueInv
  <1>8. CASE OverflowDrop
    BY <1>8, DropOrFailInv DEF OverflowDrop
  <1>9. CASE RescueReturns
    BY <1>9, RescueReturnsInv
  <1>10. CASE \E c \in turn.left : Result(c)
    BY <1>10, ResultInv
  <1>11. CASE TriggerCompact
    BY <1>11, TriggerCompactInv
  <1>12. CASE \E f \in Flights : FlightStep(f)
    BY <1>12, FlightStepInv
  <1>13. CASE SwitchBranch
    BY <1>13, SwitchBranchInv
  <1>14. CASE Rewind
    BY <1>14, RewindInv
  <1>15. CASE Stop
    BY <1>15, StopInv
  <1>16. CASE StopReturns
    BY <1>16, StopReturnsInv
  <1>17. CASE UNCHANGED vars
    BY <1>17 DEF vars, IInv, ListOK, NothingLost, TurnOK, ManagerOK, OneTerminalUnlessCut, Uncaptured
  <1> QED BY <1>1, <1>2, <1>3, <1>4, <1>5, <1>6, <1>7, <1>8, <1>9, <1>10, <1>11, <1>12, <1>13,
             <1>14, <1>15, <1>16, <1>17 DEF Next, Turn

LEMMA Inductive == Spec => []IInv
  <1> QED BY InitInv, StepInv, PTL DEF Spec

-----------------------------------------------------------------------------
(* The theorems.                                                           *)

\* Every variable has its type, whatever the calls, the policy and the bounds.
THEOREM TypeCorrect == Spec => []TypeOK
  <1>1. IInv => TypeOK
    <2> SUFFICES ASSUME IInv
                 PROVE  TypeOK
      OBVIOUS
    <2>1. ListOK /\ TurnOK /\ ManagerOK
      BY DEF IInv
    <2>2. ASSUME NEW i \in DOMAIN conv
          PROVE  /\ conv[i].role \in {"system", "user", "assistant", "tool"}
                 /\ conv[i].ver \in 0..1 /\ conv[i].gen \in 0..gen
                 /\ conv[i].calls \subseteq ((1..MaxBodies) \X Calls)
      <3>1. conv[i] \in Msg /\ conv[i].gen <= gen /\ gen \in Nat
        BY <2>1 DEF ListOK, IsList
      <3>2. conv[i].gen \in Nat
        BY <3>1 DEF Msg
      <3> QED BY <3>1, <3>2 DEF Msg, Roles, Ids
    <2>3. room \in 1..(MaxSwitches + 1) /\ gen \in Nat /\ made \in 0..MaxBodies
      BY <2>1 DEF ListOK
    <2>4. /\ turn.phase \in {"idle", "asking", "rescue", "hooks", "tools"}
          /\ turn.waits \in {0} \cup Flights
      BY <2>1 DEF TurnOK, Turns, Phases
    <2>5. /\ running \in BOOLEAN /\ token \in 0..MaxFlights /\ active \in 0..token
          /\ stop \in {"no", "cancelling", "done"}
          /\ \A f \in Flights : (flights[f].stage = "none") <=> (f > token)
      BY <2>1 DEF ManagerOK
    <2>6. \A f \in Flights : flights[f].stage \in Stages
      BY <2>1 DEF ManagerOK, FlightOK, FlightSet
    <2> QED BY <2>2, <2>3, <2>4, <2>5, <2>6 DEF TypeOK
  <1> QED BY <1>1, Inductive, PTL

\* The conversation, with its summaries, stands for exactly the words that were
\* said and not taken back, however the turn, the emergency drop, rewrites,
\* rewinds and branch switches interleave with the compaction.
THEOREM WordsAreKept == Spec => []NothingLost
  <1>1. IInv => NothingLost
    BY DEF IInv, ListOK
  <1> QED BY <1>1, Inductive, PTL

\* No splice, pruning or drop parts a tool result from its announcement, or a
\* round under way from the calls it waits for.
THEOREM RoundsAreWhole == Spec => []RoundsStayWhole
  <1>1. IInv => RoundsStayWhole
    <2> SUFFICES ASSUME IInv
                 PROVE  RoundsStayWhole
      OBVIOUS
    <2>1. Whole(conv)
      BY DEF IInv, ListOK, IsList
    <2>2. turn.left # {} =>
             turn.left = conv[LastTalk(conv)].calls \ Observed(conv, LastTalk(conv))
      BY DEF IInv, TurnOK, Round
    <2> QED BY <2>1, <2>2 DEF RoundsStayWhole, Whole
  <1> QED BY <1>1, Inductive, PTL

\* Every announced compaction that was neither cancelled nor cut in its flush
\* is closed by exactly one terminal.
THEOREM ClosedOnce == Spec => []OneTerminalUnlessCut
  <1>1. IInv => OneTerminalUnlessCut
    BY DEF IInv, ManagerOK
  <1> QED BY <1>1, Inductive, PTL

\* A step that announces the completion of a flight.
Completes(f) ==
  /\ Len(flights'[f].said) > Len(flights[f].said)
  /\ flights'[f].said[Len(flights'[f].said)] = "complete"

LEMMA FinishSilent ==
  ASSUME ManagerOK, NEW f \in Flights, NEW said \in {<<>>, <<"skipped">>}, Finish(f, said),
         NEW g \in Flights, Completes(g)
  PROVE  FALSE
  <1>1. PICK r : r = [NoFlight EXCEPT !.stage = "done", !.said = flights[f].said \o said,
                         !.cancelled = flights[f].cancelled,
                         !.flushCut = (flights[f].stage = "flush" /\ said # <<>>)]
    OBVIOUS
  <1>2. flights' = [flights EXCEPT ![f] = r] /\ r.said = flights[f].said \o said
    BY <1>1 DEF Finish, NoFlight
  <1>3. flights'[g] = IF g = f THEN r ELSE flights[g]
    BY <1>2 DEF ManagerOK
  <1>4. flights[g].said \in Seq(Closings)
    BY DEF ManagerOK, FlightOK, FlightSet
  <1>5. CASE g # f
    BY <1>3, <1>4, <1>5 DEF Completes
  <1>6. CASE g = f
    <2>1. PICK s : s = flights[f].said
      OBVIOUS
    <2>2. s \in Seq(Closings) /\ flights'[g].said = s \o said
      BY <1>2, <1>3, <1>4, <1>6, <2>1
    <2>3. CASE said = <<>>
      <3>1. Len(s \o said) = Len(s)
        BY <2>2, <2>3
      <3> QED BY <1>6, <2>1, <2>2, <3>1 DEF Completes
    <2>4. CASE said = <<"skipped">>
      <3>1. Len(s \o said) = Len(s) + 1 /\ (s \o said)[Len(s) + 1] = "skipped"
        BY <2>2, <2>4
      <3> QED BY <1>6, <2>1, <2>2, <3>1 DEF Completes
    <2> QED BY <2>3, <2>4
  <1> QED BY <1>5, <1>6

LEMMA SameSaid ==
  ASSUME ManagerOK, NEW g \in Flights, flights'[g].said = flights[g].said, Completes(g)
  PROVE  FALSE
  <1>1. flights[g].said \in Seq(Closings)
    BY DEF ManagerOK, FlightOK, FlightSet
  <1> QED BY <1>1 DEF Completes

\* Completion is announced only by the splice of the controller's own
\* conversation, which then opens with the summary of what was captured.
THEOREM CompletionIsReal == Spec => CompleteMeansCompacted
  <1> DEFINE Real == \A f \in Flights :
               Len(flights'[f].said) > Len(flights[f].said)
                  /\ flights'[f].said[Len(flights'[f].said)] = "complete"
               => /\ Len(conv') >= 2
                  /\ conv'[2].covers = StandsFor(flights[f].taken)
  <1>1. IInv /\ [Next]_vars => [Real]_vars
    <2> SUFFICES ASSUME IInv, Next, NEW g \in Flights, Completes(g)
                 PROVE  Len(conv') >= 2 /\ conv'[2].covers = StandsFor(flights[g].taken)
      BY DEF Completes
    <2>1. ManagerOK
      BY DEF IInv
    <2>2. CASE UNCHANGED flights
      BY <2>1, <2>2, SameSaid
    <2>3. CASE Started
      <3>1. flights'[g].said = <<>>
        BY <2>3 DEF Started, NoFlight
      <3>2. flights[g].said \in Seq(Closings)
        BY <2>1 DEF ManagerOK, FlightOK, FlightSet
      <3> QED BY <3>1, <3>2 DEF Completes
    <2>4. CASE Stop
      <3>1. flights[g] \in FlightSet
        BY <2>1 DEF ManagerOK, FlightOK
      <3>2. flights'[g].said = flights[g].said
        BY <2>4, <3>1 DEF Stop, FlightSet
      <3> QED BY <2>1, <3>2, SameSaid
    <2>5. ASSUME NEW f \in Flights, FlightStep(f)
          PROVE  Len(conv') >= 2 /\ conv'[2].covers = StandsFor(flights[g].taken)
      <3>1. CASE Splice(f)
        <4>1. CASE g = f
          BY <3>1, <4>1, SpliceInv
        <4>2. CASE g # f
          <5>1. flights'[g] = flights[g]
            BY <2>1, <3>1, <4>2 DEF Splice, ManagerOK
          <5> QED BY <2>1, <5>1, SameSaid
        <4> QED BY <4>1, <4>2
      <3>2. CASE \E said \in {<<>>, <<"skipped">>} : Finish(f, said)
        BY <2>1, <3>2, FinishSilent
      <3>3. CASE \E stage \in Stages : Go(f, stage)
        <4>1. flights'[g].said = flights[g].said
          <5>1. flights[g] \in FlightSet
            BY <2>1 DEF ManagerOK, FlightOK
          <5> QED BY <2>1, <3>3, <5>1 DEF Go, FlightSet, ManagerOK
        <4> QED BY <2>1, <4>1, SameSaid
      <3>4. CASE Capture(f)
        <4>1. PICK b \in Boundaries(conv) :
                \/ Finish(f, <<"skipped">>)
                \/ flights' = [flights EXCEPT ![f] = [@ EXCEPT
                     !.stage = "meta", !.room = room, !.boundary = b,
                     !.taken = Zone(conv, b), !.keepUser = (b > TurnBoundary(conv))]]
          BY <3>4 DEF Capture
        <4>2. CASE Finish(f, <<"skipped">>)
          BY <3>2, <4>2
        <4>3. CASE ~Finish(f, <<"skipped">>)
          <5>1. flights'[g].said = flights[g].said
            <6>1. flights[f] \in FlightSet
              BY <2>1 DEF ManagerOK, FlightOK
            <6>2. PICK r : r = [flights[f] EXCEPT
                       !.stage = "meta", !.room = room, !.boundary = b,
                       !.taken = Zone(conv, b), !.keepUser = (b > TurnBoundary(conv))]
              OBVIOUS
            <6>3. r.said = flights[f].said
              BY <6>1, <6>2 DEF FlightSet
            <6>4. flights' = [flights EXCEPT ![f] = r]
              BY <4>1, <4>3, <6>2
            <6> QED BY <2>1, <6>3, <6>4 DEF ManagerOK
          <5> QED BY <2>1, <5>1, SameSaid
        <4> QED BY <4>2, <4>3
      <3>5. CASE Cancelled(f)
        <4>1. PICK said : said = IF flights[f].stage = "persist" THEN <<>> ELSE <<"skipped">>
          OBVIOUS
        <4>2. said \in {<<>>, <<"skipped">>} /\ Finish(f, said)
          BY <3>5, <4>1 DEF Cancelled
        <4> QED BY <3>2, <4>2
      <3>6. "veto" \in Stages /\ "llm" \in Stages /\ "ownWait" \in Stages /\ "persist" \in Stages
        BY DEF Stages
      <3>7. CASE ~Splice(f) /\ ~Capture(f) /\ ~Cancelled(f)
        <4>1. \/ \E said \in {<<>>, <<"skipped">>} : Finish(f, said)
              \/ \E stage \in Stages : Go(f, stage)
          BY <2>5, <3>6, <3>7 DEF FlightStep, MetadataRead, Proceed, Vetoed, Fails,
             SummarizerOverflows, ConversationReplaced, SpliceRefused, Flushed, FlushFails, Persisted
        <4> QED BY <3>2, <3>3, <4>1
      <3> QED BY <3>1, <3>4, <3>5, <3>7
    <2>6. Turn \/ SwitchBranch \/ Rewind \/ StopReturns \/ TriggerCompact
            => UNCHANGED flights \/ Started
      BY DEF Turn, UserSays, Reply, HooksEnd, Announce, NextRound, TurnFails, OverflowRescue,
             OverflowDrop, RescueReturns, Result, SwitchBranch, Rewind, StopReturns, TriggerCompact,
             manager
    <2> QED BY <2>2, <2>3, <2>4, <2>5, <2>6 DEF Next
  <1> QED BY <1>1, Inductive, PTL DEF Spec, CompleteMeansCompacted, Real

=============================================================================
