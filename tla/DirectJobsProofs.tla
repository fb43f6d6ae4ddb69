-------------------------- MODULE DirectJobsProofs ---------------------------
(***************************************************************************)
(* Theorems about DirectJobs for any jobs, any number of inputs and any    *)
(* interventions: no outcome is told twice, the next model round has every *)
(* call paired, and a deferred output is never stranded.                   *)
(***************************************************************************)
EXTENDS DirectJobs, TLAPS

\* Results are those of jobs that ended unpromoted, and completion events those
\* of promoted jobs: promote() does nothing once the done callback has run.
Apart ==
  /\ \A j \in Jobs :
       /\ waiter[j] = "result" => j \in completed \ promoted
       /\ "result" \in reports[j] => j \in completed \ promoted
       /\ "event" \in reports[j] => j \in promoted
       /\ mode[j] = "declared" => j \in promoted
       /\ j \in calls => task[j] = "none"
       /\ j \in completed => task[j] = "done"
  /\ finished \subseteq Back /\ results \subseteq completed \ promoted
  /\ callback \subseteq promoted

\* The call has its tool message, or a direct job that will give it one: under an
\* id that still names the call, and not yet awaited, awaited, or collected.
Accounted(j) ==
  \/ j \in calls \cup paired \/ Displaced(j)
  \/ /\ j \in handles \cap named
     /\ turn = "round" \/ waiter[j] # "none" \/ j \in results

\* So it is with every call of the round, and the wait begins after the last of
\* them has been dispatched.
Paired ==
  /\ turn \in {"idle", "llm", "final"} => asked = {}
  /\ turn \in {"waiting", "reaping"} => calls = {}
  /\ \A j \in asked : Accounted(j)

\* The completion event of the job is in the inbox or still to come.
Comes(j) == Live(j) \/ (mode[j] # "declared" /\ j \notin completed) \/ j \in callback \cup inbox

\* So it is for every job that holds the output back, or may at the end of the
\* round, if its tool notifies.
Expected ==
  /\ handles # {} => turn \in {"round", "waiting", "reaping"}
  /\ \A j \in handles : mode[j] # "declared" /\ task[j] # "none"
  /\ owed \subseteq promoted
  /\ life = "up" => \A j \in (owed \cup (handles \cap promoted)) \ Quiet : Comes(j)

Inv == TypeOK /\ Apart /\ Paired /\ Expected

LEMMA InitInv == Init => Inv
  <1> SUFFICES ASSUME Init PROVE Inv
    OBVIOUS
  <1>1. TypeOK
    BY JobsAssumption DEF Init, TypeOK, Waiting
  <1>2. Apart /\ Paired /\ Expected
    BY DEF Init, Apart, Paired, Expected, Back
  <1> QED BY <1>1, <1>2 DEF Inv

------------------------------------------------------------------------------
(* The turn.                                                                 *)

LEMMA InputInv == Inv /\ InputArrives => Inv'
  <1> SUFFICES ASSUME Inv, InputArrives PROVE Inv'
    OBVIOUS
  <1> USE DEF Inv, InputArrives, jobVars, trackVars, waitVars, modelVars
  <1>1. TypeOK'
    BY DEF TypeOK, Put, PutArrival, Waiting
  <1>2. Apart' /\ Paired'
    BY DEF Apart, Paired, Accounted, Displaced, Back
  <1>3. Expected'
    BY DEF Expected, Comes, Live, Put
  <1> QED BY <1>1, <1>2, <1>3

LEMMA TurnStartsInv == Inv /\ TurnStarts => Inv'
  <1> SUFFICES ASSUME Inv, TurnStarts PROVE Inv'
    OBVIOUS
  <1> USE DEF Inv, TurnStarts, jobVars, trackVars, waitVars
  <1>1. TypeOK'
    BY DEF TypeOK, Waiting
  <1>2. Apart' /\ Paired'
    BY DEF Apart, Paired, Accounted, Displaced, Back
  <1>3. Expected'
    BY DEF Expected
  <1> QED BY <1>1, <1>2, <1>3

LEMMA AnnouncesInv == ASSUME Inv, NEW C \in SUBSET Jobs, Announces(C) PROVE Inv'
  <1> USE DEF Inv, Announces, Made, jobVars, trackVars, modelVars
  <1>1. TypeOK'
    BY DEF TypeOK, Waiting
  <1>2. Apart' /\ Paired'
    BY DEF Apart, Paired, Accounted, Displaced, Back
  <1>3. Expected'
    BY DEF Expected, Comes, Live
  <1> QED BY <1>1, <1>2, <1>3

LEMMA VetoedInv == ASSUME Inv, NEW j \in Jobs, Vetoed(j) PROVE Inv'
  <1> USE DEF Inv, Vetoed, IsNext, jobVars, trackVars, waitVars
  <1>1. TypeOK'
    BY DEF TypeOK, Waiting
  <1>2. Apart' /\ Paired'
    BY DEF Apart, Paired, Accounted, Displaced, Back
  <1>3. Expected'
    BY DEF Expected, Comes, Live
  <1> QED BY <1>1, <1>2, <1>3

LEMMA DispatchInv ==
  ASSUME Inv, NEW j \in Jobs, NEW m \in Modes, NEW fails \in BOOLEAN, Dispatch(j, m, fails)
  PROVE  Inv'
  <1> USE DEF Inv
  <1> DEFINE twins == Twins(j, fails)
  <1>1. /\ turn = "round" /\ j \in calls
        /\ calls' = calls \ {j}
        /\ failed \subseteq failed' /\ failed' \subseteq failed \cup {j}
        /\ mode' = [mode EXCEPT ![j] = m] /\ task' = [task EXCEPT ![j] = "running"]
        /\ noted' \subseteq noted \cup {j} /\ named' = (named \ twins) \cup {j}
        /\ active' \subseteq active \cup {j} /\ meta' \subseteq meta \cup {j}
        /\ UNCHANGED <<life, turn, asked, completed, callback, scheduled, finalizer, waiter,
                       finished, results, moved, arrival, inbox, unsent, reports, cut>>
    BY DEF Dispatch, IsNext
  <1>2. \/ /\ m = "direct" /\ handles' = (handles \ twins) \cup {j}
           /\ UNCHANGED <<promoted, owed, paired>>
        \/ /\ m # "direct" /\ promoted' = promoted \cup {j}
           /\ owed' \subseteq owed \cup {j} /\ handles' = handles
           /\ paired' = paired \cup {j}
    BY DEF Dispatch
  <1>0. twins \subseteq failed
    BY DEF Twins
  <1> HIDE DEF twins
  <1>3. TypeOK'
    <2>1. calls' \subseteq asked' /\ named' \subseteq Jobs /\ paired' \subseteq Jobs
      BY <1>1, <1>2 DEF TypeOK
    <2>2. /\ mode' \in [Jobs -> Modes \cup {"none"}]
          /\ task' \in [Jobs -> {"none", "running", "cancelling", "done"}]
      BY <1>1 DEF TypeOK
    <2>3. /\ handles' \subseteq Jobs /\ promoted' \subseteq Jobs /\ owed' \subseteq Jobs
          /\ failed' \subseteq Jobs
      BY <1>1, <1>2 DEF TypeOK
    <2> QED BY <1>1, <2>1, <2>2, <2>3 DEF TypeOK, Waiting
  <1>4. task[j] = "none" /\ j \notin completed /\ j \notin handles
    BY <1>1 DEF Apart, Expected, TypeOK
  <1>5. Apart'
    <2>1. \A i \in Jobs : /\ mode'[i] = IF i = j THEN m ELSE mode[i]
                          /\ task'[i] = IF i = j THEN "running" ELSE task[i]
      BY <1>1 DEF TypeOK
    <2>2. promoted' \subseteq promoted \cup {j} /\ promoted \subseteq promoted'
      BY <1>2
    <2>3. m = "declared" => j \in promoted'
      BY <1>2
    <2>4. Back' = Back
      BY <1>1 DEF Back
    <2> QED BY <1>1, <1>4, <2>1, <2>2, <2>3, <2>4 DEF Apart
  <1>6. Paired'
    <2> SUFFICES ASSUME NEW i \in asked PROVE Accounted(i)'
      BY <1>1 DEF Paired
    <2>1. CASE i = j
      BY <1>1, <1>2, <2>1 DEF Accounted
    <2>2. CASE i # j /\ i \in twins
      BY <1>0, <1>1, <2>2 DEF Accounted, Displaced
    <2>3. CASE i # j /\ i \notin twins
      <3>1. Accounted(i)
        BY DEF Paired
      <3>2. Displaced(i) => Displaced(i)'
        BY <1>1, <2>3 DEF Displaced
      <3> QED BY <1>1, <1>2, <2>3, <3>1, <3>2 DEF Accounted
    <2> QED BY <2>1, <2>2, <2>3
  <1>7. Expected'
    <2>1. \A i \in Jobs : /\ mode'[i] = IF i = j THEN m ELSE mode[i]
                          /\ task'[i] = IF i = j THEN "running" ELSE task[i]
      BY <1>1 DEF TypeOK
    <2>2. handles' \subseteq handles \cup {j} /\ (j \in handles' => m = "direct")
      BY <1>2, <1>4
    <2>3. owed' \subseteq promoted'
      BY <1>2 DEF Expected
    <2>4. (owed' \cup (handles' \cap promoted')) \ {j}
            \subseteq owed \cup (handles \cap promoted)
      BY <1>2
    <2>5. Comes(j)'
      BY <2>1 DEF Comes, Live
    <2>6. \A i \in Jobs \ {j} : Comes(i) => Comes(i)'
      BY <1>1, <2>1 DEF Comes, Live
    <2>7. handles \subseteq Jobs /\ owed' \cup handles' \subseteq Jobs
      BY <1>3 DEF TypeOK
    <2>8. \A i \in handles' : mode'[i] # "declared" /\ task'[i] # "none"
      BY <2>1, <2>2, <2>7 DEF Expected
    <2>9. life' = "up" => \A i \in (owed' \cup (handles' \cap promoted')) \ Quiet : Comes(i)'
      BY <1>1, <2>4, <2>5, <2>6, <2>7 DEF Expected
    <2> QED BY <1>1, <2>3, <2>8, <2>9 DEF Expected
  <1> QED BY <1>3, <1>5, <1>6, <1>7

\* A job whose completion is in the inbox is owed no more.
LEMMA ReleasedLess ==
  ASSUME NEW S, S \subseteq Jobs PROVE Released(S) \subseteq S \ inbox
  BY DEF Released, Alias, Same

LEMMA EndOfLoopInv ==
  ASSUME Inv, RoundEndsWithoutJobs \/ Terminates \/ TurnEnds PROVE Inv'
  <1> USE DEF Inv, jobVars, trackVars
  <1>1. CASE RoundEndsWithoutJobs
    <2>1. /\ paired' = paired \cup Answered({}) /\ reports' = Told({}, "result")
          /\ owed' \subseteq owed \ inbox /\ inbox' = {}
          /\ turn' \in {"llm", "final"}
          /\ NoWait /\ arrival' = "none"
          /\ UNCHANGED <<life, calls, mode, failed, task, completed, promoted, callback,
                         trackVars, unsent, cut>>
      <3>1. owed' = Released(owed)
        BY <1>1 DEF RoundEndsWithoutJobs, Feedback
      <3>2. Released(owed) \subseteq owed \ inbox
        BY ReleasedLess DEF TypeOK
      <3> QED BY <1>1, <3>1, <3>2 DEF RoundEndsWithoutJobs, Feedback
    <2>2. reports' = reports /\ paired' = paired
      BY <2>1 DEF TypeOK, Told, Answered, Alias
    <2>3. TypeOK'
      BY <1>1, <2>1, <2>2 DEF TypeOK, NoWait, Waiting, RoundEndsWithoutJobs
    <2>4. Apart' /\ Paired'
      BY <1>1, <2>1, <2>2 DEF Apart, Paired, NoWait, Back, RoundEndsWithoutJobs
    <2>5. Expected'
      BY <2>1 DEF Expected, NoWait, Comes, Live
    <2> QED BY <2>3, <2>4, <2>5
  <1>2. CASE Terminates
    <2>1. TypeOK'
      BY <1>2 DEF Terminates, TypeOK, NoWait, Waiting
    <2>2. Apart' /\ Paired'
      BY <1>2 DEF Terminates, Apart, Paired, NoWait, Back
    <2>3. Expected'
      BY <1>2 DEF Terminates, Expected, NoWait
    <2> QED BY <2>1, <2>2, <2>3
  <1>3. CASE TurnEnds
    <2> USE DEF TurnEnds, waitVars, modelVars
    <2>1. TypeOK'
      BY <1>3 DEF TypeOK, Waiting
    <2>2. Apart' /\ Paired'
      BY <1>3 DEF Apart, Paired, Accounted, Displaced, Back
    <2>3. Expected'
      BY <1>3 DEF Expected, Comes, Live
    <2> QED BY <2>1, <2>2, <2>3
  <1> QED BY <1>1, <1>2, <1>3
\* Promoting jobs that have not completed keeps results and events apart, and
\* the completion event of a promoted job is still to come.
LEMMA RoundEndsInv == Inv /\ RoundEnds => Inv'
  <1> SUFFICES ASSUME Inv, RoundEnds PROVE Inv'
    OBVIOUS
  <1> USE DEF Inv
  <1>1. /\ turn = "round" /\ turn' = "waiting" /\ arrival' = "created"
        /\ waiter' = [j \in Jobs |-> IF j \in handles THEN "on" ELSE "none"]
        /\ promoted \subseteq promoted'
        /\ promoted' \subseteq promoted \cup (handles \ completed)
        /\ calls = {}
        /\ UNCHANGED <<life, calls, mode, failed, task, completed, callback, trackVars, asked,
                       handles, named, finished, results, moved, inbox, unsent, modelVars>>
    BY DEF RoundEnds, WaitTop, Promotable
  <1>2. finished = {}
    BY <1>1 DEF TypeOK
  <1>3. TypeOK'
    BY <1>1, <1>2 DEF TypeOK, Waiting, trackVars, modelVars
  <1>4. Apart'
    BY <1>1, <1>2 DEF Apart, Back, TypeOK, modelVars
  <1>5. Paired'
    BY <1>1 DEF Paired, Accounted, Displaced, TypeOK, modelVars
  <1>6. Expected'
    BY <1>1 DEF Expected, Comes, Live, TypeOK, modelVars
  <1> QED BY <1>3, <1>4, <1>5, <1>6

\* The pieces a pass of the wait is made of: the waiters D it looks at, the
\* promotions P among them and the results R.
LEMMA PassSplits ==
  ASSUME Inv, NEW D, D \subseteq Back, NEW P, NEW R,
         P = {j \in D : waiter[j] = "promotion"}, R = D \ P
  PROVE  /\ D \subseteq Waiting /\ D \subseteq Jobs
         /\ R \subseteq completed \ promoted
  BY DEF Inv, TypeOK, Apart, Back, Waiting

\* The last pass, with the feedback that follows.
LEMMA LastPassInv ==
  ASSUME Inv, NEW D, D \subseteq Back, turn \in {"waiting", "reaping"},
         Reap(D), Waiting \subseteq D
  PROVE  Inv' /\ \A j \in asked : j \in paired' \/ Displaced(j)
  <1> USE DEF Inv
  <1> DEFINE P   == {j \in D : waiter[j] = "promotion"}
             R   == D \ P
             all == results \cup R
  <1>1. /\ active' \subseteq active /\ noted' \subseteq noted /\ meta' \subseteq meta
        /\ Feedback(all, P, R, moved \/ P # {})
        /\ UNCHANGED <<life, calls, mode, failed, task, completed, callback, scheduled,
                       finalizer, unsent, cut>>
        /\ promoted' = promoted /\ calls = {}
    BY DEF Reap, Paired
  <1>2. /\ D \subseteq Jobs /\ R \subseteq completed \ promoted
        /\ P \subseteq Jobs /\ D = P \cup R
    BY PassSplits
  <1> HIDE DEF P, R
  <1>3. /\ paired' = paired \cup Answered(all \cup P) /\ reports' = Told(all, "result")
        /\ owed' \subseteq (owed \cup (handles \cap promoted)) \ inbox
        /\ inbox' = {} /\ turn' \in {"llm", "final"}
        /\ NoWait /\ arrival' = "none"
    <2> DEFINE kept == IF moved \/ P # {} THEN owed \cup OwedAfterWait(R) ELSE owed
    <2>1. kept \subseteq owed \cup (handles \cap promoted)
      BY DEF OwedAfterWait
    <2>2. owed' = Released(kept)
      BY <1>1 DEF Feedback
    <2>3. kept \subseteq Jobs
      BY <2>1 DEF TypeOK
    <2> HIDE DEF kept
    <2>4. owed' \subseteq kept \ inbox
      BY <2>2, <2>3, ReleasedLess
    <2> QED BY <1>1, <2>1, <2>4 DEF Feedback
  <1>4. all \subseteq completed \ promoted /\ all \subseteq Jobs
    BY <1>2 DEF Apart, TypeOK
  <1>5. \A j \in Jobs : reports'[j] = IF j \in all THEN reports[j] \cup {"result"}
                                                   ELSE reports[j]
    BY <1>3 DEF Told
  <1>6. TypeOK'
    <2>1. paired' \subseteq Jobs
      BY <1>3 DEF TypeOK, Answered
    <2>2. reports' \in [Jobs -> SUBSET {"result", "cut", "event"}]
      BY <1>3 DEF TypeOK, Told
    <2>3. /\ owed' \subseteq Jobs /\ inbox' \subseteq Jobs \cup {"input"}
          /\ active' \subseteq Jobs /\ noted' \subseteq Jobs /\ meta' \subseteq Jobs
      BY <1>1, <1>3 DEF TypeOK
    <2> QED BY <1>1, <1>3, <2>1, <2>2, <2>3 DEF TypeOK, NoWait, Waiting
  <1> HIDE DEF all
  <1>7. Apart'
    <2>1. /\ \A j \in Jobs : waiter'[j] = "none"
          /\ finished' = {} /\ results' = {}
      BY <1>3 DEF NoWait
    <2>2. \A j \in Jobs : "result" \in reports'[j] => "result" \in reports[j] \/ j \in all
      BY <1>5
    <2>3. ASSUME NEW j \in Jobs, "event" \in reports'[j] PROVE "event" \in reports[j]
      <3>1. reports'[j] \subseteq reports[j] \cup {"result"}
        BY <1>5
      <3> QED BY <2>3, <3>1
    <2> QED BY <1>1, <1>4, <2>1, <2>2, <2>3 DEF Apart
  <1>8. Paired'
    BY <1>1, <1>3 DEF Paired, NoWait
  <1>9. Expected'
    BY <1>1, <1>3 DEF Expected, NoWait, Comes, Live
  <1>10. \A j \in asked : j \in paired' \/ Displaced(j)
    <2> SUFFICES ASSUME NEW j \in asked, ~Displaced(j) PROVE j \in paired'
      OBVIOUS
    <2>1. j \in Jobs /\ Accounted(j)
      BY DEF TypeOK, Paired
    <2>2. waiter[j] # "none" => j \in all \cup P
      BY <2>1, <1>2 DEF Waiting, all
    <2>3. j \in paired \/ (j \in named /\ j \in all \cup P)
      BY <1>1, <2>1, <2>2 DEF Accounted, all
    <2> QED BY <1>3, <2>1, <2>3 DEF Answered, Alias, Same
  <1> QED BY <1>6, <1>7, <1>8, <1>9, <1>10

\* A pass after which the turn waits again.
LEMMA PassInv ==
  ASSUME Inv, NEW D, D \subseteq Back, turn \in {"waiting", "reaping"},
         Reap(D), ~(Waiting \subseteq D)
  PROVE  Inv' /\ turn' = "waiting"
  <1> USE DEF Inv
  <1> DEFINE P   == {j \in D : waiter[j] = "promotion"}
             R   == D \ P
  <1>1. /\ active' \subseteq active /\ noted' \subseteq noted /\ meta' \subseteq meta
        /\ WaitTop(Waiting \ D)
        /\ waiter' = [j \in Jobs |-> IF j \in D THEN "none" ELSE waiter[j]]
        /\ paired' = paired \cup Answered(P)
        /\ results' = results \cup R /\ moved' = (moved \/ P # {}) /\ finished' = {}
        /\ UNCHANGED <<asked, handles, named, inbox, owed, reports>>
        /\ UNCHANGED <<life, calls, mode, failed, task, completed, callback, scheduled,
                       finalizer, unsent, cut>>
    BY DEF Reap
  <1>2. /\ D \subseteq Jobs /\ R \subseteq completed \ promoted
        /\ P \subseteq Jobs /\ D = P \cup R
    BY PassSplits
  <1>3. moved' \in BOOLEAN
    BY <1>1 DEF TypeOK
  <1> HIDE DEF P, R
  <1>4. /\ turn' = "waiting" /\ arrival' = "created"
        /\ promoted \subseteq promoted' /\ promoted' \cap completed = promoted \cap completed
        /\ promoted' \subseteq Jobs
    BY <1>1 DEF WaitTop, Promotable, Waiting, TypeOK
  <1>5. paired' \subseteq Jobs
    BY <1>1 DEF TypeOK, Answered
  <1>6. \A j \in Jobs : waiter'[j] = IF j \in D THEN "none" ELSE waiter[j]
    BY <1>1
  <1>7. TypeOK'
    <2>1. waiter' \in [Jobs -> {"none", "on", "result", "promotion"}]
      BY <1>1 DEF TypeOK
    <2>2. results' \subseteq Jobs
      BY <1>1, <1>2 DEF TypeOK
    <2> QED BY <1>1, <1>3, <1>4, <1>5, <2>1, <2>2 DEF TypeOK
  <1>8. Apart'
    BY <1>1, <1>2, <1>4, <1>6 DEF Apart
  <1>9. Paired'
    <2> SUFFICES ASSUME NEW j \in asked PROVE Accounted(j)'
      BY <1>1, <1>4 DEF Paired
    <2>1. j \in Jobs /\ Accounted(j)
      BY DEF TypeOK, Paired
    <2>2. (Displaced(j) => Displaced(j)') /\ (j \in calls \cup paired => j \in (calls \cup paired)')
      BY <1>1 DEF Displaced
    <2>3. CASE j \in handles \cap named /\ j \in P
      BY <1>1, <2>1, <2>3 DEF Accounted, Answered, Alias, Same
    <2>4. CASE j \in handles \cap named /\ j \in R
      BY <1>1, <2>4 DEF Accounted
    <2>5. CASE j \in handles \cap named /\ j \notin D
      BY <1>1, <1>6, <2>1, <2>2, <2>5 DEF Accounted
    <2> QED BY <1>1, <1>2, <2>1, <2>2, <2>3, <2>4, <2>5 DEF Accounted
  <1>10. Expected'
    <2>1. handles \subseteq Jobs
      BY DEF TypeOK
    <2>2. \A j \in handles \cap promoted' : j \in promoted \/ j \notin completed
      BY <1>4
    <2>3. life' = "up" => \A j \in (owed' \cup (handles' \cap promoted')) \ Quiet : Comes(j)'
      BY <2>1, <2>2, <1>1 DEF Expected, Comes, Live
    <2> QED BY <1>1, <1>4, <2>3 DEF Expected
  <1> QED BY <1>4, <1>7, <1>8, <1>9, <1>10

LEMMA WokenInv ==
  ASSUME Inv, WokenByPut \/ WokenByWaiter \/ ReapsFinished PROVE Inv'
  <1> USE DEF Inv
  <1>1. CASE WokenByPut
    BY <1>1, LastPassInv, PassInv DEF WokenByPut
  <1>2. CASE WokenByWaiter
    <2> USE DEF WokenByWaiter, jobVars, trackVars, modelVars
    <2>1. TypeOK'
      BY <1>2 DEF TypeOK, Waiting, Back
    <2>2. Apart' /\ Paired'
      BY <1>2 DEF Apart, Paired, Accounted, Displaced, Back
    <2>3. Expected'
      BY <1>2 DEF Expected, Comes, Live
    <2> QED BY <2>1, <2>2, <2>3
  <1>3. CASE ReapsFinished
    BY <1>3, LastPassInv, PassInv DEF ReapsFinished, Apart
  <1> QED BY <1>1, <1>2, <1>3
LEMMA WaitersInv ==
  ASSUME Inv, ArrivalParks \/ \E j \in Jobs : WaiterReturns(j) PROVE Inv'
  <1> USE DEF Inv, jobVars, trackVars, modelVars
  <1>1. CASE ArrivalParks
    <2> USE DEF ArrivalParks, waitVars
    <2>1. TypeOK'
      BY <1>1 DEF TypeOK, Waiting
    <2>2. Apart' /\ Paired'
      BY <1>1 DEF Apart, Paired, Accounted, Displaced, Back
    <2>3. Expected'
      BY <1>1 DEF Expected, Comes, Live
    <2> QED BY <2>1, <2>2, <2>3
  <1>2. CASE \E j \in Jobs : WaiterReturns(j)
    <2>1. PICK j \in Jobs : WaiterReturns(j)
      BY <1>2
    <2> USE DEF WaiterReturns
    <2>2. /\ waiter[j] = "on"
          /\ \A i \in Jobs \ {j} : waiter'[i] = waiter[i]
          /\ \/ waiter'[j] = "promotion"
             \/ waiter'[j] = "result" /\ j \in completed \ promoted
          /\ waiter' \in [Jobs -> {"none", "on", "result", "promotion"}]
      BY <2>1 DEF TypeOK
    <2>3. TypeOK'
      BY <2>1, <2>2 DEF TypeOK, Waiting
    <2>4. Apart'
      <3>1. Back \subseteq Back'
        BY <2>2 DEF Back
      <3> QED BY <2>1, <2>2, <3>1 DEF Apart
    <2>5. Paired'
      BY <2>1, <2>2 DEF Paired, Accounted, Displaced, TypeOK
    <2>6. Expected'
      BY <2>1 DEF Expected, Comes, Live
    <2> QED BY <2>3, <2>4, <2>5, <2>6
  <1> QED BY <1>1, <1>2

------------------------------------------------------------------------------
(* The jobs and the interventions.                                           *)

LEMMA TaskEndsInv == ASSUME Inv, NEW j \in Jobs, TaskEnds(j) PROVE Inv'
  <1> USE DEF Inv
  <1>1. /\ Live(j) /\ task' = [task EXCEPT ![j] = "done"]
        /\ UNCHANGED <<life, turn, calls, mode, failed, completed, promoted, callback,
                       trackVars, waitVars, unsent, owed, paired, cut>>
    BY DEF TaskEnds
  <1>2. \/ /\ mode[j] = "declared" /\ inbox' = inbox \cup {j} /\ arrival' = PutArrival
           /\ reports' = Told({j}, "event")
        \/ /\ mode[j] = "declared" /\ life = "up" => j \in Quiet
           /\ UNCHANGED <<inbox, arrival, reports>>
    BY DEF TaskEnds, Put, Notifies
  <1>3. /\ \A i \in Jobs : task'[i] = IF i = j THEN "done" ELSE task[i]
        /\ task' \in [Jobs -> {"none", "running", "cancelling", "done"}]
    BY <1>1 DEF TypeOK
  <1>4. /\ reports' \in [Jobs -> SUBSET {"result", "cut", "event"}]
        /\ \A i \in Jobs : "result" \in reports'[i] => "result" \in reports[i]
        /\ \A i \in Jobs : "event" \in reports'[i]
                             => "event" \in reports[i] \/ (i = j /\ mode[j] = "declared")
    BY <1>2 DEF TypeOK, Told
  <1>5. inbox \subseteq inbox' /\ inbox' \subseteq inbox \cup {j}
        /\ arrival' \in {"none", "created", "parked", "fired"}
    BY <1>2 DEF PutArrival, TypeOK
  <1>6. TypeOK'
    BY <1>1, <1>3, <1>4, <1>5 DEF TypeOK, trackVars, waitVars, Waiting
  <1>7. Apart'
    BY <1>1, <1>3, <1>4 DEF Apart, waitVars, Back, Live
  <1>8. Paired'
    BY <1>1 DEF Paired, Accounted, Displaced, waitVars
  <1>9. Expected'
    <2>1. j \notin completed
      BY <1>1 DEF Apart, Live
    <2>2. life = "up" /\ j \notin Quiet => Comes(j)'
      BY <1>1, <1>2, <2>1 DEF Comes
    <2>3. \A i \in Jobs \ {j} : Comes(i) => Comes(i)'
      BY <1>1, <1>3, <1>5 DEF Comes, Live
    <2>4. handles \subseteq Jobs /\ owed \subseteq Jobs
      BY DEF TypeOK
    <2> QED BY <1>1, <1>3, <2>2, <2>3, <2>4 DEF Expected, waitVars
  <1> QED BY <1>6, <1>7, <1>8, <1>9

LEMMA DoneCallbackInv == ASSUME Inv, NEW j \in Jobs, DoneCallback(j) PROVE Inv'
  <1> USE DEF Inv, DoneCallback, trackVars, waitVars, modelVars
  <1>1. TypeOK'
    BY DEF TypeOK, Waiting
  <1>2. Apart' /\ Paired'
    BY DEF Apart, Paired, Accounted, Displaced, Back
  <1>3. Expected'
    BY DEF Expected, Comes, Live, TypeOK
  <1> QED BY <1>1, <1>2, <1>3

LEMMA BackgroundCompletesInv ==
  ASSUME Inv, NEW j \in Jobs, BackgroundCompletes(j) PROVE Inv'
  <1> USE DEF Inv
  <1>1. /\ j \in callback /\ callback' = callback \ {j}
        /\ ClearTracking({j})
        /\ UNCHANGED <<life, turn, calls, mode, failed, task, completed, promoted, scheduled,
                       finalizer, waitVars, unsent, owed, paired, cut>>
    BY DEF BackgroundCompletes
  <1>2. \/ /\ inbox' = inbox \cup {j} /\ arrival' = PutArrival
           /\ reports' = Told({j}, "event")
        \/ /\ life = "up" => j \in Quiet
           /\ UNCHANGED <<inbox, arrival, reports>>
    BY DEF BackgroundCompletes, Put, Notifies
  <1>3. /\ reports' \in [Jobs -> SUBSET {"result", "cut", "event"}]
        /\ \A i \in Jobs : "result" \in reports'[i] => "result" \in reports[i]
        /\ \A i \in Jobs : "event" \in reports'[i] => "event" \in reports[i] \/ i = j
    BY <1>2 DEF TypeOK, Told
  <1>4. inbox \subseteq inbox' /\ inbox' \subseteq inbox \cup {j}
        /\ arrival' \in {"none", "created", "parked", "fired"}
    BY <1>2 DEF PutArrival, TypeOK
  <1>5. TypeOK'
    BY <1>1, <1>3, <1>4 DEF TypeOK, ClearTracking, waitVars, Waiting
  <1>6. Apart'
    BY <1>1, <1>3 DEF Apart, waitVars, Back
  <1>7. Paired'
    BY <1>1 DEF Paired, Accounted, Displaced, waitVars
  <1>8. Expected'
    <2>1. life = "up" /\ j \notin Quiet => Comes(j)'
      BY <1>1, <1>2 DEF Comes
    <2>2. \A i \in Jobs \ {j} : Comes(i) => Comes(i)'
      BY <1>1, <1>4 DEF Comes, Live
    <2>3. handles \subseteq Jobs /\ owed \subseteq Jobs
      BY DEF TypeOK
    <2> QED BY <1>1, <2>1, <2>2, <2>3 DEF Expected, waitVars
  <1> QED BY <1>5, <1>6, <1>7, <1>8

LEMMA FinalizerInv ==
  ASSUME Inv, NEW j \in Jobs, FinalizerStarts(j) \/ \E k \in Jobs : FinalizerEnds(j, k)
  PROVE  Inv'
  <1> USE DEF Inv, jobVars, waitVars
  <1>1. CASE FinalizerStarts(j)
    <2> USE DEF FinalizerStarts, modelVars
    <2>1. TypeOK'
      BY <1>1 DEF TypeOK, Waiting
    <2>2. Apart' /\ Paired'
      BY <1>1 DEF Apart, Paired, Accounted, Displaced, Back
    <2>3. Expected'
      BY <1>1 DEF Expected, Comes, Live
    <2> QED BY <2>1, <2>2, <2>3
  <1>2. CASE \E k \in Jobs : FinalizerEnds(j, k)
    <2>1. PICK k \in Jobs :
            /\ finalizer' = finalizer \ {<<j, k>>}
            /\ paired' = paired \cup {k}
            /\ reports' = IF k \in paired THEN reports ELSE Told({j}, "cut")
            /\ ClearTracking({j})
            /\ UNCHANGED <<life, turn, calls, jobVars, scheduled, waitVars, arrival, inbox,
                           unsent, owed, cut>>
      BY <1>2 DEF FinalizerEnds
    <2>2. paired' \subseteq Jobs /\ finalizer' \subseteq Jobs \X Jobs
      BY <2>1 DEF TypeOK
    <2>3. /\ reports' \in [Jobs -> SUBSET {"result", "cut", "event"}]
          /\ \A i \in Jobs, h \in {"result", "event"} : h \in reports'[i] => h \in reports[i]
      BY <2>1 DEF Told, TypeOK
    <2>4. TypeOK'
      <3>1. active' \subseteq Jobs /\ meta' \subseteq Jobs /\ noted' \subseteq Jobs
        BY <2>1 DEF TypeOK, ClearTracking
      <3>2. Waiting' = Waiting /\ moved' \in BOOLEAN
        BY <2>1 DEF Waiting, TypeOK
      <3> QED BY <2>1, <2>2, <2>3, <3>1, <3>2 DEF TypeOK
    <2>5. Apart'
      BY <2>1, <2>3 DEF Apart, Back
    <2>6. Paired'
      BY <2>1 DEF Paired, Accounted, Displaced
    <2>7. Expected'
      BY <2>1 DEF Expected, Comes, Live
    <2> QED BY <2>4, <2>5, <2>6, <2>7
  <1> QED BY <1>1, <1>2

\* A job that is cancelled is still alive.
LEMMA CancelsKeepAlive ==
  ASSUME TypeOK, NEW S \in SUBSET Jobs, \A j \in S : Live(j),
         task' = [j \in Jobs |-> IF j \in S THEN "cancelling" ELSE task[j]]
  PROVE  /\ task' \in [Jobs -> {"none", "running", "cancelling", "done"}]
         /\ \A j \in Jobs : Live(j) => Live(j)'
         /\ \A j \in Jobs : task[j] = "none" <=> task'[j] = "none"
         /\ \A j \in Jobs : task[j] = "done" <=> task'[j] = "done"
  <1>1. \A j \in Jobs : task'[j] = IF j \in S THEN "cancelling" ELSE task[j]
    OBVIOUS
  <1>2. \A j \in S : task[j] \in {"running", "cancelling"}
    BY DEF Live
  <1>3. task' \in [Jobs -> {"none", "running", "cancelling", "done"}]
    BY DEF TypeOK
  <1>4. \A j \in Jobs : Live(j) => Live(j)'
    BY <1>1 DEF Live
  <1> QED BY <1>1, <1>2, <1>3, <1>4

\* Cancelling the tasks of S, and the turn too or not.
LEMMA CancelInv ==
  ASSUME Inv, NEW S \in SUBSET Jobs, \A j \in S : Live(j),
         task' = [j \in Jobs |-> IF j \in S THEN "cancelling" ELSE task[j]],
         scheduled' \subseteq Jobs,
         life' \in {"up", "ended", "stopping", "stopped"}, life' = "up" => life = "up",
         UNCHANGED <<mode, failed, completed, promoted, callback, active, meta, noted,
                     finalizer, inbox, unsent, owed, paired, reports>>,
         UNCHANGED <<turn, calls, waitVars, arrival, cut>> \/ (Unwinds /\ cut' \subseteq Jobs)
  PROVE  Inv'
  <1> USE DEF Inv
  <1>1. /\ task' \in [Jobs -> {"none", "running", "cancelling", "done"}]
        /\ \A j \in Jobs : Live(j) => Live(j)'
        /\ \A j \in Jobs : task[j] = "none" <=> task'[j] = "none"
        /\ \A j \in Jobs : task[j] = "done" <=> task'[j] = "done"
    BY CancelsKeepAlive
  <1>2. handles \subseteq Jobs /\ owed \subseteq Jobs
    BY DEF TypeOK
  <1>3. CASE UNCHANGED <<turn, calls, waitVars, arrival, cut>>
    <2>1. TypeOK'
      BY <1>1, <1>3 DEF TypeOK, waitVars, Waiting
    <2>2. Apart'
      BY <1>1, <1>3 DEF Apart, waitVars, Back
    <2>3. Paired'
      BY <1>3 DEF Paired, Accounted, Displaced, waitVars
    <2>4. Expected'
      BY <1>1, <1>2, <1>3 DEF Expected, waitVars, Comes
    <2> QED BY <2>1, <2>2, <2>3, <2>4
  <1>4. CASE Unwinds /\ cut' \subseteq Jobs
    <2>1. /\ turn' \in {"idle", "final"} /\ calls' = {} /\ arrival' = "none"
          /\ handles' = {} /\ finished' = {} /\ results' = {} /\ moved' = FALSE
          /\ waiter' = [j \in Jobs |-> "none"] /\ asked' = {} /\ named' = {}
      BY <1>4 DEF Unwinds, InTurn, NoWait, TypeOK
    <2>2. TypeOK'
      <3>1. Waiting' = {} /\ moved' \in BOOLEAN
        BY <2>1 DEF Waiting
      <3>2. waiter' \in [Jobs -> {"none", "on", "result", "promotion"}]
        BY <2>1
      <3> QED BY <1>1, <1>4, <2>1, <3>1, <3>2 DEF TypeOK
    <2>3. Apart'
      BY <1>1, <2>1 DEF Apart, Back
    <2>4. Paired'
      BY <2>1 DEF Paired
    <2>5. Expected'
      BY <1>1, <1>2, <2>1 DEF Expected, Comes
    <2> QED BY <2>2, <2>3, <2>4, <2>5
  <1> QED BY <1>3, <1>4
LEMMA InterventionInv == Inv /\ (Intervention \/ StopCancelsTasks) => Inv'
  <1> SUFFICES ASSUME Inv, Intervention \/ StopCancelsTasks PROVE Inv'
    OBVIOUS
  <1> USE DEF Inv
  <1>1. \A S \in SUBSET Jobs :
          InterruptJobs(S) => scheduled' \subseteq Jobs
    BY DEF InterruptJobs, TypeOK
  <1>2. \A j \in Jobs : Live(j) => Live(j) /\ task[j] # "done"
    BY DEF Live
  <1>3. Interruptible \in SUBSET Jobs /\ \A j \in Interruptible : Live(j)
    BY DEF Interruptible, TypeOK
  <1>4. life \in {"up", "ended", "stopping", "stopped"} /\ handles \subseteq Jobs
    BY DEF TypeOK
  <1>5. ASSUME NEW j \in Jobs, CancelJob(j) PROVE Inv'
    <2>1. /\ task[j] = "running"
          /\ UNCHANGED <<life, turn, calls, mode, failed, completed, promoted, callback,
                         active, meta, noted, finalizer, waitVars, arrival, inbox, unsent,
                         modelVars>>
      BY <1>5 DEF CancelJob
    <2>2. task' = [i \in Jobs |-> IF i \in {j} THEN "cancelling" ELSE task[i]]
      BY <1>5 DEF CancelJob, InterruptJobs, TypeOK
    <2>3. scheduled' \subseteq Jobs
      BY <1>1, <1>5 DEF CancelJob, TypeOK
    <2>4. {j} \in SUBSET Jobs /\ \A i \in {j} : Live(i)
      BY <2>1 DEF Live
    <2> QED BY <1>4, <2>1, <2>2, <2>3, <2>4, CancelInv DEF modelVars
  <1>6. ASSUME NEW j \in Jobs, PromoteJob(j) PROVE Inv'
    <2> USE <1>6 DEF PromoteJob, Promotable, trackVars, waitVars, modelVars
    <2>1. TypeOK'
      BY DEF TypeOK, Waiting
    <2>2. Apart' /\ Paired'
      BY DEF Apart, Paired, Accounted, Displaced, Back
    <2>3. Expected'
      BY DEF Expected, Comes, Live
    <2> QED BY <2>1, <2>2, <2>3
  <1>7. ASSUME Interrupt PROVE Inv'
    <2>1. /\ life' = life /\ Unwinds /\ InterruptJobs(Interruptible)
          /\ cut' \subseteq Jobs
          /\ UNCHANGED <<mode, failed, completed, promoted, callback, active, meta, noted,
                         finalizer, inbox, unsent, owed, paired, reports>>
      BY <1>7 DEF Interrupt, TypeOK
    <2>2. task' = [j \in Jobs |-> IF j \in Interruptible THEN "cancelling" ELSE task[j]]
      BY <2>1 DEF InterruptJobs
    <2> QED BY <1>1, <1>3, <1>4, <2>1, <2>2, CancelInv
  <1>8. ASSUME StopCancelsTasks PROVE Inv'
    <2> DEFINE S == {j \in Jobs : Live(j) /\ j \notin failed}
    <2>1. /\ life' = "stopped"
          /\ task' = [j \in Jobs |-> IF j \in S THEN "cancelling" ELSE task[j]]
          /\ scheduled' \subseteq Jobs
          /\ UNCHANGED <<turn, calls, mode, failed, completed, promoted, callback, active,
                         meta, noted, finalizer, waitVars, arrival, inbox, unsent, modelVars>>
      BY <1>8 DEF StopCancelsTasks, trackVars, TypeOK
    <2>2. S \in SUBSET Jobs /\ \A j \in S : Live(j)
      OBVIOUS
    <2> HIDE DEF S
    <2> QED BY <2>1, <2>2, CancelInv DEF modelVars
  <1>9. ASSUME Stop PROVE Inv'
    <2>0. PICK S :
            /\ S \subseteq meta
            /\ life' = "stopping" /\ Unwinds
            /\ cut' = cut \cup {i \in handles \ promoted : ~Live(i)}
            /\ paired' = paired \cup S /\ reports' = Told(S, "cut") /\ unsent' = 0
            /\ UNCHANGED <<jobVars, trackVars, inbox, owed>>
      <3> DEFINE busy == scheduled \cup {k \in Jobs : \E i \in Jobs : <<k, i>> \in finalizer}
                 T == {i \in meta \ failed : task[i] = "running" \/ (Live(i) /\ i \in busy)}
      <3>1. T \subseteq meta
        OBVIOUS
      <3>2. paired' = paired \cup T /\ reports' = Told(T, "cut")
        BY <1>9 DEF Stop
      <3> HIDE DEF T, busy
      <3> QED BY <1>9, <3>1, <3>2 DEF Stop
    <2>1. S \in SUBSET Jobs /\ cut' \subseteq Jobs
      BY <2>0 DEF TypeOK
    <2>2. paired' \subseteq Jobs
      BY <2>0, <2>1 DEF TypeOK
    <2>3. /\ reports' \in [Jobs -> SUBSET {"result", "cut", "event"}]
          /\ \A i \in Jobs, h \in {"result", "event"} : h \in reports'[i] => h \in reports[i]
      BY <2>0, <2>1 DEF Told, TypeOK
    <2>4. /\ turn' \in {"idle", "final"} /\ calls' = {} /\ arrival' = "none"
          /\ handles' = {} /\ finished' = {} /\ results' = {} /\ moved' = FALSE
          /\ waiter' = [j \in Jobs |-> "none"] /\ asked' = {} /\ named' = {}
      BY <2>0, <2>1 DEF Unwinds, InTurn, NoWait, TypeOK
    <2>5. TypeOK'
      <3>1. Waiting' = {} /\ moved' \in BOOLEAN
        BY <2>4 DEF Waiting
      <3>2. waiter' \in [Jobs -> {"none", "on", "result", "promotion"}]
        BY <2>4
      <3> QED BY <2>0, <2>1, <2>2, <2>3, <2>4, <3>1, <3>2 DEF TypeOK, jobVars, trackVars
    <2>6. Apart'
      BY <2>0, <2>1, <2>3, <2>4 DEF Apart, jobVars, Back
    <2>7. Paired' /\ Expected'
      BY <2>0, <2>1, <2>4 DEF Paired, Expected, jobVars
    <2> QED BY <2>5, <2>6, <2>7
  <1> QED BY <1>5, <1>6, <1>7, <1>8, <1>9, InputInv, EndOfLoopInv DEF Intervention

LEMMA StutterInv == Inv /\ UNCHANGED vars => Inv'
  <1> SUFFICES ASSUME Inv, UNCHANGED vars PROVE Inv'
    OBVIOUS
  <1> USE DEF Inv, vars, jobVars, trackVars, waitVars, modelVars
  <1>1. TypeOK'
    BY DEF TypeOK, Waiting
  <1>2. Apart' /\ Paired'
    BY DEF Apart, Paired, Accounted, Displaced, Back
  <1>3. Expected'
    BY DEF Expected, Comes, Live
  <1> QED BY <1>1, <1>2, <1>3

LEMMA StepInv == Inv /\ [Next]_vars => Inv'
  <1> SUFFICES ASSUME Inv, [Next]_vars PROVE Inv'
    OBVIOUS
  <1>1. CASE TurnStep
    BY <1>1, TurnStartsInv, EndOfLoopInv, RoundEndsInv, WokenInv, AnnouncesInv, VetoedInv,
       DispatchInv DEF TurnStep
  <1>2. CASE \E j \in Jobs : LoopStep(j) \/ TaskEnds(j)
    BY <1>2, WaitersInv, DoneCallbackInv, BackgroundCompletesInv, FinalizerInv, TaskEndsInv
       DEF LoopStep
  <1>3. CASE ArrivalParks \/ StopCancelsTasks \/ Intervention
    BY <1>3, WaitersInv, InterventionInv
  <1> QED BY <1>1, <1>2, <1>3, StutterInv DEF Next, Progress

LEMMA Invariant == Spec => []Inv
  BY InitInv, StepInv, PTL DEF Spec

------------------------------------------------------------------------------
\* Every reachable state is well typed: in particular there is a wait task only
\* while the turn is in _wait_handles.
THEOREM TypeCorrect == Spec => []TypeOK
  BY Invariant, PTL DEF Inv

\* The outcome of a job reaches the model once: what _wait_handles has collected
\* is never published as a completion event too, for any jobs and any
\* interleaving of promotions, completions, waits and interrupts.
THEOREM OutcomeToldOnce == Spec => []NotToldTwice
  <1>1. Inv => NotToldTwice
    BY DEF Inv, Apart, NotToldTwice
  <1> QED BY <1>1, Invariant, PTL

\* If every tool notifies, a deferred output is always released by a completion
\* that is still to come or already in the inbox.
THEOREM OutputNotStranded ==
  ASSUME Quiet = {}
  PROVE  Spec => []WireNotStranded
  <1>1. Inv => WireNotStranded
    BY DEF Inv, Expected, Comes, WireNotStranded
  <1> QED BY <1>1, Invariant, PTL

\* The next model round of a turn has a tool message for every call of this one,
\* whichever of them were vetoed, started in the background, ended, failed, were
\* cancelled or promoted, unless a later failing start took the id of the call.
THEOREM RoundsPaired == Spec => NextRoundIsPaired
  <1>1. Inv /\ [Next]_vars =>
          [turn' = "llm" => \A j \in asked : j \in paired' \/ Displaced(j)]_vars
    <2> SUFFICES ASSUME Inv, Next, turn' = "llm"
                 PROVE  \A j \in asked : j \in paired' \/ Displaced(j)
      OBVIOUS
    <2>1. CASE turn \in {"idle", "llm", "final"}
      BY <2>1 DEF Inv, Paired
    <2>2. CASE RoundEndsWithoutJobs
      BY <2>2 DEF RoundEndsWithoutJobs, Feedback, Inv, Paired, Accounted
    <2>3. CASE WokenByPut \/ ReapsFinished
      <3>1. PICK D \in SUBSET Back : Reap(D) /\ turn \in {"waiting", "reaping"}
        BY <2>3 DEF WokenByPut, ReapsFinished, Inv, Apart
      <3> QED BY <3>1, LastPassInv, PassInv
    <2>4. turn \in {"idle", "llm", "final", "round", "waiting", "reaping"}
      BY DEF Inv, TypeOK
    <2> QED
      BY <2>1, <2>2, <2>3, <2>4
      DEF Next, Progress, TurnStep, Intervention, LoopStep, InTurn, Unwinds, TurnStarts,
          RoundEnds, WaitTop, WokenByWaiter, TurnEnds, Announces, Vetoed, Dispatch, IsNext,
          ArrivalParks, StopCancelsTasks, InputArrives, CancelJob, PromoteJob, Interrupt,
          Terminates, Stop, WaiterReturns, DoneCallback, BackgroundCompletes,
          FinalizerStarts, FinalizerEnds, TaskEnds
  <1> QED BY <1>1, Invariant, PTL DEF Spec, NextRoundIsPaired
==============================================================================
