----------------------------- MODULE TurnService -----------------------------
(***************************************************************************)
(* What an agent promises the callers of run(), run_stream() and           *)
(* run_event(): a single server that gives each accepted request a turn of *)
(* its own, in the order the requests were accepted, and answers every     *)
(* request at most once.  A request may be refused, dropped while it waits *)
(* or cut while it is served; "rejected" is never the answer to a request  *)
(* that was served, and "ok" never the answer to one that was not.         *)
(***************************************************************************)
CONSTANT Request

VARIABLES state,   \* state[r] of the request a caller r has, if any
          before,  \* before[r]: the waiting requests accepted earlier than r
          answer   \* what the caller of an answered request is told

vars == <<state, before, answer>>

Served   == {"ok", "failed", "interrupted", "byuser", "error"}
Unserved == {"rejected", "interrupted", "byuser"}

Waiting == {r \in Request : state[r] = "waiting"}
Serving == {r \in Request : state[r] = "serving"}

Init == /\ state  = [r \in Request |-> "idle"]
        /\ before = [r \in Request |-> {}]
        /\ answer = [r \in Request |-> "none"]

\* The requests S stop waiting.
LeaveLine(S) == before' = [r \in Request |-> IF r \in S THEN {} ELSE before[r] \ S]

Accept(r) == /\ state[r] = "idle"
             /\ state'  = [state EXCEPT ![r] = "waiting"]
             /\ before' = [before EXCEPT ![r] = Waiting]
             /\ UNCHANGED answer

Refuse(r) == /\ state[r] = "idle"
             /\ state'  = [state EXCEPT ![r] = "answered"]
             /\ answer' = [answer EXCEPT ![r] = "rejected"]
             /\ UNCHANGED before

Serve(r) == /\ state[r] = "waiting" /\ before[r] = {} /\ Serving = {}
            /\ state' = [state EXCEPT ![r] = "serving"]
            /\ LeaveLine({r})
            /\ UNCHANGED answer

\* The requests S are answered with a.
Answer(S, a) == /\ state'  = [r \in Request |-> IF r \in S THEN "answered" ELSE state[r]]
                /\ answer' = [r \in Request |-> IF r \in S THEN a ELSE answer[r]]

\* The turn is over; a caller that gave up waiting for it is not told.
Finish(r, a) == /\ state[r] = "serving"
                /\ \/ Answer({r}, a)
                   \/ state' = [state EXCEPT ![r] = "idle"] /\ UNCHANGED answer
                /\ UNCHANGED before

\* Requests that wait are given up or thrown out.
Drop(S, a) == Answer(S, a) /\ LeaveLine(S)

\* The server stops: everybody who waits is rejected and a turn in progress is
\* cut; told are those whose caller still waits for the turn.
Close(told) ==
  /\ state'  = [r \in Request |-> IF r \in Waiting \cup told THEN "answered"
                                  ELSE IF r \in Serving THEN "idle" ELSE state[r]]
  /\ answer' = [r \in Request |-> IF r \in Waiting THEN "rejected"
                                  ELSE IF r \in told THEN "interrupted" ELSE answer[r]]
  /\ LeaveLine(Waiting)

\* The caller leaves with its answer.
Return(r) == /\ state[r] = "answered"
             /\ state'  = [state EXCEPT ![r] = "idle"]
             /\ answer' = [answer EXCEPT ![r] = "none"]
             /\ UNCHANGED before

Next == \/ \E r \in Request : Accept(r) \/ Refuse(r) \/ Serve(r) \/ Return(r)
        \/ \E r \in Request, a \in Served : Finish(r, a)
        \/ \E S \in SUBSET Waiting, a \in Unserved : Drop(S, a)
        \/ \E told \in SUBSET Serving : Close(told)

Spec == Init /\ [][Next]_vars
==============================================================================
