-------------------------- MODULE EventLoopService --------------------------
(***************************************************************************)
(* The event loop implements TurnService for its awaited requests: what    *)
(* the inbox, the batch in hand, stop, pause, withdrawal and interruption  *)
(* do together is a FIFO server with one turn per request.                 *)
(***************************************************************************)
EXTENDS EventLoop

Requests == {e \in Event : Awaited(e)}

\* A withdrawn envelope in the batch in hand is already answered: the consumer
\* will leave it out.
ServiceState ==
  [e \in Requests |-> IF place[e] = "active" THEN "serving"
                      ELSE IF fut[e] = "pending" THEN "waiting"
                      ELSE IF caller[e] # "idle" THEN "answered" ELSE "idle"]

ServiceBefore ==
  [e \in Requests |-> IF ServiceState[e] # "waiting" THEN {}
                      ELSE {f \in ahead[e] \cap Requests : ServiceState[f] = "waiting"}]

ServiceAnswer ==
  [e \in Requests |-> IF ServiceState[e] = "answered" THEN fut[e] ELSE "none"]

Service == INSTANCE TurnService WITH Request <- Requests, state <- ServiceState,
                                     before <- ServiceBefore, answer <- ServiceAnswer

\* Each accepted request of run(), run_stream() and run_event() gets a turn of
\* its own in the order of acceptance, and its one answer says truly whether it
\* was served (segment_stackable, _withdraw_awaiting, _drain_and_reject_inbox).
ServesRequests == Service!Spec
=============================================================================
