----------------------------- MODULE MCDirectJobs ----------------------------
(* A small instance of DirectJobs: two calls of one tool that may take every *)
(* way there is of being dispatched, refused or failed, one input that       *)
(* starts a turn and one that meets it.  Either no call fails or both do.    *)
EXTENDS DirectJobs, TLC
CONSTANTS j1, j2

InSequence == j1 :> 1 @@ j2 :> 2
OneTool   == [j \in {j1, j2} |-> "tool"]
AllOrNone == {{}, {j1, j2}}
==============================================================================
