----------------------------- MODULE MCEventLoop -----------------------------
(* Small instances of EventLoop: one set of producers per question asked.   *)
EXTENDS EventLoopService, TLC
CONSTANTS e1, e2, e3

Mixed    == e1 :> "bg" @@ e2 :> "request" @@ e3 :> "drive"
Jobs     == e1 :> "input" @@ e2 :> "extra" @@ e3 :> "request"
==============================================================================
