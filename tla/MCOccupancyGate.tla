--------------------------- MODULE MCOccupancyGate ---------------------------
(* A small instance of OccupancyGate: a file and its sidecar, and three      *)
(* threads that read, open and mutate them.                                  *)
EXTENDS OccupancyGate
CONSTANTS t1, t2, t3, file, sidecar

OneAndBoth == {{file}, {file, sidecar}}
==============================================================================
