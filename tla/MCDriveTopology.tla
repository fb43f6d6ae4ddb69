--------------------------- MODULE MCDriveTopology ---------------------------
(* Three creatures whose graphs split and merge under two callers, with two *)
(* recoveries and three faults.                                             *)
EXTENDS DriveTopology, TLC
CONSTANTS a, b, c, p, q, r1, r2
Symmetry == Permutations(Creatures) \cup Permutations(Callers) \cup Permutations(Recoverers)

\* Nothing is told of a Drive once it has been torn: the properties except
\* every later state, and the run does not continue there.
Tellable == trouble \cap Torn = {}
==============================================================================
