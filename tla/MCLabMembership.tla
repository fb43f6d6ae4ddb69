--------------------------- MODULE MCLabMembership ---------------------------
(* A small instance of LabMembership: two names, each with an old and a new  *)
(* connection, one request and two cuts.                                     *)
EXTENDS LabMembership
CONSTANTS a, b, r1
==============================================================================
