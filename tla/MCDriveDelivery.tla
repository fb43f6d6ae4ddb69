-------------------------- MODULE MCDriveDelivery --------------------------
(* Instances of DriveDelivery: one or two creatures, and the environment's *)
(* operations each question needs.                                         *)
EXTENDS DriveDelivery, TLC

CONSTANTS c1, c2

OneCreature == {c1}
TwoCreatures == {c1, c2}
Creatures == Permutations(TwoCreatures)
=============================================================================
