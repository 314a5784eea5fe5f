---------------------------- MODULE MCInstanceIds ----------------------------
(* InstanceIds for TLC; players and dungeons are interchangeable.              *)
EXTENDS InstanceIds, TLC

Symmetry == Permutations(Players) \cup Permutations(Dungeons)
==============================================================================
