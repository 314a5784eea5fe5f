---------------------------- MODULE MCWorldSessions ----------------------------
(* Instances of WorldSessions for TLC. *)
EXTENDS WorldSessions, TLC

\* Ordinary accounts and session objects are interchangeable.
Symmetry == Permutations(Accounts \ Privileged) \cup Permutations(Incarnations)
================================================================================
