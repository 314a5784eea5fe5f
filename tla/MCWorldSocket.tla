----------------------------- MODULE MCWorldSocket -----------------------------
(* Instances of WorldSocket for TLC. *)
EXTENDS WorldSocket, TLC

\* Connections are interchangeable.
Symmetry == Permutations(Sockets)
================================================================================
