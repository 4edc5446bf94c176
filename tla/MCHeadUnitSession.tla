--------------------------- MODULE MCHeadUnitSession ---------------------------
(* An instance of HeadUnitSession for TLC. *)
EXTENDS HeadUnitSession, TLC

(* No code orders descriptors or pids; there is no liveness property. *)
Symmetry == Permutations(Fds) \cup Permutations(Pids)
=============================================================================
