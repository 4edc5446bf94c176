--------------------------- MODULE MCVideoReceiver ---------------------------
(* Instances of VideoReceiver for TLC. *)
EXTENDS VideoReceiver, TLC

(* Descriptors are interchangeable: the code only compares them. *)
FdSymmetry == Permutations(Fds)
=============================================================================
