-------------------------- MODULE MCMessagingService --------------------------
(* Instances of MessagingService for TLC. *)
EXTENDS MessagingService, TLC

(* Only compared by the code; not to be used with a liveness property. *)
Symmetry == Permutations(Fds) \cup Permutations(ClientFds)
=============================================================================
