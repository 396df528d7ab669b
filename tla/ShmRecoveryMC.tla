--------------------------- MODULE ShmRecoveryMC ---------------------------
(* ShmRecovery on small instances: interchangeable producers.              *)
EXTENDS ShmRecovery, TLC

CONSTANTS p1, p2

Symmetric == Permutations(Producers)

=============================================================================
