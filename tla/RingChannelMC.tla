--------------------------- MODULE RingChannelMC ---------------------------
(* RingChannel on small instances: interchangeable producers.              *)
EXTENDS RingChannel, TLC

CONSTANTS p1, p2

Symmetric == Permutations(Producers)

=============================================================================
