-------------------------- MODULE ChannelRestartMC --------------------------
(* ChannelRestart on small instances: interchangeable producers.           *)
EXTENDS ChannelRestart, TLC

CONSTANTS p1, p2

Symmetric == Permutations(Producers)

=============================================================================
