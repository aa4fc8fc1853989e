------------------------------ MODULE MCUdpFwd ------------------------------
(***************************************************************************)
(* The forwarder for TLC: two workers.                                     *)
(***************************************************************************)
EXTENDS UdpFwd, TLC

CONSTANTS w1, w2

MCWorkers == {w1, w2}

\* Workers are alike: they differ in nothing but their name.
MCSymmetry == Permutations(MCWorkers)

=============================================================================
