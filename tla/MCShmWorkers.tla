---------------------------- MODULE MCShmWorkers ----------------------------
(***************************************************************************)
(* Small instances of ShmWorkers for TLC.                                  *)
(***************************************************************************)
EXTENDS ShmWorkers, TLC

CONSTANTS w1, w2, w3, n1, n2

OnePeer == << n1 >>
TwoPeers == << n1, n2 >>
TwoAlike == << n1, n1 >>
NoBackups == << >>

Workers == Permutations(Worker)

=============================================================================
