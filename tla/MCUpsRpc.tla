------------------------------ MODULE MCUpsRpc ------------------------------
(***************************************************************************)
(* Small instances of UpsRpc for TLC, with the upstreams of MCUpsPeers.    *)
(***************************************************************************)
EXTENDS UpsRpc, MCUpsPeers

MCOrder == SetToSeq(Upstream)

\* An entry that adds one peer, and one that adds two.
OneOrTwo == { << n1 >>, << n1, n2 >> }

=============================================================================
