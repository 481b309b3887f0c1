----------------------------- MODULE PeerLists -----------------------------
(***************************************************************************)
(* The peer list of one upstream group, read from its head.  nginx keeps   *)
(* it as a singly linked list of ngx_http_upstream_rr_peer_t in the zone's *)
(* shared memory; here it is the sequence of the peers' records, the head  *)
(* of the list at index 1.                                                 *)
(***************************************************************************)
EXTENDS Integers, Sequences, SequencesExt

(***************************************************************************)
(* WeightsUpTo(s)[i] is the sum of the weights of the first i peers.       *)
(***************************************************************************)
WeightsUpTo(s) ==
    LET sum[i \in 0 .. Len(s)] ==
            IF i = 0 THEN 0 ELSE sum[i - 1] + s[i].weight
    IN  sum

(***************************************************************************)
(* The weight of a whole group: what total_weight is meant to hold.        *)
(***************************************************************************)
Total(s) == WeightsUpTo(s)[Len(s)]

=============================================================================
