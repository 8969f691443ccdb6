-------------------------- MODULE MCReplicaLiveness --------------------------
(* ReplicaLiveness with two concurrent senders and a window of two or three. *)
EXTENDS ReplicaLiveness
=============================================================================
