---- MODULE MCControlPlane ----
(* Small instances of ControlPlane for TLC. *)
EXTENDS ControlPlaneInvariants

(* Every version has a hash of its own. *)
DistinctHashes == [v \in 1..MaxOps |-> v]

(* The third version restores the content of the first. *)
RevertedHashes == [v \in 1..MaxOps |-> IF v > 2 THEN v - 2 ELSE v]
====
