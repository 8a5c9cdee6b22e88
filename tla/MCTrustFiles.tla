---------------------------- MODULE MCTrustFiles ----------------------------
(* Instances of TrustFiles for TLC. *)
EXTENDS TrustFiles
====
