------------------------------ MODULE MCBackup ------------------------------
(* Instances of Backup for TLC.  Runs are interchangeable. *)
EXTENDS Backup, TLC

RunSymmetry == Permutations(Runs)
====
