---- MODULE MCIngest ----
(* Small instances of Ingest for TLC.  Messages are interchangeable; runs    *)
(* without liveness exploit it.                                              *)
EXTENDS Ingest

MessageSymmetry == Permutations(Messages)
====
