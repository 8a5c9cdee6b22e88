---- MODULE MCRunner ----
(* Three callers, so that one can hold, one wait for the semaphore and one   *)
(* wait for the mutex at the same time.                                      *)
EXTENDS Runner
====
