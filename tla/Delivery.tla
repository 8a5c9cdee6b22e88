------------------------------ MODULE Delivery ------------------------------
(***************************************************************************)
(* What the ingest service promises about a message, whatever its ring,    *)
(* batches and goroutines do: once accepted it is held until a step stores *)
(* it, a step that stores it may keep it (and store it again), and nothing *)
(* is accepted, stored or forgotten after the process has stopped.         *)
(***************************************************************************)
CONSTANT Messages

VARIABLES
  waiting,   \* messages still to be published
  held,      \* messages in the memory of the process
  stored,    \* messages with a row in the table
  alive      \* the process has not exited

Init == waiting = Messages /\ held = {} /\ stored = {} /\ alive = TRUE

(* Published while nobody was subscribed. *)
Miss(m) ==
  /\ alive /\ m \in waiting
  /\ waiting' = waiting \ {m}
  /\ UNCHANGED <<held, stored, alive>>

Accept(m) ==
  /\ alive /\ m \in waiting
  /\ waiting' = waiting \ {m}
  /\ held' = held \cup {m}
  /\ UNCHANGED <<stored, alive>>

(* Rows of S reach the table together; the process knows it, or does not. *)
Store(S) ==
  /\ alive /\ S \subseteq held
  /\ stored' = stored \cup S
  /\ held' = held \ S \/ held' = held
  /\ UNCHANGED <<waiting, alive>>

(* The process exits: what it holds stays behind. *)
Stop ==
  /\ alive /\ alive' = FALSE
  /\ UNCHANGED <<waiting, held, stored>>

Next ==
  \/ \E m \in Messages : Miss(m) \/ Accept(m)
  \/ \E S \in SUBSET Messages : Store(S)
  \/ Stop

Spec == Init /\ [][Next]_<<waiting, held, stored, alive>>
====
