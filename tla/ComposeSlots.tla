---------------------------- MODULE ComposeSlots ----------------------------
(***************************************************************************)
(* What package runner promises (compose.go, design decision D3): at any   *)
(* time at most one `docker compose` process works on a project, and at    *)
(* most Cap of them run on the host.                                       *)
(***************************************************************************)
EXTENDS Integers, FiniteSets

CONSTANTS Callers, Projects, NoProject, Cap

VARIABLE running   \* the project whose compose process a caller runs

Active == {c \in Callers : running[c] # NoProject}

Init == running = [c \in Callers |-> NoProject]

Start(c, p) ==
  /\ running[c] = NoProject
  /\ \A d \in Callers : running[d] # p
  /\ Cardinality(Active) < Cap
  /\ running' = [running EXCEPT ![c] = p]

Stop(c) ==
  /\ running[c] # NoProject
  /\ running' = [running EXCEPT ![c] = NoProject]

Next == \E c \in Callers : Stop(c) \/ \E p \in Projects : Start(c, p)

Spec == Init /\ [][Next]_running
====
