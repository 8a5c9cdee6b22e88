------------------------------- MODULE Rollout -------------------------------
(***************************************************************************)
(* What the control plane promises about one configuration at a time: the  *)
(* rendered files of a project only get newer, and its containers are      *)
(* either taken away or brought to the files as they are at that moment,   *)
(* so a newer configuration that runs is never replaced by an older one.   *)
(***************************************************************************)
EXTENDS Integers

CONSTANTS Projects, MaxOps

VARIABLES
  files,     \* version of the rendered files of a project, 0 if there are none
  applied    \* version its containers were created from, 0 if there are none

Init ==
  /\ files = [p \in Projects |-> 0]
  /\ applied = [p \in Projects |-> 0]

(* The files are replaced by those of a later version. *)
Render(p) ==
  /\ \E v \in 1 .. MaxOps : v > files[p] /\ files' = [files EXCEPT ![p] = v]
  /\ UNCHANGED applied

(* Containers are created from the files, running or not. *)
Apply(p) ==
  /\ files[p] # 0
  /\ applied' = [applied EXCEPT ![p] = files[p]]
  /\ UNCHANGED files

(* The containers are taken down, or disappear. *)
Remove(p) ==
  /\ applied' = [applied EXCEPT ![p] = 0]
  /\ UNCHANGED files

Next == \E p \in Projects : Render(p) \/ Apply(p) \/ Remove(p)

Spec == Init /\ [][Next]_<<files, applied>>
====
