------------------------------- MODULE Runner -------------------------------
(***************************************************************************)
(* Package runner: concurrent callers of runCompose (the reconciler's      *)
(* ticks), each of which takes the mutex of its project, then a unit of    *)
(* the global semaphore, runs `docker compose`, and gives both back in the *)
(* reverse order (the deferred calls).  The mutex is held while waiting    *)
(* for the semaphore, and waiting for the mutex ignores the context.       *)
(* Restarters run restartBroker (internal/daemon/server.go), which starts  *)
(* a compose process on its own.                                           *)
(***************************************************************************)
EXTENDS Integers, FiniteSets, SequencesExt

CONSTANTS
  Callers,      \* goroutines that call Up, Down, Restart or PS
  Restarters,   \* requests that revoke a certificate of a mosquitto site
  Projects, NoProject, NoCaller,
  Cap           \* maxConcurrentCompose

ASSUME RunnerAssumption ==
  /\ IsFiniteSet(Callers) /\ NoCaller \notin Callers
  /\ Callers \cap Restarters = {}
  /\ NoProject \notin Projects
  /\ Cap \in Nat \ {0}

VARIABLES
  pc,        \* where a goroutine is in runCompose or restartBroker
  project,   \* its projectID argument
  mutex,     \* holder of the mutex of a project (projectMu)
  held,      \* units of globalSem in use
  queue      \* waiters of globalSem, served first come first served

rvars == <<pc, project, mutex, held, queue>>

RunnerTypeOK ==
  /\ pc \in [Callers \cup Restarters ->
               {"idle", "lock", "acquire", "queued", "run", "release", "unlock", "restart"}]
  /\ project \in [Callers \cup Restarters -> Projects \cup {NoProject}]
  /\ mutex \in [Projects -> Callers \cup {NoCaller}]
  /\ held \in 0..Cap
  /\ queue \in Seq(Callers)

RunnerInit ==
  /\ pc = [c \in Callers \cup Restarters |-> "idle"]
  /\ project = [c \in Callers \cup Restarters |-> NoProject]
  /\ mutex = [p \in Projects |-> NoCaller]
  /\ held = 0
  /\ queue = <<>>

Call(c, p) ==
  /\ pc[c] = "idle"
  /\ pc' = [pc EXCEPT ![c] = "lock"]
  /\ project' = [project EXCEPT ![c] = p]
  /\ UNCHANGED <<mutex, held, queue>>

(* Mutant: every call gets a mutex of its own. *)
LockFresh(c) ==
  /\ pc[c] = "lock"
  /\ mutex' = [mutex EXCEPT ![project[c]] = c]
  /\ pc' = [pc EXCEPT ![c] = "acquire"]
  /\ UNCHANGED <<project, held, queue>>

(* mu.Lock() *)
Lock(c) ==
  /\ pc[c] = "lock" /\ mutex[project[c]] = NoCaller
  /\ mutex' = [mutex EXCEPT ![project[c]] = c]
  /\ pc' = [pc EXCEPT ![c] = "acquire"]
  /\ UNCHANGED <<project, held, queue>>

(* globalSem.Acquire(ctx, 1): a free unit if nobody waits, else the queue. *)
Acquire(c) ==
  /\ pc[c] = "acquire"
  /\ IF held < Cap /\ queue = <<>>
     THEN /\ held' = held + 1
          /\ pc' = [pc EXCEPT ![c] = "run"]
          /\ UNCHANGED queue
     ELSE /\ queue' = Append(queue, c)
          /\ pc' = [pc EXCEPT ![c] = "queued"]
          /\ UNCHANGED held
  /\ UNCHANGED <<project, mutex>>

(* Mutant: the deferred Release is registered before the error is checked. *)
AcquireFailsReleasing(c) ==
  /\ \/ pc[c] = "acquire" /\ UNCHANGED queue
     \/ /\ pc[c] = "queued"
        /\ \E i \in 1..Len(queue) : queue[i] = c /\ queue' = RemoveAt(queue, i)
  /\ held' = held - 1
  /\ pc' = [pc EXCEPT ![c] = "unlock"]
  /\ UNCHANGED <<project, mutex>>

(* The context ends while the caller asks for, or waits for, a unit. *)
AcquireFails(c) ==
  /\ \/ pc[c] = "acquire" /\ UNCHANGED queue
     \/ /\ pc[c] = "queued"
        /\ \E i \in 1..Len(queue) : queue[i] = c /\ queue' = RemoveAt(queue, i)
  /\ pc' = [pc EXCEPT ![c] = "unlock"]
  /\ UNCHANGED <<project, mutex, held>>

(* cmd.Run() returns, by itself or killed through the context. *)
RunEnds(c) ==
  /\ pc[c] = "run"
  /\ pc' = [pc EXCEPT ![c] = "release"]
  /\ UNCHANGED <<project, mutex, held, queue>>

(* Mutant: the unit goes back to the pool and no waiter is woken. *)
ReleaseSilently(c) ==
  /\ pc[c] = "release"
  /\ pc' = [pc EXCEPT ![c] = "unlock"]
  /\ held' = held - 1
  /\ UNCHANGED <<project, mutex, queue>>

(* globalSem.Release(1): the unit passes to the first waiter, if any. *)
Release(c) ==
  /\ pc[c] = "release"
  /\ IF queue = <<>>
     THEN /\ pc' = [pc EXCEPT ![c] = "unlock"]
          /\ held' = held - 1
          /\ UNCHANGED queue
     ELSE /\ pc' = [pc EXCEPT ![c] = "unlock", ![Head(queue)] = "run"]
          /\ queue' = Tail(queue)
          /\ UNCHANGED held
  /\ UNCHANGED <<project, mutex>>

(* mu.Unlock() and return. *)
Unlock(c) ==
  /\ pc[c] = "unlock"
  /\ mutex' = [mutex EXCEPT ![project[c]] = NoCaller]
  /\ pc' = [pc EXCEPT ![c] = "idle"]
  /\ project' = [project EXCEPT ![c] = NoProject]
  /\ UNCHANGED <<held, queue>>

(* restartBroker: exec.CommandContext without mutex and semaphore. *)
RestartBroker(b, p) ==
  /\ pc[b] = "idle"
  /\ pc' = [pc EXCEPT ![b] = "restart"]
  /\ project' = [project EXCEPT ![b] = p]
  /\ UNCHANGED <<mutex, held, queue>>

RestartEnds(b) ==
  /\ pc[b] = "restart"
  /\ pc' = [pc EXCEPT ![b] = "idle"]
  /\ project' = [project EXCEPT ![b] = NoProject]
  /\ UNCHANGED <<mutex, held, queue>>

RunnerStep(c) == Acquire(c) \/ AcquireFails(c) \/ RunEnds(c) \/ Release(c) \/ Unlock(c)

RunnerNext ==
  \/ \E c \in Callers : RunnerStep(c) \/ Lock(c) \/ \E p \in Projects : Call(c, p)
  \/ \E b \in Restarters : RestartEnds(b) \/ \E p \in Projects : RestartBroker(b, p)

RunnerSpec == RunnerInit /\ [][RunnerNext]_rvars

(* Goroutines are scheduled and compose processes end.  sync.Mutex falls    *)
(* into its first-come-first-served mode after a millisecond of waiting, so *)
(* a goroutine that waits while the mutex is free again and again gets it.  *)
(* No context has to end: AcquireFails is not forced.                       *)
RunnerFairness ==
  \A c \in Callers :
    /\ WF_rvars(Acquire(c)) /\ WF_rvars(RunEnds(c)) /\ WF_rvars(Release(c))
    /\ WF_rvars(Unlock(c)) /\ SF_rvars(Lock(c))

RunnerFairSpec == RunnerSpec /\ RunnerFairness
-----------------------------------------------------------------------------
(* Properties.                                                             *)

(* The compose process that callers run, as the abstract specification sees *)
(* it.                                                                      *)
running == [c \in Callers |-> IF pc[c] = "run" THEN project[c] ELSE NoProject]

Slots == INSTANCE ComposeSlots WITH running <- running

(* runCompose implements the promise of the package: one compose process    *)
(* per project, at most Cap on the host, through cancellations and          *)
(* hand-overs of semaphore units.                                           *)
ImplementsSlots == Slots!Spec

(* Every call of runCompose returns: holding the project mutex while        *)
(* waiting for the semaphore never locks up, and no waiter is forgotten.    *)
CallsReturn == \A c \in Callers : pc[c] # "idle" ~> pc[c] = "idle"

(* "All compose mutations go through this package so that the concurrency   *)
(* controls (per-project mutex + global semaphore) are enforced": no two    *)
(* compose processes on one project, restartBroker's included.              *)
ProjectExclusive ==
  \A c, d \in Callers \cup Restarters :
    c # d /\ pc[c] \in {"run", "restart"} /\ pc[d] \in {"run", "restart"}
      => project[c] # project[d]
====
