---------------------------- MODULE RunnerProofs ----------------------------
(***************************************************************************)
(* Package runner implements ComposeSlots, for any number of callers,      *)
(* projects and semaphore units.  The abstract step Start needs a project  *)
(* that nobody else works on (from the mutex) and a free slot (from the    *)
(* semaphore count); MutexInv and HeldInv carry these facts, and QueueInv  *)
(* says that a unit handed over by Release reaches a caller that waits.    *)
(***************************************************************************)
EXTENDS Runner, FiniteSetTheorems, SequenceTheorems, TLAPS

(* Between Lock and Unlock a caller is the holder of its project's mutex. *)
MutexInv ==
  \A c \in Callers :
    /\ pc[c] # "restart"
    /\ pc[c] # "idle" => project[c] \in Projects
    /\ pc[c] \in {"acquire", "queued", "run", "release", "unlock"} => mutex[project[c]] = c

(* The waiters of the semaphore are distinct and really wait. *)
QueueInv ==
  /\ \A i \in 1..Len(queue) : pc[queue[i]] = "queued"
  /\ \A i, j \in 1..Len(queue) : queue[i] = queue[j] => i = j

(* The units in use are those of the callers that run or are about to       *)
(* release.                                                                 *)
Holders == {c \in Callers : pc[c] \in {"run", "release"}}
HeldInv == held = Cardinality(Holders)

RunnerInv == RunnerTypeOK /\ MutexInv /\ QueueInv /\ HeldInv

(* Facts about the set of holders. *)
LEMMA HoldersFinite == IsFiniteSet(Holders) /\ Cardinality(Holders) \in Nat
BY RunnerAssumption, FS_Subset, FS_CardinalityType DEF Holders

(* RemoveAt keeps a queue a queue, and its elements. *)
LEMMA RemoveAtParts ==
  ASSUME NEW S, NEW s \in Seq(S), NEW k \in 1..Len(s)
  PROVE  /\ RemoveAt(s, k) \in Seq(S)
         /\ Len(RemoveAt(s, k)) = Len(s) - 1
         /\ \A i \in 1..(Len(s) - 1) : RemoveAt(s, k)[i] = IF i < k THEN s[i] ELSE s[i + 1]
<1> DEFINE a == SubSeq(s, 1, k - 1)
           b == SubSeq(s, k + 1, Len(s))
<1>1. /\ a \in Seq(S) /\ Len(a) = k - 1 /\ \A i \in 1..(k - 1) : a[i] = s[i]
  <2>1. \A i \in 1..(k - 1) : s[i] \in S
    BY ElementOfSeq
  <2> QED BY <2>1, SubSeqProperties
<1>2. /\ b \in Seq(S) /\ Len(b) = Len(s) - k
      /\ \A i \in 1..(Len(s) - k) : b[i] = s[k + i]
  <2>1. \A i \in (k + 1)..Len(s) : s[i] \in S
    BY ElementOfSeq
  <2> QED BY <2>1, SubSeqProperties
<1>3. /\ a \o b \in Seq(S) /\ Len(a \o b) = Len(a) + Len(b)
      /\ \A i \in 1..(Len(a) + Len(b)) : (a \o b)[i] = IF i <= Len(a) THEN a[i] ELSE b[i - Len(a)]
  BY <1>1, <1>2, ConcatProperties
<1>4. RemoveAt(s, k) = a \o b
  BY DEF RemoveAt
<1> HIDE DEF a, b
<1>5. Len(a) + Len(b) = Len(s) - 1
  BY <1>1, <1>2
<1>6. ASSUME NEW i \in 1..(Len(s) - 1) PROVE (a \o b)[i] = IF i < k THEN s[i] ELSE s[i + 1]
  <2>1. CASE i < k
    BY <1>1, <1>3, <1>5, <2>1
  <2>2. CASE ~(i < k)
    <3>1. i - Len(a) \in 1..(Len(s) - k) /\ k + (i - Len(a)) = i + 1 /\ ~(i <= Len(a))
      BY <1>1, <2>2
    <3>2. (a \o b)[i] = b[i - Len(a)]
      BY <1>3, <1>5, <3>1
    <3> QED BY <1>2, <2>2, <3>1, <3>2
  <2> QED BY <2>1, <2>2
<1> QED BY <1>3, <1>4, <1>5, <1>6

(* Initially nobody holds or waits for anything. *)
LEMMA InitInv == RunnerInit => RunnerInv
<1> SUFFICES ASSUME RunnerInit PROVE RunnerInv
  OBVIOUS
<1>1. RunnerTypeOK /\ MutexInv /\ QueueInv
  BY RunnerAssumption DEF RunnerInit, RunnerTypeOK, MutexInv, QueueInv
<1>2. Holders = {}
  BY DEF RunnerInit, Holders
<1> QED BY <1>1, <1>2, FS_EmptySet DEF RunnerInv, HeldInv, RunnerInit

(* Every step keeps mutexes, queue and unit count in agreement. *)
LEMMA StepInv == ASSUME RunnerInv, [RunnerNext]_rvars PROVE RunnerInv'
<1> USE RunnerAssumption DEF RunnerInv
<1>1. ASSUME NEW c \in Callers, NEW p \in Projects, Call(c, p) PROVE RunnerInv'
  <2>1. RunnerTypeOK' /\ MutexInv' /\ QueueInv'
    BY <1>1 DEF Call, RunnerTypeOK, MutexInv, QueueInv
  <2>2. Holders' = Holders
    BY <1>1 DEF Call, Holders, RunnerTypeOK
  <2> QED BY <1>1, <2>1, <2>2 DEF Call, HeldInv
<1>2. ASSUME NEW c \in Callers, Lock(c) PROVE RunnerInv'
  <2>1. RunnerTypeOK' /\ QueueInv'
    BY <1>2 DEF Lock, RunnerTypeOK, MutexInv, QueueInv
  <2>2. MutexInv'
    BY <1>2 DEF Lock, RunnerTypeOK, MutexInv
  <2>3. Holders' = Holders
    BY <1>2 DEF Lock, Holders, RunnerTypeOK
  <2> QED BY <1>2, <2>1, <2>2, <2>3 DEF Lock, HeldInv
<1>3. ASSUME NEW c \in Callers, Acquire(c) PROVE RunnerInv'
  <2>1. CASE held < Cap /\ queue = <<>>
    <3>1. RunnerTypeOK' /\ MutexInv' /\ QueueInv'
      BY <1>3, <2>1 DEF Acquire, RunnerTypeOK, MutexInv, QueueInv
    <3>2. Holders' = Holders \cup {c} /\ c \notin Holders
      BY <1>3, <2>1 DEF Acquire, Holders, RunnerTypeOK
    <3>3. Cardinality(Holders') = Cardinality(Holders) + 1
      BY <3>2, HoldersFinite, FS_AddElement
    <3> QED BY <1>3, <2>1, <3>1, <3>3 DEF Acquire, HeldInv
  <2>2. CASE ~(held < Cap /\ queue = <<>>)
    <3>0. /\ queue' = Append(queue, c) /\ pc' = [pc EXCEPT ![c] = "queued"]
          /\ queue' \in Seq(Callers) /\ Len(queue') = Len(queue) + 1
          /\ \A i \in 1..Len(queue) : queue'[i] = queue[i] /\ queue[i] \in Callers
          /\ queue'[Len(queue) + 1] = c
      <4>1. queue' = Append(queue, c) /\ pc' = [pc EXCEPT ![c] = "queued"]
        BY <1>3, <2>2 DEF Acquire
      <4>2. queue \in Seq(Callers)
        BY DEF RunnerTypeOK
      <4>3. \A i \in 1..Len(queue) : queue[i] \in Callers
        BY <4>2, ElementOfSeq
      <4> QED BY <4>1, <4>2, <4>3, AppendProperties
    <3>1. RunnerTypeOK'
      BY <1>3, <2>2, <3>0 DEF Acquire, RunnerTypeOK
    <3>2. MutexInv'
      BY <1>3, <2>2 DEF Acquire, RunnerTypeOK, MutexInv
    <3>3. QueueInv'
      <4>1. Len(queue) \in Nat /\ \A i \in 1..Len(queue') : i \in 1..Len(queue) \/ i = Len(queue) + 1
        BY <3>0 DEF RunnerTypeOK
      <4>2. \A i \in 1..Len(queue) : pc[queue[i]] = "queued" /\ queue[i] # c
        BY <1>3 DEF Acquire, QueueInv
      <4>3. \A i \in 1..Len(queue') : pc'[queue'[i]] = "queued"
        BY <3>0, <4>1, <4>2 DEF RunnerTypeOK
      <4>4. \A i, j \in 1..Len(queue') : queue'[i] = queue'[j] => i = j
        BY <3>0, <4>1, <4>2 DEF QueueInv
      <4> QED BY <4>3, <4>4 DEF QueueInv
    <3>4. Holders' = Holders
      BY <1>3, <2>2 DEF Acquire, Holders, RunnerTypeOK
    <3> QED BY <1>3, <2>2, <3>1, <3>2, <3>3, <3>4 DEF Acquire, HeldInv
  <2> QED BY <2>1, <2>2
<1>4. ASSUME NEW c \in Callers, AcquireFails(c) PROVE RunnerInv'
  <2>1. MutexInv'
    BY <1>4 DEF AcquireFails, RunnerTypeOK, MutexInv
  <2>2. Holders' = Holders
    BY <1>4 DEF AcquireFails, Holders, RunnerTypeOK
  <2>3. RunnerTypeOK' /\ QueueInv'
    <3>1. CASE pc[c] = "acquire"
      BY <1>4, <3>1 DEF AcquireFails, RunnerTypeOK, QueueInv
    <3>2. ASSUME NEW k \in 1..Len(queue), queue[k] = c, queue' = RemoveAt(queue, k)
          PROVE  RunnerTypeOK' /\ QueueInv'
      <4>1. /\ queue' \in Seq(Callers) /\ Len(queue') = Len(queue) - 1
            /\ \A i \in 1..Len(queue') : queue'[i] = IF i < k THEN queue[i] ELSE queue[i + 1]
        BY <3>2, RemoveAtParts DEF RunnerTypeOK
      <4>2. RunnerTypeOK'
        BY <1>4, <4>1 DEF AcquireFails, RunnerTypeOK
      <4>0. ASSUME NEW i \in 1..Len(queue')
            PROVE  \E m \in 1..Len(queue) : /\ queue'[i] = queue[m] /\ m # k
                                            /\ m = IF i < k THEN i ELSE i + 1
        BY <4>1, <4>0, LenProperties DEF RunnerTypeOK
      <4>3. \A i \in 1..Len(queue') : queue'[i] # c /\ pc[queue'[i]] = "queued" /\ queue'[i] \in Callers
        BY <3>2, <4>0, ElementOfSeq DEF QueueInv, RunnerTypeOK
      <4>4. \A i \in 1..Len(queue') : pc'[queue'[i]] = "queued"
        BY <1>4, <4>3 DEF AcquireFails, RunnerTypeOK
      <4>5. \A i, j \in 1..Len(queue') : queue'[i] = queue'[j] => i = j
        <5> SUFFICES ASSUME NEW i \in 1..Len(queue'), NEW j \in 1..Len(queue'), queue'[i] = queue'[j]
                     PROVE  i = j
          OBVIOUS
        <5>1. PICK m \in 1..Len(queue) : queue'[i] = queue[m] /\ m = IF i < k THEN i ELSE i + 1
          BY <4>0
        <5>2. PICK n \in 1..Len(queue) : queue'[j] = queue[n] /\ n = IF j < k THEN j ELSE j + 1
          BY <4>0
        <5>3. m = n
          BY <5>1, <5>2 DEF QueueInv
        <5>4. i \in Int /\ j \in Int /\ k \in Int
          BY <4>1, LenProperties DEF RunnerTypeOK
        <5> QED BY <5>1, <5>2, <5>3, <5>4
      <4> QED BY <4>2, <4>4, <4>5 DEF QueueInv
    <3> QED BY <1>4, <3>1, <3>2 DEF AcquireFails
  <2> QED BY <1>4, <2>1, <2>2, <2>3 DEF AcquireFails, HeldInv
<1>5. ASSUME NEW c \in Callers, RunEnds(c) PROVE RunnerInv'
  <2>1. RunnerTypeOK' /\ MutexInv' /\ QueueInv'
    BY <1>5 DEF RunEnds, RunnerTypeOK, MutexInv, QueueInv
  <2>2. Holders' = Holders
    BY <1>5 DEF RunEnds, Holders, RunnerTypeOK
  <2> QED BY <1>5, <2>1, <2>2 DEF RunEnds, HeldInv
<1>6. ASSUME NEW c \in Callers, Release(c) PROVE RunnerInv'
  <2>0. c \in Holders /\ Cardinality(Holders \ {c}) = Cardinality(Holders) - 1
        /\ IsFiniteSet(Holders \ {c}) /\ Cardinality(Holders \ {c}) \in Nat
    BY <1>6, HoldersFinite, FS_RemoveElement, FS_CardinalityType DEF Release, Holders
  <2>1. CASE queue = <<>>
    <3>1. Holders' = Holders \ {c}
      BY <1>6, <2>1 DEF Release, Holders, RunnerTypeOK
    <3>2. held' = held - 1 /\ held' \in 0..Cap /\ HeldInv'
      BY <1>6, <2>0, <2>1, <3>1 DEF Release, HeldInv, RunnerTypeOK
    <3>3. RunnerTypeOK' /\ MutexInv' /\ QueueInv'
      BY <1>6, <2>1, <3>2 DEF Release, RunnerTypeOK, MutexInv, QueueInv
    <3> QED BY <3>2, <3>3
  <2>2. CASE queue # <<>>
    <3> DEFINE h == Head(queue)
    <3>1. h \in Callers /\ h = queue[1] /\ 1 \in 1..Len(queue) /\ pc[h] = "queued" /\ h # c
      BY <1>6, <2>2 DEF Release, QueueInv, RunnerTypeOK
    <3>2. /\ queue' = Tail(queue) /\ held' = held
          /\ pc' = [pc EXCEPT ![c] = "unlock", ![h] = "run"]
          /\ project' = project /\ mutex' = mutex
      BY <1>6, <2>2 DEF Release
    <3>3. /\ queue' \in Seq(Callers) /\ Len(queue') = Len(queue) - 1
          /\ \A i \in 1..Len(queue') : queue'[i] = queue[i + 1] /\ i + 1 \in 1..Len(queue)
      BY <2>2, <3>2 DEF RunnerTypeOK
    <3>4. RunnerTypeOK'
      BY <3>1, <3>2, <3>3 DEF RunnerTypeOK
    <3>5. MutexInv'
      BY <1>6, <3>1, <3>2 DEF Release, RunnerTypeOK, MutexInv
    <3>6. QueueInv'
      <4>1. \A i \in 1..Len(queue') : queue'[i] # h /\ queue'[i] # c /\ pc[queue'[i]] = "queued"
                                      /\ queue'[i] \in Callers
        <5> SUFFICES ASSUME NEW i \in 1..Len(queue')
                     PROVE  /\ queue'[i] # h /\ queue'[i] # c /\ pc[queue'[i]] = "queued"
                            /\ queue'[i] \in Callers
          OBVIOUS
        <5>1. queue'[i] = queue[i + 1] /\ i + 1 \in 1..Len(queue) /\ i + 1 # 1
          BY <3>3, LenProperties
        <5> QED BY <1>6, <3>1, <5>1, ElementOfSeq DEF Release, QueueInv, RunnerTypeOK
      <4>2. \A i \in 1..Len(queue') : pc'[queue'[i]] = "queued"
        BY <3>2, <4>1 DEF RunnerTypeOK
      <4>3. \A i, j \in 1..Len(queue') : queue'[i] = queue'[j] => i = j
        BY <3>3 DEF QueueInv, RunnerTypeOK
      <4> QED BY <4>2, <4>3 DEF QueueInv
    <3>7. Holders' = (Holders \ {c}) \cup {h} /\ h \notin Holders \ {c}
      BY <3>1, <3>2 DEF Holders, RunnerTypeOK
    <3>8. Cardinality(Holders') = Cardinality(Holders)
      <4>1. Cardinality((Holders \ {c}) \cup {h}) = Cardinality(Holders \ {c}) + 1
        BY <2>0, <3>7, FS_AddElement
      <4> QED BY <2>0, <3>7, <4>1, HoldersFinite
    <3> QED BY <3>2, <3>4, <3>5, <3>6, <3>8 DEF HeldInv
  <2> QED BY <2>1, <2>2
<1>7. ASSUME NEW c \in Callers, Unlock(c) PROVE RunnerInv'
  <2>1. RunnerTypeOK' /\ QueueInv'
    BY <1>7 DEF Unlock, RunnerTypeOK, MutexInv, QueueInv
  <2>2. MutexInv'
    BY <1>7 DEF Unlock, RunnerTypeOK, MutexInv
  <2>3. Holders' = Holders
    BY <1>7 DEF Unlock, Holders, RunnerTypeOK
  <2> QED BY <1>7, <2>1, <2>2, <2>3 DEF Unlock, HeldInv
<1>8. ASSUME NEW b \in Restarters, RestartEnds(b) \/ \E p \in Projects : RestartBroker(b, p)
      PROVE  RunnerInv'
  <2>1. RunnerTypeOK'
    BY <1>8 DEF RestartEnds, RestartBroker, RunnerTypeOK
  <2>2. /\ \A c \in Callers : pc'[c] = pc[c] /\ project'[c] = project[c]
        /\ mutex' = mutex /\ held' = held /\ queue' = queue
    BY <1>8 DEF RestartEnds, RestartBroker, RunnerTypeOK
  <2>3. \A i \in 1..Len(queue) : queue[i] \in Callers
    BY DEF RunnerTypeOK
  <2>4. MutexInv' /\ QueueInv'
    BY <2>2, <2>3 DEF MutexInv, QueueInv
  <2>5. Holders' = Holders
    BY <2>2 DEF Holders
  <2> QED BY <2>1, <2>2, <2>4, <2>5 DEF HeldInv
<1>9. CASE UNCHANGED rvars
  BY <1>9 DEF rvars, RunnerTypeOK, MutexInv, QueueInv, HeldInv, Holders
<1> QED BY <1>1, <1>2, <1>3, <1>4, <1>5, <1>6, <1>7, <1>8, <1>9 DEF RunnerNext, RunnerStep

-----------------------------------------------------------------------------
(* The running callers are holders that have not finished. *)
LEMMA ActiveBelow ==
  ASSUME RunnerInv, NEW T, T \subseteq Holders, Slots!Active \subseteq T
  PROVE  Cardinality(Slots!Active) <= Cardinality(T)
BY HoldersFinite, FS_Subset

(* The active callers of ComposeSlots are those that run. *)
LEMMA ActiveIsRunning == Slots!Active = {c \in Callers : pc[c] = "run" /\ project[c] # NoProject}
BY DEF Slots!Active, running

(* The instance counts as this module does. *)
LEMMA SameCardinality == \A S : Slots!Cardinality(S) = Cardinality(S)
BY DEF Slots!Cardinality, Cardinality

(* A step in which caller c starts its compose process is Start. *)
LEMMA StartStep ==
  ASSUME RunnerInv, RunnerInv', NEW c \in Callers, pc[c] \in {"acquire", "queued"}, pc'[c] = "run",
         project'[c] = project[c], Cardinality(Slots!Active) < Cap,
         \A d \in Callers : d # c => running'[d] = running[d]
  PROVE  Slots!Next
<1>1. project[c] \in Projects /\ mutex[project[c]] = c
  BY DEF RunnerInv, MutexInv
<1>2. \A d \in Callers : running[d] # project[c]
  BY <1>1, RunnerAssumption DEF RunnerInv, MutexInv, running
<1>3. running[c] = NoProject /\ running' = [running EXCEPT ![c] = project[c]]
  BY DEF running
<1>4. Slots!Start(c, project[c])
  BY <1>2, <1>3, SameCardinality DEF Slots!Start
<1> QED BY <1>1, <1>4 DEF Slots!Next

(* Every step of the runner is a step of the slots, or invisible. *)
LEMMA StepImplements ==
  ASSUME RunnerInv, RunnerInv', [RunnerNext]_rvars
  PROVE  [Slots!Next]_running
<1> USE DEF RunnerInv
<1>1. ASSUME NEW c \in Callers, \/ Lock(c) \/ AcquireFails(c) \/ Unlock(c)
                                \/ \E p \in Projects : Call(c, p)
      PROVE  running' = running
  BY <1>1 DEF Lock, AcquireFails, Unlock, Call, RunnerTypeOK, running
<1>2. ASSUME NEW b \in Restarters, RestartEnds(b) \/ \E p \in Projects : RestartBroker(b, p)
      PROVE  running' = running
  <2>1. \A c \in Callers : pc'[c] = pc[c] /\ project'[c] = project[c]
    BY <1>2, RunnerAssumption DEF RestartEnds, RestartBroker, RunnerTypeOK
  <2> QED BY <2>1 DEF running
<1>3. ASSUME NEW c \in Callers, RunEnds(c) PROVE Slots!Next
  <2>1. running[c] # NoProject
    BY <1>3, RunnerAssumption DEF RunEnds, MutexInv, running
  <2>2. running' = [running EXCEPT ![c] = NoProject]
    BY <1>3 DEF RunEnds, RunnerTypeOK, running
  <2> QED BY <2>1, <2>2 DEF Slots!Next, Slots!Stop
<1>4. ASSUME NEW c \in Callers, Acquire(c) PROVE [Slots!Next]_running
  <2>1. CASE held < Cap /\ queue = <<>>
    <3>1. Slots!Active \subseteq Holders
      BY ActiveIsRunning DEF Holders
    <3>2. Cardinality(Slots!Active) < Cap
      <4>1. Cardinality(Slots!Active) <= held
        BY <3>1, ActiveBelow DEF HeldInv
      <4>2. Cardinality(Slots!Active) \in Nat
        BY <3>1, HoldersFinite, FS_Subset, FS_CardinalityType
      <4> QED BY <2>1, <4>1, <4>2, RunnerAssumption DEF RunnerTypeOK
    <3>3. \A d \in Callers : d # c => running'[d] = running[d]
      BY <1>4, <2>1 DEF Acquire, RunnerTypeOK, running
    <3> QED BY <1>4, <2>1, <3>2, <3>3, StartStep DEF Acquire, RunnerTypeOK
  <2>2. CASE ~(held < Cap /\ queue = <<>>)
    BY <1>4, <2>2 DEF Acquire, RunnerTypeOK, running
  <2> QED BY <2>1, <2>2
<1>5. ASSUME NEW c \in Callers, Release(c) PROVE [Slots!Next]_running
  <2>1. CASE queue = <<>>
    BY <1>5, <2>1 DEF Release, RunnerTypeOK, running
  <2>2. CASE queue # <<>>
    <3> DEFINE h == Head(queue)
    <3>1. h \in Callers /\ pc[h] = "queued" /\ h # c
      BY <1>5, <2>2 DEF Release, QueueInv, RunnerTypeOK
    <3>2. pc' = [pc EXCEPT ![c] = "unlock", ![h] = "run"] /\ project' = project
      BY <1>5, <2>2 DEF Release
    <3>3. Slots!Active \subseteq Holders \ {c} /\ c \in Holders
      BY <1>5, ActiveIsRunning DEF Release, Holders
    <3>4. Cardinality(Slots!Active) < Cap
      <4>1. Cardinality(Slots!Active) <= Cardinality(Holders \ {c})
        BY <3>3, ActiveBelow
      <4>2. Cardinality(Holders \ {c}) = held - 1
        BY <3>3, HoldersFinite, FS_RemoveElement DEF HeldInv
      <4>3. Cardinality(Slots!Active) \in Nat
        BY <3>3, HoldersFinite, FS_Subset, FS_CardinalityType
      <4> QED BY <4>1, <4>2, <4>3, RunnerAssumption DEF RunnerTypeOK
    <3>5. \A d \in Callers : d # h => running'[d] = running[d]
      BY <1>5, <3>1, <3>2 DEF Release, RunnerTypeOK, running
    <3>6. pc'[h] = "run"
      BY <3>1, <3>2 DEF RunnerTypeOK
    <3> QED BY <3>1, <3>2, <3>4, <3>5, <3>6, StartStep
  <2> QED BY <2>1, <2>2
<1>6. CASE UNCHANGED rvars
  BY <1>6 DEF rvars, running
<1> QED BY <1>1, <1>2, <1>3, <1>4, <1>5, <1>6 DEF RunnerNext, RunnerStep

(* ImplementsSlots: whatever the number of callers, projects and units, and *)
(* whichever calls are cancelled, runCompose runs one compose process per   *)
(* project and at most maxConcurrentCompose on the host.                    *)
THEOREM RunnerImplementsSlots == RunnerSpec => ImplementsSlots
<1>1. RunnerInit => Slots!Init
  BY DEF RunnerInit, Slots!Init, running
<1> QED BY InitInv, StepInv, StepImplements, <1>1, PTL DEF RunnerSpec, ImplementsSlots, Slots!Spec

(* RunnerTypeOK: the semaphore count stays between 0 and its capacity, so   *)
(* no path of runCompose gives back a unit it did not get.                  *)
THEOREM RunnerTyped == RunnerSpec => []RunnerTypeOK
<1>1. RunnerInv => RunnerTypeOK
  BY DEF RunnerInv
<1> QED BY InitInv, StepInv, <1>1, PTL DEF RunnerSpec
====
