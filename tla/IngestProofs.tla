---------------------------- MODULE IngestProofs ----------------------------
(***************************************************************************)
(* Theorems about the ingest service for any number of messages, any batch *)
(* size and any number of database failures: no buffered row is lost while *)
(* the process lives, and none is held twice.                              *)
(*                                                                         *)
(* The ring and the three batches are treated alike, as four holders of    *)
(* rows: a step of flushNow moves everything one holder has to another, or *)
(* into the table.                                                         *)
(***************************************************************************)
EXTENDS Ingest, SequenceTheorems, TLAPS

Holders == {"ring"} \cup Flushers
Held(h) == IF h = "ring" THEN ring ELSE flush[h].batch

(* main flushes only after Disconnect. *)
MainIdle == phase \in {"running", "signalled"} => flush["main"].pc = "idle"

(* What is held or stored was received before. *)
Received ==
  /\ accepted \cap pending = {}
  /\ \A h \in Holders : Range(Held(h)) \subseteq accepted
  /\ \A m \in Messages : db[m] # 0 => m \in accepted

(* Nobody holds a row twice, and no two hold the same. *)
Apart ==
  /\ \A h \in Holders : IsInjective(Held(h))
  /\ \A g, h \in Holders : g # h => Range(Held(g)) \cap Range(Held(h)) = {}

(* Before anything has failed, what is held is not stored yet. *)
Fresh ==
  failed = 0 /\ phase = "running" =>
    \A h \in Holders : \A m \in Range(Held(h)) : db[m] = 0

(* NothingLost, with the holders. *)
Kept == phase # "exited" =>
          \A m \in accepted : db[m] > 0 \/ \E h \in Holders : m \in Range(Held(h))

TypeInv == IngestTypeOK /\ MainIdle
IngestInv == TypeInv /\ Received /\ Apart /\ Fresh /\ Kept

-----------------------------------------------------------------------------
(* The rows of an empty ring, of a ring with one more message and of a     *)
(* requeued batch.                                                         *)
LEMMA EmptyRows == Range(<<>>) = {} /\ IsInjective(<<>>)
BY DEF Range, IsInjective

LEMMA AppendRows ==
  ASSUME NEW S, NEW s \in Seq(S), NEW m \in S
  PROVE  /\ Range(Append(s, m)) = Range(s) \cup {m}
         /\ IsInjective(s) /\ m \notin Range(s) => IsInjective(Append(s, m))
<1>1. /\ DOMAIN Append(s, m) = 1 .. Len(s) + 1 /\ DOMAIN s = 1 .. Len(s) /\ Len(s) \in Nat
      /\ \A i \in 1 .. Len(s) : Append(s, m)[i] = s[i]
      /\ Append(s, m)[Len(s) + 1] = m
  OBVIOUS
<1>2. Range(Append(s, m)) = Range(s) \cup {m}
  BY <1>1 DEF Range
<1>3. ASSUME IsInjective(s), m \notin Range(s)
      PROVE  IsInjective(Append(s, m))
  BY <1>1, <1>3 DEF Range, IsInjective
<1> QED BY <1>2, <1>3

LEMMA ConcatRows ==
  ASSUME NEW S, NEW s \in Seq(S), NEW t \in Seq(S)
  PROVE  /\ Range(s \o t) = Range(s) \cup Range(t)
         /\ IsInjective(s) /\ IsInjective(t) /\ Range(s) \cap Range(t) = {}
              => IsInjective(s \o t)
<1>1. /\ DOMAIN (s \o t) = 1 .. Len(s) + Len(t) /\ Len(s) \in Nat /\ Len(t) \in Nat
      /\ DOMAIN s = 1 .. Len(s) /\ DOMAIN t = 1 .. Len(t)
      /\ \A i \in 1 .. Len(s) + Len(t) :
           (s \o t)[i] = IF i <= Len(s) THEN s[i] ELSE t[i - Len(s)]
  OBVIOUS
<1>2. \A i \in 1 .. Len(t) : Len(s) + i \in DOMAIN (s \o t) /\ (s \o t)[Len(s) + i] = t[i]
  BY <1>1
<1>3. Range(s \o t) = Range(s) \cup Range(t)
  <2>1. Range(s \o t) \subseteq Range(s) \cup Range(t)
    BY <1>1 DEF Range
  <2>2. Range(s) \subseteq Range(s \o t)
    BY <1>1 DEF Range
  <2>3. Range(t) \subseteq Range(s \o t)
    BY <1>2, <1>1 DEF Range
  <2> QED BY <2>1, <2>2, <2>3
<1>4. ASSUME IsInjective(s), IsInjective(t), Range(s) \cap Range(t) = {},
             NEW a \in DOMAIN (s \o t), NEW b \in DOMAIN (s \o t), (s \o t)[a] = (s \o t)[b]
      PROVE  a = b
  <2>1. CASE a <= Len(s) /\ b <= Len(s)
    BY <1>1, <1>4, <2>1 DEF IsInjective
  <2>2. CASE a > Len(s) /\ b > Len(s)
    <3>1. t[a - Len(s)] = t[b - Len(s)] /\ a - Len(s) \in DOMAIN t /\ b - Len(s) \in DOMAIN t
      BY <1>1, <1>4, <2>2
    <3>2. a - Len(s) = b - Len(s)
      BY <3>1, <1>4 DEF IsInjective
    <3> QED BY <3>2, <1>1
  <2>3. CASE a <= Len(s) /\ b > Len(s)
    <3>1. s[a] \in Range(s) /\ t[b - Len(s)] \in Range(t) /\ s[a] = t[b - Len(s)]
      BY <1>1, <1>4, <2>3 DEF Range
    <3> QED BY <3>1, <1>4
  <2>4. CASE a > Len(s) /\ b <= Len(s)
    <3>1. s[b] \in Range(s) /\ t[a - Len(s)] \in Range(t) /\ s[b] = t[a - Len(s)]
      BY <1>1, <1>4, <2>4 DEF Range
    <3> QED BY <3>1, <1>4
  <2> QED BY <1>1, <2>1, <2>2, <2>3, <2>4
<1> QED BY <1>3, <1>4 DEF IsInjective

(* Everything held is a message. *)
LEMMA HeldTyped ==
  ASSUME IngestTypeOK, NEW h \in Holders
  PROVE  Held(h) \in Seq(Messages) /\ Range(Held(h)) \subseteq Messages
<1>1. Held(h) \in Seq(Messages)
  BY DEF IngestTypeOK, Holders, Held
<1> QED BY <1>1 DEF Range

(* The idle, the finished and the one about to take hold nothing. *)
LEMMA EmptyHanded ==
  ASSUME IngestTypeOK, NEW f \in Flushers, flush[f].pc \notin {"acquire", "exec", "requeue"}
  PROVE  flush[f].batch = <<>>
BY DEF IngestTypeOK

-----------------------------------------------------------------------------
(* Initially nothing was received. *)
LEMMA InitInv == IngestInit => IngestInv
<1> SUFFICES ASSUME IngestInit PROVE IngestInv
  OBVIOUS
<1>1. TypeInv
  BY IngestAssumption DEF IngestInit, TypeInv, IngestTypeOK, MainIdle, Flushers
<1>2. \A h \in Holders : Held(h) = <<>>
  BY DEF IngestInit, Holders, Held
<1>3. Received /\ Apart /\ Fresh
  BY <1>2, EmptyRows DEF IngestInit, Received, Apart, Fresh
<1>4. Kept
  BY DEF IngestInit, Kept
<1> QED BY <1>1, <1>3, <1>4 DEF IngestInv

(* Storing a batch keeps the type of the table. *)
LEMMA CommittedTyped ==
  ASSUME IngestTypeOK, NEW f \in Flushers
  PROVE  Committed(f) \in [Messages -> Nat]
BY DEF IngestTypeOK, Committed

(* Every step keeps the types. *)
LEMMA StepTypes == TypeInv /\ [IngestNext]_ivars => TypeInv'
<1> SUFFICES ASSUME TypeInv, [IngestNext]_ivars PROVE TypeInv'
  OBVIOUS
<1> USE DEF TypeInv, IngestTypeOK, MainIdle, link
<1>1. ASSUME NEW m \in Messages, Receive(m)
      PROVE  TypeInv'
  <2>1. ring' \in Seq(Messages)
    BY <1>1 DEF Receive
  <2>2. /\ flush' \in [Flushers -> [pc : {"idle", "take", "acquire", "exec", "requeue", "done"},
                                    batch : Seq(Messages)]]
        /\ \A f \in Flushers :
             flush'[f].batch # <<>> <=> flush'[f].pc \in {"acquire", "exec", "requeue"}
        /\ flush'["main"] = flush["main"]
    BY <1>1 DEF Receive, Flushers
  <2> QED BY <1>1, <2>1, <2>2 DEF Receive
<1>2. ASSUME NEW f \in Flushers, Take(f)
      PROVE  TypeInv'
  BY <1>2 DEF Take, After, Flushers
<1>3. ASSUME NEW f \in Flushers, ExecOK(f)
      PROVE  TypeInv'
  <2>1. db' \in [Messages -> Nat]
    BY <1>3, CommittedTyped DEF ExecOK
  <2>2. /\ flush[f].pc = "exec"
        /\ flush' = [flush EXCEPT ![f] = [pc |-> After(f), batch |-> <<>>]]
        /\ UNCHANGED <<pending, accepted, ring, phase, due, failed, sub, losses>>
    BY <1>3 DEF ExecOK
  <2>3. /\ flush' \in [Flushers -> [pc : {"idle", "take", "acquire", "exec", "requeue", "done"},
                                    batch : Seq(Messages)]]
        /\ \A g \in Flushers :
             flush'[g].batch # <<>> <=> flush'[g].pc \in {"acquire", "exec", "requeue"}
        /\ flush["main"].pc = "idle" => flush'["main"].pc = "idle"
    BY <2>2 DEF After, Flushers
  <2> QED BY <2>1, <2>2, <2>3
<1>4. ASSUME NEW f \in Flushers, ExecFails(f)
      PROVE  TypeInv'
  <2>1. db' \in [Messages -> Nat]
    BY <1>4, CommittedTyped DEF ExecFails
  <2>2. failed' \in 0 .. MaxFaults
    BY <1>4, IngestAssumption DEF ExecFails
  <2> QED BY <1>4, <2>1, <2>2 DEF ExecFails, Flushers
<1>5. ASSUME NEW f \in Flushers, Requeue(f)
      PROVE  TypeInv'
  <2>1. ring' \in Seq(Messages)
    <3>1. flush[f].batch \in Seq(Messages)
      OBVIOUS
    <3> QED BY <1>5, <3>1, ConcatProperties DEF Requeue
  <2>2. /\ flush' = [flush EXCEPT ![f] = [pc |-> After(f), batch |-> <<>>]]
        /\ flush[f].pc = "requeue"
        /\ UNCHANGED <<pending, accepted, db, phase, due, failed, sub, losses>>
    BY <1>5 DEF Requeue
  <2>3. /\ flush' \in [Flushers -> [pc : {"idle", "take", "acquire", "exec", "requeue", "done"},
                                    batch : Seq(Messages)]]
        /\ \A g \in Flushers :
             flush'[g].batch # <<>> <=> flush'[g].pc \in {"acquire", "exec", "requeue"}
        /\ flush["main"].pc = "idle" => flush'["main"].pc = "idle"
    BY <2>2 DEF After, Flushers
  <2> QED BY <2>1, <2>2, <2>3
<1>6. CASE LoopTick \/ LoopStops
  <2>1. CASE LoopTick
    BY <2>1 DEF LoopTick, Flushers
  <2>2. CASE LoopStops
    BY <2>2 DEF LoopStops, Flushers
  <2> QED BY <1>6, <2>1, <2>2
<1>7. CASE Sigterm \/ Close \/ Exit
  BY <1>7 DEF Sigterm, Close, Exit
<1>8. CASE Disconnect
  BY <1>8 DEF Disconnect, Flushers
<1>9. CASE UNCHANGED ivars
  BY <1>9 DEF ivars
<1>10. CASE Subscribe \/ SubscribeFails \/ ConnectionLost
  BY <1>10, IngestAssumption DEF Subscribe, SubscribeFails, ConnectionLost
<1>11. ASSUME NEW m \in Messages, Miss(m)
       PROVE  TypeInv'
  BY <1>11 DEF Miss
<1>12. ASSUME NEW f \in Flushers, Acquire(f)
       PROVE  TypeInv'
  BY <1>12 DEF Acquire, Flushers
<1> QED
  BY <1>1, <1>2, <1>3, <1>4, <1>5, <1>6, <1>7, <1>8, <1>9, <1>10, <1>11, <1>12
     DEF IngestNext, FlushStep

-----------------------------------------------------------------------------
(* What each step does to the holders. *)
LEMMA ReceiveMoves ==
  ASSUME IngestTypeOK, NEW m \in Messages, Receive(m)
  PROVE  \A h \in Holders : Held(h)' = IF h = "ring" THEN Append(ring, m) ELSE Held(h)
BY DEF Receive, Holders, Held, Flushers, IngestTypeOK

LEMMA TakeMoves ==
  ASSUME IngestTypeOK, NEW f \in Flushers, Take(f)
  PROVE  /\ Held(f) = <<>>
         /\ \A h \in Holders : Held(h)' = CASE h = "ring" -> <<>> [] h = f -> ring
                                            [] OTHER -> Held(h)
<1>1. Held(f) = <<>>
  BY EmptyHanded DEF Take, Held, Flushers
<1> QED BY <1>1 DEF Take, Holders, Held, Flushers, IngestTypeOK

LEMMA ExecMoves ==
  ASSUME IngestTypeOK, NEW f \in Flushers, ExecOK(f)
  PROVE  \A h \in Holders : Held(h)' = IF h = f THEN <<>> ELSE Held(h)
BY DEF ExecOK, Holders, Held, Flushers, IngestTypeOK

LEMMA RequeueMoves ==
  ASSUME IngestTypeOK, NEW f \in Flushers, Requeue(f)
  PROVE  \A h \in Holders : /\ h = "ring" => Held(h)' = Held(f) \o ring
                            /\ h = f => Held(h)' = <<>>
                            /\ h \notin {"ring", f} => Held(h)' = Held(h)
BY DEF Requeue, Holders, Held, Flushers, IngestTypeOK

LEMMA OthersHold ==
  ASSUME IngestTypeOK,
         \/ \E f \in Flushers : Acquire(f) \/ ExecFails(f)
         \/ LoopTick \/ LoopStops \/ Sigterm \/ Disconnect \/ Close \/ Exit \/ UNCHANGED ivars
         \/ Subscribe \/ SubscribeFails \/ ConnectionLost \/ \E m \in Messages : Miss(m)
  PROVE  \A h \in Holders : Held(h)' = Held(h)
<1> USE DEF Holders, Held, Flushers, IngestTypeOK
<1>1. ASSUME NEW f \in Flushers, Acquire(f) \/ ExecFails(f)
      PROVE  \A h \in Holders : Held(h)' = Held(h)
  <2>1. ring' = ring /\ \E p : flush' = [flush EXCEPT ![f].pc = p]
    BY <1>1 DEF Acquire, ExecFails
  <2> QED BY <2>1
<1>2. CASE LoopTick \/ LoopStops \/ Disconnect
  BY <1>2 DEF LoopTick, LoopStops, Disconnect
<1>3. CASE \/ Sigterm \/ Close \/ Exit \/ UNCHANGED ivars
           \/ Subscribe \/ SubscribeFails \/ ConnectionLost \/ \E m \in Messages : Miss(m)
  <2>1. UNCHANGED <<ring, flush>>
    BY <1>3 DEF Sigterm, Close, Exit, ivars, Subscribe, SubscribeFails, ConnectionLost, Miss
  <2> QED BY <2>1
<1> QED BY <1>1, <1>2, <1>3

RowsInv == Received /\ Apart /\ Fresh /\ Kept

(* A received message is new to every holder. *)
LEMMA ReceiveRows ==
  ASSUME IngestInv, NEW m \in Messages, Receive(m)
  PROVE  RowsInv'
<1> USE DEF IngestInv, TypeInv, RowsInv
<1>1. "ring" \in Holders /\ Held("ring") = ring /\ ring \in Seq(Messages)
  BY DEF Holders, Held, IngestTypeOK
<1>2. m \in pending /\ pending' = pending \ {m} /\ accepted' = accepted \cup {m}
      /\ db' = db /\ phase' = phase /\ failed' = failed
  BY DEF Receive
<1>3. \A h \in Holders : m \notin Range(Held(h))
  BY <1>2 DEF Received
<1>4. /\ Range(Append(ring, m)) = Range(ring) \cup {m}
      /\ IsInjective(Append(ring, m))
  BY <1>1, <1>3, AppendRows DEF Apart
<1>5. \A h \in Holders :
        /\ IsInjective(Held(h)')
        /\ Range(Held(h)') = IF h = "ring" THEN Range(Held(h)) \cup {m} ELSE Range(Held(h))
  BY <1>1, <1>4, ReceiveMoves DEF Apart
<1>6. Received'
  BY <1>2, <1>5, HeldTyped DEF Received
<1>7. Apart'
  BY <1>3, <1>5 DEF Apart
<1>8. Fresh'
  BY <1>2, <1>5 DEF Fresh, Received
<1>9. Kept'
  BY <1>1, <1>2, <1>5 DEF Kept
<1> QED BY <1>6, <1>7, <1>8, <1>9

(* flushNow takes everything from the ring, with empty hands. *)
LEMMA TakeRows ==
  ASSUME IngestInv, NEW f \in Flushers, Take(f)
  PROVE  RowsInv'
<1> USE DEF IngestInv, TypeInv, RowsInv
<1>1. f \in Holders /\ f # "ring" /\ "ring" \in Holders /\ Held("ring") = ring
  BY DEF Holders, Held, Flushers
<1>2. UNCHANGED <<pending, accepted, db, phase, failed>>
  BY DEF Take
<1>3. \A h \in Holders :
        /\ IsInjective(Held(h)')
        /\ Range(Held(h)') = CASE h = "ring" -> {} [] h = f -> Range(Held("ring"))
                               [] OTHER -> Range(Held(h))
  BY <1>1, EmptyRows, TakeMoves DEF Apart
<1>4. Range(Held(f)) = {}
  BY TakeMoves, EmptyRows
<1>5. Received'
  BY <1>1, <1>2, <1>3 DEF Received
<1>6. Apart'
  BY <1>1, <1>3 DEF Apart
<1>7. Fresh'
  BY <1>1, <1>2, <1>3 DEF Fresh
<1>8. Kept'
  BY <1>1, <1>2, <1>3, <1>4 DEF Kept
<1> QED BY <1>5, <1>6, <1>7, <1>8

(* A stored batch leaves its flusher. *)
LEMMA ExecRows ==
  ASSUME IngestInv, NEW f \in Flushers, ExecOK(f)
  PROVE  RowsInv'
<1> USE DEF IngestInv, TypeInv, RowsInv
<1>1. f \in Holders /\ Held(f) = flush[f].batch
  BY DEF Holders, Held, Flushers
<1>2. /\ UNCHANGED <<pending, accepted, phase, failed>>
      /\ db \in [Messages -> Nat] /\ accepted \subseteq Messages
      /\ \A m \in Messages : db'[m] = IF m \in Range(Held(f)) THEN db[m] + 1 ELSE db[m]
  BY <1>1 DEF ExecOK, Committed, IngestTypeOK
<1>3. \A h \in Holders :
        /\ IsInjective(Held(h)')
        /\ Range(Held(h)') = IF h = f THEN {} ELSE Range(Held(h))
  BY EmptyRows, ExecMoves DEF Apart
<1>4. Received'
  BY <1>1, <1>2, <1>3 DEF Received
<1>5. Apart'
  BY <1>3 DEF Apart
<1>6. Fresh'
  BY <1>1, <1>2, <1>3, HeldTyped DEF Fresh, Apart
<1>7. Kept'
  BY <1>1, <1>2, <1>3 DEF Kept
<1> QED BY <1>4, <1>5, <1>6, <1>7

(* A failed batch stays where it is, stored or not. *)
LEMMA ExecFailsRows ==
  ASSUME IngestInv, NEW f \in Flushers, ExecFails(f)
  PROVE  RowsInv'
<1> USE DEF IngestInv, TypeInv, RowsInv
<1>1. f \in Holders /\ Held(f) = flush[f].batch
  BY DEF Holders, Held, Flushers
<1>2. /\ UNCHANGED <<pending, accepted, phase>>
      /\ db \in [Messages -> Nat] /\ accepted \subseteq Messages
      /\ failed \in Nat /\ failed' \in {failed, failed + 1}
  BY IngestAssumption DEF ExecFails, IngestTypeOK
<1>3. db' = db \/ (db' = Committed(f) /\ (failed' = failed + 1 \/ phase # "running"))
  BY DEF ExecFails, Cancelled
<1>4. \A m \in Messages : db'[m] = db[m] \/ (m \in Range(Held(f)) /\ db'[m] = db[m] + 1)
  BY <1>1, <1>2, <1>3 DEF Committed
<1>5. \A h \in Holders : Held(h)' = Held(h)
  BY OthersHold
<1>6. Received'
  BY <1>1, <1>2, <1>4, <1>5 DEF Received
<1>7. Apart'
  BY <1>5 DEF Apart
<1>8. Fresh'
  BY <1>2, <1>3, <1>5 DEF Fresh
<1>9. Kept'
  BY <1>2, <1>4, <1>5 DEF Kept
<1> QED BY <1>6, <1>7, <1>8, <1>9

(* A failed batch goes back to the front of the ring. *)
LEMMA RequeueRows ==
  ASSUME IngestInv, NEW f \in Flushers, Requeue(f)
  PROVE  RowsInv'
<1> USE DEF IngestInv, TypeInv, RowsInv
<1>1. f \in Holders /\ f # "ring" /\ "ring" \in Holders /\ Held("ring") = ring
  BY DEF Holders, Held, Flushers
<1>2. UNCHANGED <<pending, accepted, db, phase, failed>>
  BY DEF Requeue
<1>3. /\ Range(Held(f) \o ring) = Range(Held(f)) \cup Range(Held("ring"))
      /\ IsInjective(Held(f) \o ring)
  <2>1. Held(f) \in Seq(Messages) /\ ring \in Seq(Messages)
    BY <1>1, HeldTyped
  <2>2. IsInjective(Held(f)) /\ IsInjective(ring) /\ Range(Held(f)) \cap Range(ring) = {}
    BY <1>1 DEF Apart
  <2> QED BY <1>1, <2>1, <2>2, ConcatRows
<1>4. \A h \in Holders :
        /\ IsInjective(Held(h)')
        /\ Range(Held(h)') = CASE h = "ring" -> Range(Held(f)) \cup Range(Held("ring"))
                               [] h = f -> {} [] OTHER -> Range(Held(h))
  <2> SUFFICES ASSUME NEW h \in Holders
               PROVE  /\ IsInjective(Held(h)')
                      /\ Range(Held(h)') = CASE h = "ring" -> Range(Held(f)) \cup Range(Held("ring"))
                                             [] h = f -> {} [] OTHER -> Range(Held(h))
    OBVIOUS
  <2>1. CASE h = "ring"
    BY <2>1, <1>1, <1>3, RequeueMoves
  <2>2. CASE h = f
    BY <2>2, <1>1, EmptyRows, RequeueMoves
  <2>3. CASE h # "ring" /\ h # f
    BY <2>3, RequeueMoves DEF Apart
  <2> QED BY <2>1, <2>2, <2>3
<1>5. Received'
  BY <1>1, <1>2, <1>4 DEF Received
<1>6. Apart'
  BY <1>1, <1>4 DEF Apart
<1>7. Fresh'
  BY <1>1, <1>2, <1>4 DEF Fresh
<1>8. Kept'
  BY <1>1, <1>2, <1>4 DEF Kept
<1> QED BY <1>5, <1>6, <1>7, <1>8

(* The other steps move no row. *)
LEMMA OtherRows ==
  ASSUME IngestInv,
         \/ LoopTick \/ LoopStops \/ Sigterm \/ Disconnect \/ Close \/ Exit \/ UNCHANGED ivars
         \/ Subscribe \/ SubscribeFails \/ ConnectionLost \/ \E m \in Messages : Miss(m)
         \/ \E f \in Flushers : Acquire(f)
  PROVE  RowsInv'
<1> USE DEF IngestInv, TypeInv, RowsInv
<1>1. \A h \in Holders : Held(h)' = Held(h)
  BY OthersHold
<1>2. /\ pending' \subseteq pending /\ UNCHANGED <<accepted, db, failed>>
      /\ phase' = "running" => phase = "running"
      /\ phase' # "exited" => phase # "exited"
  BY DEF LoopTick, LoopStops, Sigterm, Disconnect, Close, Exit, ivars,
         Subscribe, SubscribeFails, ConnectionLost, Miss, Acquire
<1>3. Received' /\ Apart' /\ Fresh' /\ Kept'
  BY <1>1, <1>2 DEF Received, Apart, Fresh, Kept
<1> QED BY <1>3

(* The invariant holds throughout. *)
LEMMA InvHolds == IngestSpec => []IngestInv
<1>1. IngestInv /\ [IngestNext]_ivars => IngestInv'
  <2> SUFFICES ASSUME IngestInv, [IngestNext]_ivars PROVE IngestInv'
    OBVIOUS
  <2>1. TypeInv'
    BY StepTypes DEF IngestInv
  <2>2. RowsInv'
    BY ReceiveRows, TakeRows, ExecRows, ExecFailsRows, RequeueRows, OtherRows
       DEF IngestNext, FlushStep
  <2> QED BY <2>1, <2>2 DEF IngestInv, RowsInv
<1> QED BY <1>1, InitInv, PTL DEF IngestSpec

-----------------------------------------------------------------------------
(* Types hold, and a flusher holds rows exactly from taking them until its *)
(* INSERT is answered or they are back in the ring (flushNow).             *)
THEOREM IngestTyped == IngestSpec => []IngestTypeOK
<1>1. IngestInv => IngestTypeOK
  BY DEF IngestInv, TypeInv
<1> QED BY <1>1, InvHolds, PTL

(* Whatever handleMessage has buffered is in the table, in the ring or in  *)
(* a batch for as long as the process lives, for any number of messages,   *)
(* failed INSERTs and interleavings of the three flushers.                 *)
THEOREM NothingLostHolds == IngestSpec => []NothingLost
<1>1. IngestInv => NothingLost
  <2> SUFFICES ASSUME Kept PROVE NothingLost
    BY DEF IngestInv
  <2>1. \A h \in Holders : Range(Held(h)) \subseteq InMemory
    BY DEF Holders, Held, InMemory
  <2> QED BY <2>1 DEF Kept, NothingLost
<1> QED BY <1>1, InvHolds, PTL

(* The ring and the batches of the three flushers never share a row and    *)
(* none has it twice; until an INSERT fails no row that is stored is still *)
(* in memory (flushNow takes and puts back under ringMu).                  *)
THEOREM OneCopyHolds == IngestSpec => []OneCopy
<1>1. IngestInv => OneCopy
  <2> SUFFICES ASSUME IngestInv PROVE OneCopy
    OBVIOUS
  <2> DEFINE b == <<ring, flush["handler"].batch, flush["loop"].batch, flush["main"].batch>>
             holder == <<"ring", "handler", "loop", "main">>
  <2>1. \A i \in 1..4 : holder[i] \in Holders /\ b[i] = Held(holder[i])
    BY DEF Holders, Held, Flushers
  <2>2. \A i, j \in 1..4 : i # j => holder[i] # holder[j]
    OBVIOUS
  <2> HIDE DEF b, holder
  <2>3. \A i \in 1..4 : IsInjective(b[i])
    BY <2>1 DEF IngestInv, Apart
  <2>4. \A i, j \in 1..4 : i # j => Range(b[i]) \cap Range(b[j]) = {}
    BY <2>1, <2>2 DEF IngestInv, Apart
  <2>5. \A m \in InMemory : \E h \in Holders : m \in Range(Held(h))
    BY DEF InMemory, Holders, Held, Flushers
  <2>6. failed = 0 /\ phase = "running" => \A m \in InMemory : db[m] = 0
    BY <2>5 DEF IngestInv, Fresh
  <2> QED BY <2>3, <2>4, <2>6 DEF OneCopy, b
<1> QED BY <1>1, InvHolds, PTL

-----------------------------------------------------------------------------
(* The ingest service implements Delivery.                                 *)

(* What is in memory is what somebody holds, now and after a step. *)
LEMMA MemoryHeld ==
  /\ InMemory = UNION {Range(Held(h)) : h \in Holders}
  /\ InMemory' = UNION {Range(Held(h)') : h \in Holders}
<1>1. \A m : m \in InMemory <=> \E h \in Holders : m \in Range(Held(h))
  BY DEF InMemory, Holders, Held, Flushers
<1>2. \A m : m \in InMemory' <=> \E h \in Holders : m \in Range(Held(h)')
  BY DEF InMemory, Holders, Held, Flushers
<1> QED BY <1>1, <1>2

(* The rows in the table. *)
InTable == {m \in Messages : db[m] > 0}

(* A committed batch is added to the table, and nothing else changes there. *)
LEMMA CommitStores ==
  ASSUME IngestTypeOK, NEW f \in Flushers, db' = Committed(f)
  PROVE  InTable' = InTable \cup Range(Held(f))
<1>1. Held(f) = flush[f].batch /\ Range(Held(f)) \subseteq Messages
  BY HeldTyped DEF Held, Holders, Flushers
<1>2. \A m \in Messages : /\ db[m] \in Nat
                          /\ db'[m] = IF m \in Range(Held(f)) THEN db[m] + 1 ELSE db[m]
  BY <1>1 DEF Committed, IngestTypeOK
<1>3. \A m \in Messages : db'[m] > 0 <=> db[m] > 0 \/ m \in Range(Held(f))
  BY <1>2
<1> QED BY <1>1, <1>3 DEF InTable

(* Every step is one of Delivery, or leaves what Delivery sees unchanged. *)
LEMMA StepDelivers ==
  ASSUME IngestInv, [IngestNext]_ivars
  PROVE  [Promise!Next]_<<pending, InMemory, InTable, phase # "exited">>
<1> USE DEF IngestInv, TypeInv
<1> DEFINE Same == UNCHANGED <<InMemory, InTable, phase # "exited">>
(* Receive accepts a message. *)
<1>1. ASSUME NEW m \in Messages, Receive(m) PROVE Promise!Accept(m)
  <2>1. /\ m \in pending /\ pending' = pending \ {m} /\ db' = db
        /\ phase' = phase /\ phase # "exited"
    BY <1>1 DEF Receive
  <2>2. \A h \in Holders : Range(Held(h)') = IF h = "ring" THEN Range(Held(h)) \cup {m}
                                                          ELSE Range(Held(h))
    <3>1. Range(Append(ring, m)) = Range(ring) \cup {m}
      <4>1. ring \in Seq(Messages)
        BY DEF IngestTypeOK
      <4> QED BY <4>1, AppendRows
    <3>2. Held("ring") = ring
      BY DEF Held
    <3> QED BY <1>1, <3>1, <3>2, ReceiveMoves
  <2>3. InMemory' = InMemory \cup {m}
    BY <2>2, MemoryHeld DEF Holders
  <2> QED BY <2>1, <2>3 DEF Promise!Accept
(* flushNow moves rows within the memory of the process. *)
<1>2. ASSUME NEW f \in Flushers, Take(f) PROVE pending' = pending /\ Same
  <2>1. UNCHANGED <<pending, db, phase>>
    BY <1>2 DEF Take
  <2>2. f \in Holders /\ f # "ring" /\ "ring" \in Holders /\ Held("ring") = ring
    BY DEF Holders, Held, Flushers
  <2>3. Range(Held(f)) = {}
    BY <1>2, TakeMoves, EmptyRows
  <2>4. \A h \in Holders : Range(Held(h)') = CASE h = "ring" -> {} [] h = f -> Range(Held("ring"))
                                               [] OTHER -> Range(Held(h))
    BY <1>2, <2>2, EmptyRows, TakeMoves
  <2>5. InMemory' = InMemory
    BY <2>2, <2>3, <2>4, MemoryHeld
  <2> QED BY <2>1, <2>5 DEF InTable
<1>3. ASSUME NEW f \in Flushers, Requeue(f) PROVE pending' = pending /\ Same
  <2>1. UNCHANGED <<pending, db, phase>>
    BY <1>3 DEF Requeue
  <2>2. f \in Holders /\ f # "ring" /\ "ring" \in Holders /\ Held("ring") = ring
    BY DEF Holders, Held, Flushers
  <2>3. Range(Held(f) \o ring) = Range(Held(f)) \cup Range(Held("ring"))
    <3>1. Held(f) \in Seq(Messages) /\ ring \in Seq(Messages)
      BY <2>2, HeldTyped
    <3>2. IsInjective(Held(f)) /\ IsInjective(ring) /\ Range(Held(f)) \cap Range(ring) = {}
      BY <2>2 DEF Apart
    <3> QED BY <2>2, <3>1, <3>2, ConcatRows
  <2>4. /\ Range(Held("ring")') = Range(Held(f)) \cup Range(Held("ring"))
        /\ Range(Held(f)') = {}
        /\ \A h \in Holders : h # "ring" /\ h # f => Range(Held(h)') = Range(Held(h))
    BY <1>3, <2>2, <2>3, EmptyRows, RequeueMoves
  <2>5. InMemory' = InMemory
    BY <2>2, <2>4, MemoryHeld
  <2> QED BY <2>1, <2>5 DEF InTable
(* An answered INSERT stores the batch and lets go of it. *)
<1>4. ASSUME NEW f \in Flushers, ExecOK(f) PROVE \E S \in SUBSET Messages : Promise!Store(S)
  <2>1. UNCHANGED <<pending, phase>> /\ db' = Committed(f) /\ phase # "exited"
    BY <1>4 DEF ExecOK
  <2>2. f \in Holders /\ Range(Held(f)) \in SUBSET Messages
    BY HeldTyped DEF Holders, Flushers
  <2>3. \A h \in Holders : Range(Held(h)') = IF h = f THEN {} ELSE Range(Held(h))
    BY <1>4, EmptyRows, ExecMoves
  <2>4. \A h \in Holders : h # f => Range(Held(h)) \cap Range(Held(f)) = {}
    BY <2>2 DEF Apart
  <2>5. InMemory' = InMemory \ Range(Held(f)) /\ Range(Held(f)) \subseteq InMemory
    BY <2>2, <2>3, <2>4, MemoryHeld
  <2>6. InTable' = InTable \cup Range(Held(f))
    BY <2>1, CommitStores
  <2> QED BY <2>1, <2>2, <2>5, <2>6 DEF Promise!Store, InTable
(* A failed one may have stored the batch, and keeps it. *)
<1>5. ASSUME NEW f \in Flushers, ExecFails(f)
      PROVE  \/ pending' = pending /\ Same
             \/ \E S \in SUBSET Messages : Promise!Store(S)
  <2>1. /\ UNCHANGED <<pending, phase>> /\ phase # "exited"
        /\ db' = db \/ db' = Committed(f)
    BY <1>5 DEF ExecFails
  <2>2. f \in Holders /\ Range(Held(f)) \in SUBSET Messages
    BY HeldTyped DEF Holders, Flushers
  <2>3. InMemory' = InMemory /\ Range(Held(f)) \subseteq InMemory
    BY <1>5, <2>2, OthersHold, MemoryHeld
  <2>4. CASE db' = db
    BY <2>1, <2>3, <2>4 DEF InTable
  <2>5. CASE db' = Committed(f)
    <3>1. InTable' = InTable \cup Range(Held(f))
      BY <2>5, CommitStores
    <3> QED BY <2>1, <2>2, <2>3, <3>1 DEF Promise!Store, InTable
  <2> QED BY <2>1, <2>4, <2>5
<1>6. ASSUME NEW m \in Messages, Miss(m) PROVE Promise!Miss(m)
  <2>1. InMemory' = InMemory
    BY <1>6, OthersHold, MemoryHeld
  <2> QED BY <1>6, <2>1 DEF Miss, Promise!Miss, InTable
<1>7. CASE Exit
  <2>1. InMemory' = InMemory
    BY <1>7, OthersHold, MemoryHeld
  <2> QED BY <1>7, <2>1 DEF Exit, Promise!Next, Promise!Stop, InTable
<1>8. CASE LoopTick \/ LoopStops \/ Sigterm \/ Disconnect \/ Close \/ UNCHANGED ivars
           \/ Subscribe \/ SubscribeFails \/ ConnectionLost \/ \E f \in Flushers : Acquire(f)
  <2>1. InMemory' = InMemory
    BY <1>8, OthersHold, MemoryHeld
  <2>2. UNCHANGED <<pending, db>> /\ (phase # "exited")' = (phase # "exited")
    BY <1>8 DEF LoopTick, LoopStops, Sigterm, Disconnect, Close, ivars, Subscribe,
       SubscribeFails, ConnectionLost, Acquire
  <2> QED BY <2>1, <2>2 DEF InTable
<1> QED
  BY <1>1, <1>2, <1>3, <1>4, <1>5, <1>6, <1>7, <1>8 DEF IngestNext, FlushStep, Promise!Next

(* ImplementsDelivery: for any number of messages, any batch size, any      *)
(* failures and any interleaving of handleMessage, flushLoop and main, a    *)
(* buffered row leaves the memory of the process only in the step that      *)
(* stores it, nothing leaves the table, and nothing moves after the exit.   *)
THEOREM DeliveryImplemented == IngestSpec => ImplementsDelivery
<1>1. IngestInit => Promise!Init
  <2> SUFFICES ASSUME IngestInit PROVE Promise!Init
    OBVIOUS
  <2>1. \A h \in Holders : Held(h) = <<>>
    BY DEF IngestInit, Holders, Held
  <2>2. InMemory = {}
    BY <2>1, MemoryHeld, EmptyRows
  <2> QED BY <2>2 DEF IngestInit, Promise!Init
<1>2. IngestInv /\ [IngestNext]_ivars
        => [Promise!Next]_<<pending, InMemory, {m \in Messages : db[m] > 0}, phase # "exited">>
  BY StepDelivers DEF InTable
<1> QED BY <1>1, <1>2, InvHolds, PTL DEF IngestSpec, ImplementsDelivery, Promise!Spec
====
