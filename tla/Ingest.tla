------------------------------- MODULE Ingest -------------------------------
(***************************************************************************)
(* The ingest service of a site (services/ingest/main.go): MQTT messages   *)
(* are appended to an in-memory ring that three goroutines flush into      *)
(* TimescaleDB: the message handler when the ring reaches BatchSize, the   *)
(* ticker's flushLoop, and main after SIGTERM.  ringMu protects the ring   *)
(* but not the INSERT, so batches of several goroutines are in flight at   *)
(* once, and a failed one goes back to the front of the ring.              *)
(*                                                                         *)
(* A message stands for its row: decoding decides which columns are filled *)
(* and never drops the row.  A flush under a context that has ended, and a *)
(* lost connection, fail without telling whether the rows were committed.  *)
(*                                                                         *)
(* The subscription lives as long as the MQTT connection: autopaho         *)
(* reconnects for ever and calls OnConnectionUp each time, the broker      *)
(* keeps no session, and what is published meanwhile reaches nobody.       *)
(***************************************************************************)
EXTENDS Integers, FiniteSets, SequencesExt

CONSTANTS
  Messages,     \* messages the broker delivers
  BatchSize,    \* INGEST_BATCH_SIZE
  MaxRows,      \* rows one INSERT can carry: 65535 bind parameters, 6 a row
  Signals,      \* TRUE if SIGTERM may arrive
  MaxFaults,    \* bound on failures of the database
  MaxLosses     \* bound on lost connections and refused subscriptions

ASSUME IngestAssumption ==
  /\ IsFiniteSet(Messages) /\ BatchSize \in Nat \ {0} /\ MaxRows \in Nat \ {0}
  /\ Signals \in BOOLEAN /\ MaxFaults \in Nat /\ MaxLosses \in Nat

Flushers == {"handler", "loop", "main"}

VARIABLES
  pending,    \* messages not published yet
  accepted,   \* messages that handleMessage buffered
  ring,       \* the ring
  flush,      \* program counter and batch of each flusher
  db,         \* how often a row is in the telemetry table
  phase,      \* of main
  due,        \* history: the messages accepted when SIGTERM arrived
  failed,     \* database failures so far
  sub,        \* the subscription: "none", "held", or "refused"
  losses      \* connections lost and subscriptions refused so far

link == <<sub, losses>>
ivars == <<pending, accepted, ring, flush, db, phase, due, failed, link>>

(* Types, and a flusher holds rows exactly from taking them until its       *)
(* INSERT is answered or they are back in the ring.                         *)
IngestTypeOK ==
  /\ pending \subseteq Messages /\ accepted \subseteq Messages
  /\ ring \in Seq(Messages)
  /\ flush \in [Flushers -> [pc : {"idle", "take", "acquire", "exec", "requeue", "done"},
                             batch : Seq(Messages)]]
  /\ \A f \in Flushers :
       flush[f].batch # <<>> <=> flush[f].pc \in {"acquire", "exec", "requeue"}
  /\ db \in [Messages -> Nat]
  /\ phase \in {"running", "signalled", "draining", "closing", "exited"}
  /\ due \subseteq accepted
  /\ failed \in 0..MaxFaults
  /\ sub \in {"none", "held", "refused"} /\ losses \in 0..MaxLosses

IngestInit ==
  /\ pending = Messages /\ accepted = {}
  /\ ring = <<>>
  /\ flush = [f \in Flushers |-> [pc |-> "idle", batch |-> <<>>]]
  /\ db = [m \in Messages |-> 0]
  /\ phase = "running" /\ due = {}
  /\ failed = 0
  /\ sub = "none" /\ losses = 0

(* A connection comes up and OnConnectionUp subscribes ... *)
Subscribe ==
  /\ sub = "none" /\ phase = "running"
  /\ sub' = "held"
  /\ UNCHANGED <<pending, accepted, ring, flush, db, phase, due, failed, losses>>

(* ... or the broker refuses: an error is logged, the connection stays.    *)
SubscribeFails ==
  /\ sub = "none" /\ phase = "running" /\ losses < MaxLosses
  /\ sub' = "refused" /\ losses' = losses + 1
  /\ UNCHANGED <<pending, accepted, ring, flush, db, phase, due, failed>>

(* The connection is lost, and the subscription with it. *)
ConnectionLost ==
  /\ sub # "none" /\ phase # "exited" /\ losses < MaxLosses
  /\ sub' = "none" /\ losses' = losses + 1
  /\ UNCHANGED <<pending, accepted, ring, flush, db, phase, due, failed>>

(* A message is published while nobody is subscribed. *)
Miss(m) ==
  /\ m \in pending /\ sub # "held" /\ phase = "running"
  /\ pending' = pending \ {m}
  /\ UNCHANGED <<accepted, ring, flush, db, phase, due, failed, link>>

(* handleMessage: the router calls it for one message at a time, and it     *)
(* flushes before it returns when the ring has reached the batch size.      *)
(* What the client had read before Disconnect may still reach it, until the *)
(* process is gone.                                                         *)
Receive(m) ==
  /\ m \in pending /\ sub = "held" /\ flush["handler"].pc = "idle"
  /\ phase # "exited"
  /\ pending' = pending \ {m}
  /\ accepted' = accepted \cup {m}
  /\ ring' = Append(ring, m)
  /\ flush' = IF Len(ring) + 1 >= BatchSize
              THEN [flush EXCEPT !["handler"].pc = "take"] ELSE flush
  /\ UNCHANGED <<db, phase, due, failed, link>>

(* flushLoop: the ticker fires.  When it fires and the context has ended,   *)
(* select may choose either.                                                *)
LoopTick ==
  /\ flush["loop"].pc = "idle" /\ phase # "exited"
  /\ flush' = [flush EXCEPT !["loop"].pc = "take"]
  /\ UNCHANGED <<pending, accepted, ring, db, phase, due, failed, link>>

LoopStops ==
  /\ flush["loop"].pc = "idle" /\ phase \in {"signalled", "draining", "closing"}
  /\ flush' = [flush EXCEPT !["loop"].pc = "done"]
  /\ UNCHANGED <<pending, accepted, ring, db, phase, due, failed, link>>

(* Where a flusher goes after flushNow. *)
After(f) == IF f = "main" THEN "done" ELSE "idle"

(* flushLoop's INSERT runs under the context that SIGTERM ends. *)
Cancelled(f) == f = "loop" /\ phase # "running"

(* Mutant: the batch is taken but the ring is not emptied. *)
TakeCopies(f) ==
  /\ flush[f].pc = "take" /\ phase # "exited"
  /\ flush' = [flush EXCEPT ![f] = IF ring = <<>>
                                   THEN [pc |-> After(f), batch |-> <<>>]
                                   ELSE [pc |-> "acquire", batch |-> ring]]
  /\ UNCHANGED <<pending, accepted, ring, db, phase, due, failed, link>>

(* flushNow, first critical section: the whole ring becomes the batch. *)
Take(f) ==
  /\ flush[f].pc = "take" /\ phase # "exited"
  /\ flush' = [flush EXCEPT ![f] = IF ring = <<>>
                                   THEN [pc |-> After(f), batch |-> <<>>]
                                   ELSE [pc |-> "acquire", batch |-> ring]]
  /\ ring' = <<>>
  /\ UNCHANGED <<pending, accepted, db, phase, due, failed, link>>

(* ingestDB.Exec takes a connection from the pool, which has more than the  *)
(* three that are needed.  It gets none, and nothing is sent, when its      *)
(* context has ended or the pool is being closed.                           *)
Acquire(f) ==
  /\ flush[f].pc = "acquire" /\ phase # "exited"
  /\ flush' = [flush EXCEPT ![f].pc = IF Cancelled(f) \/ phase = "closing"
                                      THEN "requeue" ELSE "exec"]
  /\ UNCHANGED <<pending, accepted, ring, db, phase, due, failed, link>>

Committed(f) == [m \in Messages |-> IF m \in Range(flush[f].batch) THEN db[m] + 1 ELSE db[m]]

(* Mutant: the slice of a stored batch is kept for the next flush. *)
ExecOKKeepsBatch(f) ==
  /\ flush[f].pc = "exec" /\ phase # "exited"
  /\ Len(flush[f].batch) <= MaxRows
  /\ db' = Committed(f)
  /\ flush' = [flush EXCEPT ![f].pc = After(f)]
  /\ UNCHANGED <<pending, accepted, ring, phase, due, failed, link>>

(* The INSERT of the batch, one statement for all its rows, is answered. *)
ExecOK(f) ==
  /\ flush[f].pc = "exec" /\ phase # "exited"
  /\ Len(flush[f].batch) <= MaxRows
  /\ db' = Committed(f)
  /\ flush' = [flush EXCEPT ![f] = [pc |-> After(f), batch |-> <<>>]]
  /\ UNCHANGED <<pending, accepted, ring, phase, due, failed, link>>

(* Mutant: a batch that the database refuses is logged and dropped. *)
ExecFailsDrops(f) ==
  /\ flush[f].pc = "exec" /\ phase # "exited"
  /\ IF Len(flush[f].batch) > MaxRows
     THEN /\ flush' = [flush EXCEPT ![f] = [pc |-> After(f), batch |-> <<>>]]
          /\ UNCHANGED <<db, failed>>
     ELSE /\ \/ Cancelled(f) /\ UNCHANGED failed
             \/ failed < MaxFaults /\ failed' = failed + 1
          /\ UNCHANGED db \/ db' = Committed(f)
          /\ flush' = [flush EXCEPT ![f].pc = "requeue"]
  /\ UNCHANGED <<pending, accepted, ring, phase, due, link>>

(* Mutant: a failed INSERT is tried again at once, on the same connection. *)
ExecFailsRetries(f) ==
  /\ flush[f].pc = "exec" /\ phase # "exited"
  /\ UNCHANGED ivars

(* The INSERT is refused, or fails with or without having been committed;   *)
(* its connection goes back to the pool before the batch goes back to the   *)
(* ring.                                                                    *)
ExecFails(f) ==
  /\ flush[f].pc = "exec" /\ phase # "exited"
  /\ \/ /\ Len(flush[f].batch) > MaxRows             \* the statement is refused
        /\ UNCHANGED <<db, failed>>
     \/ /\ Len(flush[f].batch) <= MaxRows
        /\ \/ Cancelled(f) /\ UNCHANGED failed
           \/ failed < MaxFaults /\ failed' = failed + 1
        /\ UNCHANGED db \/ db' = Committed(f)
  /\ flush' = [flush EXCEPT ![f].pc = "requeue"]
  /\ UNCHANGED <<pending, accepted, ring, phase, due, link>>

(* Mutant: the failed batch replaces what arrived in the meantime. *)
RequeueOverwrites(f) ==
  /\ flush[f].pc = "requeue" /\ phase # "exited"
  /\ ring' = flush[f].batch
  /\ flush' = [flush EXCEPT ![f] = [pc |-> After(f), batch |-> <<>>]]
  /\ UNCHANGED <<pending, accepted, db, phase, due, failed, link>>

(* Mutant: a failed batch is logged and dropped. *)
RequeueNothing(f) ==
  /\ flush[f].pc = "requeue" /\ phase # "exited"
  /\ flush' = [flush EXCEPT ![f] = [pc |-> After(f), batch |-> <<>>]]
  /\ UNCHANGED <<pending, accepted, ring, db, phase, due, failed, link>>

(* flushNow, second critical section: ring = append(batch, ring...). *)
Requeue(f) ==
  /\ flush[f].pc = "requeue" /\ phase # "exited"
  /\ ring' = flush[f].batch \o ring
  /\ flush' = [flush EXCEPT ![f] = [pc |-> After(f), batch |-> <<>>]]
  /\ UNCHANGED <<pending, accepted, db, phase, due, failed, link>>

(* SIGTERM ends the context of main. *)
Sigterm ==
  /\ Signals /\ phase = "running"
  /\ phase' = "signalled" /\ due' = accepted
  /\ UNCHANGED <<pending, accepted, ring, flush, db, failed, link>>

(* cm.Disconnect(drainCtx), then flushNow(drainCtx). *)
Disconnect ==
  /\ phase = "signalled"
  /\ phase' = "draining"
  /\ flush' = [flush EXCEPT !["main"].pc = "take"]
  /\ UNCHANGED <<pending, accepted, ring, db, due, failed, link>>

(* ingestDB.Close() after the drain: from now on the pool hands out nothing *)
(* and waits for the connections in use.                                    *)
Close ==
  /\ phase = "draining" /\ flush["main"].pc = "done"
  /\ phase' = "closing"
  /\ UNCHANGED <<pending, accepted, ring, flush, db, due, failed, link>>

(* Close returns once every INSERT in flight has given its connection back, *)
(* and main returns: nobody waits for a batch on its way back to the ring.  *)
Exit ==
  /\ phase = "closing" /\ \A f \in Flushers : flush[f].pc # "exec"
  /\ phase' = "exited"
  /\ UNCHANGED <<pending, accepted, ring, flush, db, due, failed, link>>

FlushStep(f) == Take(f) \/ Acquire(f) \/ ExecOK(f) \/ ExecFails(f) \/ Requeue(f)

IngestNext ==
  \/ Subscribe \/ SubscribeFails \/ ConnectionLost
  \/ \E m \in Messages : Receive(m) \/ Miss(m)
  \/ \E f \in Flushers : FlushStep(f)
  \/ LoopTick \/ LoopStops \/ Sigterm \/ Disconnect \/ Close \/ Exit

IngestSpec == IngestInit /\ [][IngestNext]_ivars

(* The ticker fires, goroutines run, main does not stop half-way, and every *)
(* INSERT is answered.  The last is an assumption on the database: the      *)
(* handler's runs under context.Background(), without a deadline.  Messages *)
(* and SIGTERM need not come.                                               *)
IngestFairSpec ==
  /\ IngestSpec
  /\ \A f \in Flushers : WF_ivars(FlushStep(f))
  /\ WF_ivars(LoopTick) /\ WF_ivars(Disconnect) /\ WF_ivars(Close) /\ WF_ivars(Exit)
-----------------------------------------------------------------------------
(* Properties.                                                             *)

InMemory == Range(ring) \cup UNION {Range(flush[f].batch) : f \in Flushers}

(* While the process lives, no interleaving of handler, ticker and drain    *)
(* and no failed INSERT loses a buffered message: it is in the table, in    *)
(* the ring or in a batch on its way.                                       *)
NothingLost == phase # "exited" => \A m \in accepted : db[m] > 0 \/ m \in InMemory

(* Concurrent flushes never carry a message twice: ring and batches are     *)
(* disjoint and without repetition, so a row is stored twice only after a   *)
(* failed INSERT that had been committed.                                   *)
OneCopy ==
  LET batches == <<ring, flush["handler"].batch, flush["loop"].batch, flush["main"].batch>>
  IN  /\ \A i \in 1..4 : IsInjective(batches[i])
      /\ \A i, j \in 1..4 : i # j => Range(batches[i]) \cap Range(batches[j]) = {}
      /\ failed = 0 /\ phase = "running" => \A m \in InMemory : db[m] = 0

Promise == INSTANCE Delivery WITH waiting <- pending, held <- InMemory,
                                  stored <- {m \in Messages : db[m] > 0},
                                  alive <- phase # "exited"

(* The ring, the three batches and the requeueing of flushNow implement     *)
(* at-least-once delivery: a buffered row leaves the memory of the process  *)
(* only in the step that stores it, its whole batch with it, no row of the  *)
(* table ever goes, no message is buffered twice, and nothing moves any     *)
(* more once main has returned.                                             *)
ImplementsDelivery == Promise!Spec

(* Every buffered message reaches the table while the process keeps         *)
(* running: a partial batch too, and after failed flushes, unless what they *)
(* put back has outgrown one statement, which is then refused for ever.     *)
EventuallyStored ==
  \A m \in Messages : m \in accepted ~> db[m] > 0 \/ phase # "running" \/ Len(ring) > MaxRows

(* After SIGTERM the process ends, although Close waits for the INSERTs of  *)
(* the other flushers and these go on taking batches meanwhile: none keeps  *)
(* its connection, as long as the database answers.                         *)
ShutdownEnds == phase = "signalled" ~> phase = "exited"

(* "all N rows SHALL be persisted before the process exits" (with a healthy *)
(* database), for the rows buffered when SIGTERM is sent.                   *)
CleanShutdown == phase = "exited" => \A m \in due : db[m] > 0

(* "one statement covering up to the configured batch size". *)
BatchBounded == \A f \in Flushers : Len(flush[f].batch) <= BatchSize
====
