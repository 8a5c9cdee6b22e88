# controlai: TLA+ models and proofs

controlai provisions multi-tenant MQTT ingestion stacks on one host. A daemon
(`cmd/controlai`, `internal/daemon`) serves a REST API over a Unix socket and
keeps a registry in SQLite. It renders docker-compose files for every tenant
(a TimescaleDB project) and every site (a broker and an ingest service), and a
reconciler (`internal/recon`) drives Docker towards the desired state recorded
in the registry. Inside each site the ingest service (`services/ingest`) moves
MQTT messages into the database.

This directory holds TLA+ modules for the parts of that system whose
correctness depends on interleaving, failure or ordering, TLC configurations
that check them on small instances, and TLAPS proofs of the most important
safety properties for every instance. Paths below are relative to the root of
the repository.

## 1. Inventory

| Component | State | Operations | Module |
|---|---|---|---|
| Tenant and site handlers (`internal/daemon/server.go`) | the in-flight requests | create, PATCH, start, stop, rm, purge, apply with polling | `ControlPlane` |
| Rendering (`internal/daemon/provision.go`, `internal/render`) | compose files on disk | read rows, write files, upsert the hash | `ControlPlane` |
| Registry (`internal/store/sqlite`) | `tenants`, `sites`, `desired_state`, `actual_state_cache` | one statement or transaction per operation | `ControlPlane`, `Admission` |
| Reconciler (`internal/recon`) | snapshot of a tick, backoff table | list, compare, up, down, record, back off | `ControlPlane` |
| Daemon process (`cmd/controlai`) | none of its own | start, restart | `ControlPlane` |
| Compose runner (`internal/runner`) | mutex per project, global semaphore | `runCompose`; `restartBroker` around it | `Runner`, `ComposeSlots` |
| Admission control (`internal/capacity`, `admissionCheck`) | none, reads the registry | predict, admit, then insert | `Admission` |
| Ingest service (`services/ingest`) | subscription, ring buffer, batches in flight | subscribe, receive, flush, requeue, drain | `Ingest` |
| Certificates (`internal/pki`, `ensureAllTrustFiles`) | CA row, `ca.crt`, server and ingestor pairs with their `.tmp` files, what the broker has loaded | create the CA, check, issue, replace, restart the broker | `TrustFiles`, `TempFile` |
| Backup (`internal/backup`) | archives and their `.tmp` files | dump, publish, discard, prune | `Backup`, `TempFile` |
| Gateway certificates, tokens, audit log, configuration types, YAML migration, logs and publishing, CLI, web console | see `PROJECT.json` | | not modelled |

How they interact. A handler edits rows, renders, and starts
`go recon.Trigger(...)`; the reconciler's own ticker starts ticks too, so ticks
run concurrently with each other and with all handlers. Handlers and ticks
share the SQLite tables (one connection, so statements are serialised, but no
transaction spans a handler or a tick), the files on disk, Docker, and the
reconciler's backoff map. Every tick goes through the compose runner; the
revocation of a client certificate restarts the broker without it. `apply`
polls Docker while ticks change it. The create handlers ask admission control
before their first insert. Before it looks at the projects, every tick brings
the certificate files of all active sites up to date, so concurrent ticks write
the same files. `controlai backup run` is a process of its own, started by a
daily timer or by an operator, with nothing to keep two of them apart.

Hard behaviours, each listed with its line under `hazards` in `PROJECT.json`:

- a tick works on rows listed at its start while handlers change them;
- files, desired hash, containers and recorded hash are written by four
  separate steps of two goroutines, any of which can be last, fail, or be cut
  short by a restart or a cancelled request;
- lifecycle upserts carry no hash and erase the one a render wrote;
- purge deletes the rows that the tick it has just triggered needs to see;
- the project mutex is held while waiting for the global semaphore;
- the admission check and the insert it allows are separate statements;
- three goroutines flush one ring, the INSERT is outside the lock, failed
  batches come back, and SIGTERM does not wait for all of them;
- certificate and key are replaced by two renames over a fixed temporary name
  that concurrent ticks share, from rows that may have been replaced since;
- two backups of one day share a temporary file, either may fail or die at any
  point, and pruning works off an old listing beside them.

What makes each component correct: the reconciler must not take drifted
containers for applied ones, must use a project's own files, and must converge;
every request must be answered; the runner must run one compose process per project and a
bounded number per host, and every call must return; admission must keep the
host within its memory budget; the ingest service must store every row it
buffered and carry none twice; a site must come to rest with a matching pair of
its own CA that its broker has loaded; every archive must be a whole dump, and
the newest ones must stay.

## 2. Modules and their correspondence to the code

| Module | Contents |
|---|---|
| `ControlPlane` | handlers, rendering, reconciler ticks, Docker and restarts, with the properties |
| `ControlPlaneInvariants` | the inductive invariant, as named parts |
| `ControlPlaneProofs` | theorems about `ControlPlane`; it implements `Rollout` |
| `Rollout` | abstract specification of the control plane: the version of a project's files and of its containers |
| `ComposeSlots` | abstract specification of the runner: who runs compose on what |
| `Runner` | `runCompose` with mutex, semaphore queue and cancellation; `restartBroker` |
| `RunnerProofs` | `Runner` implements `ComposeSlots` |
| `Admission` | the prediction, the check, and the inserts it guards |
| `AdmissionProofs` | theorems about `Admission` |
| `Delivery` | abstract specification of the ingest service: waiting, held and stored messages |
| `Ingest` | subscription, ring, flushers, requeue, shutdown |
| `IngestProofs` | theorems about `Ingest`; it implements `Delivery` |
| `TempFile` | a file replaced through a shared temporary name: truncate, write through a handle, rename, unlink |
| `TrustFiles` | CA, rotation by concurrent ticks, broker restart |
| `TrustFilesProofs` | theorems about `TrustFiles` |
| `Backup` | concurrent backup runs and pruning |
| `BackupProofs` | theorems about `Backup` |
| `MC*` | values of constants and symmetry sets for TLC |

`map` in `PROJECT.json` gives the source lines of every definition. Definitions
introduced by a comment that starts with "Mutant" are the altered versions of
their neighbour used to show that a property can fail; no specification uses
them.

**ControlPlane.** `tenantRow`, `siteRow`, `desired` and `cache` are the four
tables. A *version* is the number of the request that last changed a row; it
stands for the configuration rendered from the row, and `ConfigHash` gives its
hash, so that two versions can have the same content. `disk[f]` is the version
of the files of a project, `containers[p]` what Docker runs for it: nothing,
everything running, or something broken, from which compose file and which
version. `req[r]` and `tick[k]` are the program counter and locals of a handler
and of a tick. Each action is one SQL statement or transaction, one write of a
project's files, or one compose process, in the order of the code:

- `CreateTenant`, `PatchSite`, ... accept a request (lookups included) up to its
  first write; `InsertSite`, `RenderRead`, `RenderWrite`, `RenderRecord` are the
  rest of create and PATCH; `SetState`, `ActivateTenant`, `ListTenantSites`,
  `SetSiteState` the upserts of start, stop and deletion; `SpawnTrigger` the
  `go recon.Trigger`; `DeleteRows` the deletion that follows it;
  `PollConverged`, `PollEnds` are `pollConvergence`.
- `TickList` is `ListDesiredStates`; `TickSkip` (backoff), `TickNoop` (the
  listing of the containers suffices), `TickInspect` (all run, the recorded hash
  is needed) and `TickAct` are the loop of `tick` up to the next call;
  `TickSame` and `TickDrifted` are the outcomes of `GetCombinedHash`;
  `ComposeUp`, `ComposeUpFails`, `ComposeDown`, `ComposeDownFails`, `RecordHash`
  the end of `reconcileProject`; `Succeed` and `Fail` maintain the backoff.
- `Cancel` (a request context ends), `RenderWriteFails`, `ContainersDie`,
  failing compose runs and `DaemonRestart` are the faults.

The comparison (`AllRunning`, `Satisfied`, `Comparable`), the choice of `ComposeFile` by the id columns, the
`ON CONFLICT` clause of the upsert (`UpsertRow`: id columns are never updated,
the hash always) and the order "spawn the trigger, then delete" are the places
where the model keeps every detail. `Rollout` sees two numbers per project, the
version of its files (`FilesOf`) and of its containers (`AppliedTo`, 0 without
containers): `RenderWrite` is its `Render`, `ComposeUp` and a failing `up` that
leaves containers its `Apply`, `ComposeDown` and containers that vanish its
`Remove`, and all other steps leave both alone.

**Runner.** One goroutine is at `lock`, `acquire`, `queued`, `run`, `release`
or `unlock` of `runCompose`. `Acquire`, `AcquireFails` and `Release` follow
`golang.org/x/sync/semaphore`: units go to waiters first come first served, and
a cancelled waiter leaves the queue. `ComposeSlots` knows only `running`, the
project on which a caller runs compose; `Runner` refines it with
`running[c] = IF pc[c] = "run" THEN project[c] ELSE NoProject`.

**Admission.** The profile table and `Predict` are exact, in MB, including
`int(usable * 0.85)`. `Admitted` is what `admissionCheck` computes: all tenants
plus the proposed one, and of the sites only the proposed one.

**Ingest.** `Take` and `Requeue` are the two critical sections of `flushNow`,
`Acquire` takes a connection of the pool for it, which fails once the pool is
being closed or the context has ended, and `ExecOK`/`ExecFails` are the INSERT; a
failed INSERT may have been committed. The flushers are the message handler,
`flushLoop` and `main` after SIGTERM. `Close` is `ingestDB.Close()`, which waits
for the connections in use before `Exit`; messages already on their way are still
received meanwhile. `due` records what was buffered when the signal came.
`Subscribe` and `SubscribeFails` are `OnConnectionUp`, called after each
reconnect; `ConnectionLost` and `Miss` (a message published while nobody is
subscribed; the client asks for no session) are the environment. `Delivery` sees
the messages that are `pending`, those in the ring or a batch (`InMemory`), those
with a row, and whether the process lives: `Receive` is its `Accept`, `ExecOK`
its `Store`, an `ExecFails` that committed a `Store` that keeps the rows, `Exit`
its `Stop`; `Take` and `Requeue` are invisible to it.

**TempFile.** `writePEM`, `WriteResults` and the backup's `Run` all write
`path.tmp` and rename it. The operators say what happens to a file and to the
open handles of other writers: an `open` truncates what somebody else is
writing, a handle follows its inode when it is renamed, and a rename finds
nothing when another writer was faster.

**TrustFiles.** One site. `CreateSite`, `GenerateCA`, `StoreCA` are the CA part
of `handleCreateSite`; `OrphanSite`, `PurgeSite`, `PurgeTenant` change the rows
under the feet of the ticks. A tick is at `ca` (site and tenant read), `stat`,
`caOpen` and `caWrite` (`ca.crt`, truncated by the open), `check`, `open`, `write`, `rename` (certificate, then
key: `part`), `ingestor`, `leaf`, `restart`. `NeedsRotation` keeps the four
reasons and the usage that `Verify` demands. The ingestor's pair is replaced in
one step, except that its renames may fail. `broker` says whether the pair it
loaded is still the one on disk. `disturbed` records that two ticks were inside
`EnsureTrustFiles` together or one was cut short; it guards the properties that
the code only keeps otherwise.

**Backup.** One tenant. `Start` stamps the day, `Open`, `Write`, `Finish` are
the streamed dump (its first bytes, the rest), `Discard` every error path,
`Publish` the rename (`PublishFails` when it fails, after which `Discard` removes
the `.tmp`, also another run's), `ReadDir` and `Remove` are `prune`; `Die` ends the process
anywhere. A file is absent, empty, a part by one run, one whole dump, or bad.

Each specification stands alone. `ControlPlane` treats a compose process as one
step, and the theorem that `Runner` implements `ComposeSlots` is what justifies
it: no two such processes of ticks overlap on one project.

## 3. Runs

Passing runs (distinct states in parentheses):

| Run | Instance | Shows |
|---|---|---|
| `control_plane` (2.1 M) | all operations, 1 tenant, 1 site, serial client, loop and one triggered tick, 3 requests, 1 fault | `TypeOK`, `NoHiddenDrift`, `OwnComposeFile`, `ImplementsRollout` |
| `convergence` (164 k) | create, patch, stop, start, 1 fault, fair | `RunningConverges`, `StoppedConverges`, `ConfigConverges` |
| `concurrent_requests` (88 k) | 2 concurrent clients, also applies without a row, fair | `RunningConverges`, `StoppedConverges`, `RequestsEnd` |
| `compose_runner` (8.8 k) | 3 callers, 3 projects, 2 units, cancellations, a broker restart, fair | `RunnerTypeOK`, `ImplementsSlots`, `CallsReturn` |
| `ingest` (441 k) | 3 messages, batch size 2, 2 rows per statement, 1 failed INSERT, 1 lost connection or refused subscription, SIGTERM, fair | `IngestTypeOK`, `NothingLost`, `OneCopy`, `ImplementsDelivery`, `EventuallyStored`, `ShutdownEnds` |
| `admission` (38 k) | 5 tenants, 2 sites, 2 concurrent creations on a host one MB short of four databases, keys that must be refused | `AdmissionTypeOK`, `OvershootBounded`, `SitesProfiled` |
| `trust_files` (684 k) | an EMQX site, the loop and one triggered tick, one creation at a time, 2 domains, one purge, removal, expiry, crash or failed write, fair | `TrustTypeOK`, `TornHasWriter`, `PairIntact`, `BrokerReloaded`, `ServerConverges` |
| `backup` (1.9 M) | 2 processes, 3 days, 1 archive to keep | `BackupTypeOK`, `ArchivesWhole`, `RetentionBounded`, `PruneKeepsNewest` |

What the properties say:

- `NoHiddenDrift`: when the row's hash is that of the files on disk and
  `reconcileProject` finds the recorded hash equal and all containers running,
  the containers were created from those files. `ConfigConverges` is the
  liveness side: once the row stays put, they will be.
- `OwnComposeFile`: containers of a project come from its own compose file, never
  from another project's. Where clients apply selectors without a row, which the
  run leaves out and the theorem covers, the shared file is the exception.
- `ImplementsRollout`: files are only replaced by those of a later version, and
  containers only by what the own files say at that moment, so no tick with an
  old snapshot and no retry brings an older configuration back.
- `RunningConverges`, `StoppedConverges`: the containers end up as the row says
  and stay so, whatever a stale tick did. `RequestsEnd`: every request ends.
- `ImplementsSlots`: one compose process per project and at most `Cap` on the
  host. `CallsReturn`: no deadlock between mutex and semaphore, no forgotten
  waiter.
- `NothingLost`, `OneCopy`: a live ingest process keeps every buffered row, in
  exactly one place of its memory. `ImplementsDelivery`: a row leaves that memory
  only in the step that stores its batch, a batch whose INSERT failed after all
  may be stored again, and nothing moves after the exit. `EventuallyStored`: rows get stored while the
  process runs, unless the ring has outgrown one statement. `ShutdownEnds`: a
  signalled process ends, although closing the pool waits for INSERTs of flushers
  that fail, put rows back and flush again.
- `OvershootBounded`: racing creations exceed the memory limit by at most one
  tenant database per other request in flight. `SitesProfiled`: every stored
  site can be priced.
- `TornHasWriter`: a truncated certificate file always has a tick that is about
  to fill it, unless something crashed or failed. `PairIntact`: certificate and
  key match outside a rotation, if rotations do not overlap. `BrokerReloaded`:
  as long as no rotation overlapped another and no step of one failed or was cut
  short, an EMQX broker does not keep a replaced pair, also when it was started
  between the two renames. `ServerConverges`: whatever stale snapshots, overlapping
  ticks, crashes and failed writes leave behind, a site that is left alone gets
  a server certificate of its CA for its domain, and keeps it.
- `ArchivesWhole`: every archive is one complete dump unless two runs of one day
  overlapped. `PruneKeepsNewest`: an archive is removed only while `Keep` newer
  ones exist, however old the listing. `RetentionBounded`: beyond `Keep` there
  is at most one archive per run that has still to prune.

Violation runs. Each checks one sentence of the documentation or of a comment
that the code does not keep; `findings` in `PROJECT.json` quotes it.

| Run | What TLC finds |
|---|---|
| `purge_leaves_containers` | the purge deletes the rows before any tick lists `removed`; containers run for good |
| `shutdown_loses_rows` | SIGTERM during the ticker's INSERT loses rows with a healthy database: closing the pool waits for the connection, not for the rows to be put back |
| `sites_not_counted` | existing sites are not part of the admission plan |
| `needless_rotation` | a fresh client certificate never passes `NeedsRotation`, so the ingestor's pair is replaced on every tick |

Further divergences. The claims in the first table are stated in the modules,
and TLC refutes them on the instance given (other constants as in `cp_all.cfg`,
`runner.cfg`, `ingest.cfg`, `admission.cfg`); no run is kept for them.

| Property | Instance | What happens |
|---|---|---|
| `StopHonoured` | create and stop of a tenant, one trigger, no faults | `openspec/specs/reconciler/spec.md:22` rules out spurious `up` attempts after a stop; a tick that listed the row before it brings the containers up again (`reconciler.go:201`) |
| `PatchReachesContainers` | create, PATCH and apply of a site, 4 requests, `FairSpec` | `README.md:143` waits with `apply` for the PATCH to take effect; `apply` erases the hash (`server.go:996`), drift is not compared any more and the new files never reach the containers |
| `NoHiddenDrift` | two clients, create and PATCH of a tenant | `provision.go:214-216`: two concurrent renders leave containers that differ from the files with equal hashes; the theorem therefore assumes serial clients |
| `NoHiddenDrift` | one client, two triggers, `ConfigHash <- RevertedHashes` | a configuration changed and changed back while a tick is between `up` and recording: the late record hides the drift |
| `ImplementsRollout` | two clients, create and PATCH of a tenant | the render that read the older row writes its files last (`provision.go:209`), and the next `up` takes the containers back |
| `HashedRowsExist` | two clients, create, PATCH and purge of a tenant | a render in flight during the purge upserts a row, with its hash, for a tenant that is gone (`provision.go:217`), and the reconciler keeps running it |
| `ConfigConverges` | create and PATCH of a tenant after an apply of its selector, `FairSpec` | the row without ids (`server.go:996`, `store.go:476`) makes the reconciler use the shared compose file for good |
| `ApplyMeansApplied` | as for `PatchReachesContainers`, `Spec` | `apply` answers `converged:true` (`server.go:1050`) before the new files are applied |
| `OnlyStartResumes` | create, patch and stop of a site | a PATCH (`provision.go:275`) starts a stopped site |
| `ProjectExclusive` | two callers, one restarter | `restartBroker` (`server.go:1259`) runs compose beside the reconciler |
| `BatchBounded` | three messages, one database failure | a requeued batch goes out with later rows in a statement above the batch size |
| `TenantsFit` | four tenants, two requests | two creations that each fit are admitted together |

The guards of the new properties mark what the code does not ensure. Dropping
them gives counterexamples too:

- without `~disturbed`, `PairIntact` fails: overlapping ticks or a crash between
  the renames leave a certificate with another key's file, and for good, since
  `NeedsRotation` never looks at the key;
- without `~disturbed`, `BrokerReloaded` fails: a failed restart, or an error on
  the ingestor's files after the server was rotated (`trust.go:101`), loses the
  restart, and a later tick finds nothing to do; with `BrokerKind = "mosquitto"`
  no restart happens at all after a rotation;
- without `faults = 0`, `TornHasWriter` fails: `ca.crt` stays torn after a
  failed write, because only its existence is tested. For the same reason a
  purged and re-created site keeps the `ca.crt` of its old CA, beside a server
  certificate of the new one; `openspec/specs/tenant-management/spec.md:87` says
  that a purge deletes the directory (and the backups), which no code does;
- `ServerConverges` needs the triggers to stop: an endless supply of triggered
  ticks that overlap the loop's can tear `server.crt` again and again. It also
  says nothing of a site whose CA could not be stored (`server.go:561`): nothing
  creates one later;
- without `~overlapped`, `ArchivesWhole` fails: of two runs of one day the
  second truncates what the first is writing, and a mixture is published.

Found by reading, without a state to check: `openspec/specs/pki-management/spec.md:47`
says that `EnsureTrustFiles` runs "at daemon start"; `runDaemon`
(`cmd/controlai/main.go:189`) never calls `EnsureInitialTrustFiles`
(`reconciler.go:326`), nor does anything else, so the files are first looked at
when the ticker or a trigger starts a tick.

### Bounds, and why they are enough

- Requests (`MaxOps`): every request contributes one version, so three give an
  old, a current and a new configuration of one project, or create, change and
  purge. Faults (`MaxFaults`): one fault of
  any kind at any point; faults do not interact, since none leaves a trace other
  than in the variables. The proofs cover every number of both.
- One tenant with its database project and one site: projects share nothing but
  the tick that visits them, and the tenant operations that reach its sites are
  present with one site. Two clients are needed, and used, for races between
  handlers. `Triggers` bounds the triggered ticks alive at once: a handler waits
  for a free one, where the code starts another goroutine. One triggered tick
  and the loop's are already concurrent.
- `Rungs = 1`: the ladder's length only scales delays; `fails` is saturated
  where the code caps the index.
- Runner: three callers and two units, so two run at once while the third waits
  for a unit or for the mutex of a project in use. Ingest: two flushers can hold rows at once (the
  handler receives nothing while it flushes), and three messages let both do so
  with a full batch in one of them; two rows per statement let a requeued batch
  be refused; one failed INSERT besides the refused and the cancelled
  ones, which are not counted; one lost connection is enough, since a subscription leaves no trace. Admission: three databases fit and a
  fourth is one MB too many, so a limit rounded up is noticed, and five tenants
  cross it with two requests in flight.
- Trust files: two ticks are needed for every race on a `.tmp` file; the two
  domains let a re-created tenant differ from the old one. `MaxEvents = 1`:
  one purge, removal, expiry, crash or failed write at any point of a rotation,
  or before the next one. `MaxSerial` only has to exceed the certificates that
  files and ticks can hold at once; serials that nobody knows are used again.
- Backup: two processes of one day or of different days; three days with one
  archive to keep let two archives be beyond the limit of two listings at once.
- Deadlock checking is off only for `Ingest`, whose process exits.

### Fairness

Weak fairness of `Serve(r)`, `TickStep(k)` and `BackoffExpires(p)`: Go runs
every runnable goroutine, the reconciler's ticker fires every period, time
passes. Clients, cancellations and faults are never forced. `FlushStep`,
`LoopTick`, `Disconnect`, `Close` and `Exit` of `Ingest` are the same. That every
INSERT is answered is part of it and an assumption on the database: the
handler's INSERT has no deadline, and one that never ended would keep `Close`
waiting. `Subscribe` is not forced. In `Runner` only `Lock` has strong fairness:
`sync.Mutex` switches to first come first served after a waiter has waited for
a millisecond. `RunEnds` being fair says that compose processes end.
In `TrustFiles`, `BeginTick("loop")` and `Continue(t)` are weakly fair: the
loop's ticker fires and a tick that has begun goes on; triggers, handlers,
broker starts and faults are not forced. `Backup` states no fairness.

## 4. Proofs

| Theorem | Module | Assumes (beyond the `ASSUME` of the module) |
|---|---|---|
| `TypeCorrect` | `ControlPlaneProofs` | nothing |
| `OwnComposeFileHolds` | `ControlPlaneProofs` | nothing |
| `RolloutImplemented` | `ControlPlaneProofs` | no apply of a selector without a row, serial clients |
| `NoHiddenDriftHolds` | `ControlPlaneProofs` | the same, no restored configuration |
| `RunnerTyped`, `RunnerImplementsSlots` | `RunnerProofs` | nothing |
| `OvershootBoundedHolds`, `SitesProfiledHolds`, `AdmissionTyped` | `AdmissionProofs` | nothing |
| `IngestTyped`, `NothingLostHolds`, `OneCopyHolds`, `DeliveryImplemented` | `IngestProofs` | nothing |
| `TypeCorrect`, `ArchivesAreWhole`, `NewestArchivesKept`, `RetentionIsBounded` | `BackupProofs` | nothing |
| `TypeCorrect`, `TornFilesHaveWriters`, `PairStaysIntact`, `BrokerIsReloaded` | `TrustFilesProofs` | nothing |

They hold for any number of tenants, sites, ticks, requests, messages, backup
runs, days, faults and restarts. The `ASSUME`s beyond the types of the constants
are that the backup runs and the triggered ticks alive at one time are finitely
many, and that there are more serials (`MaxSerial`) than files and ticks can hold
at once, which is what the random 128-bit serials of `mustSerial` amount to.

*Control plane.* `TypeOK` alone is not inductive: a tick about to call `up` must
name a project whose row it holds, a request in flight must name a tenant and a
site, and rows that exist must have an owner. `RowsInv`, `RequestsInv`,
`TicksInv` and `ColumnsInv` add this and give `TypeInv`. `OwnInv` says that all
rows, also the ones in snapshots, carry the id columns of their own project;
`ComposeFile` then yields the project's own file. With applies of selectors
without a row the columns may also be empty, and `FilesInv` says that the file is
then the shared one. For `NoHiddenDrift` the idea
is an order: versions only grow, and what is downstream is never newer than
what is upstream. The row's version bounds the disk (`DiskInv`); the disk bounds
the hashes in `desired_state` and in every snapshot, and the version of the
containers (`HashInv`); the containers bound the recorded hash and the one that
a tick between `up` and `record` is about to write. So if the recorded hash is
that of the files on disk, the containers are at least as new as the files, and
never newer. Serial clients are needed because a render holds the current
version of its row from its read to its upsert (`RenderInv`); distinct hashes,
to read a version off a hash. The refinement of `Rollout` does not need distinct hashes: `DiskInv`
says that a render about to write holds the current version of its row, which
is at least that of the files, and `OwnInv` that `up` reads the project's own
files.

*Runner.* `MutexInv` ties each held mutex to the one caller between `lock` and
`unlock` on that project, `QueueInv` the semaphore queue to the callers at
`queued` without repetition, and `HeldInv` the number of units to the callers
at `run` and `release`. Together they map every step to a step of
`ComposeSlots` or a stutter.

*Admission.* A creation is admitted when the databases of all tenants and its
own fit; the tenants still promised to other requests are at most one each.
That bound on `Promised` is inductive with the types; purges only lower it.

*Ingest.* The ring and the three batches are four holders of rows, and every
step of `flushNow` moves what one of them has to another or into the table.
`Apart` (no holder has a row twice, no two share one) is inductive together with
`Received` (what is held or stored was received, and is not pending) and the
fact that a flusher about to take has empty hands, which is part of the type
invariant; that in turn needs `MainIdle`, since `Disconnect` overwrites main's
program counter. `Kept` and `Fresh` then give `NothingLost` and the last part of
`OneCopy`. What `Append` and `\o` do to the set of rows and to its injectivity
is proved once, as lemmas. The refinement of `Delivery` needs `Apart` once more:
the rows of a stored batch leave the memory only because nobody else holds them.

*Backup.* `PruneKeepsNewest` needs `OldIsOld`: everything a pruning run still
has to remove has `Keep` newer archives now. Publishing only adds archives, and
another run's removal takes an archive that itself has `Keep` newer ones, which
are newer than every older archive too. `ArchivesWhole` needs
`WholeInv`: without overlap, at most one run has the `.tmp` of a day in use, and
what it holds is what that run has written. `RetentionBounded` counts archives,
and a listing may have grown old while others published, and may overlap other
listings. `OwedInv` therefore speaks of every set `S` of pruning runs: what no
run of `S` has listed for removal is at most `Keep`, plus one archive for each
other run that has published and has still to list or to prune (until a run is
cut short between publishing and pruning, the exception of the property too). When a run reads the directory, all
archives but `Keep` are on its list (`KeepBound`, by taking the least archive as
long as there are more than `Keep`), so it owes nothing beyond its list; when it
publishes, it adds one archive and owes one listing; when it has removed its
list, nothing of the list is left for the others to account for. `HandleInv`
says that a run's handle is the `.tmp` of its day or the archive it became, so
that writes never create an archive.

*Trust files.* `TrustTypeOK` adds to the types that a tick's locals fit its program
counter (`Sound`). That the serial of a new certificate is fresh is a counting
argument: what can be known is one serial per triggered tick and five besides
(four files and the loop's tick), fewer than `MaxSerial`. `TornHasWriter` is not inductive
because a rename turns a torn `.tmp` into a torn file; `TornInv` asks for a
writer of the `.tmp` as well, and a writer's handle moves with the file it is on,
so that the rename turns one clause into the other for every tick at once. A
tick that truncates a file becomes its writer itself. `PairIntact` and
`BrokerReloaded` need `AloneInv`: as long as nothing was disturbed, at most one
tick is inside `EnsureTrustFiles` (`OneInside`); its handle is on the `.tmp`, what
it is about to rename is what it wrote, and at the key the certificate on disk is
already its own (`Owns`); if certificate and key differ, a tick is at the key
(`PairOwed`); and if an EMQX broker has loaded something else than what is on
disk, a tick is at the key, remembers its rotation or is about to restart it
(`RestartOwed`).

Checked by TLC only: liveness, which is outside this prover's reach
(`RunningConverges`, `StoppedConverges`, `ConfigConverges`, `RequestsEnd`,
`CallsReturn`, `EventuallyStored`, `ShutdownEnds`,
`ServerConverges`), and the violation runs. Every safety property of a passing
run is a theorem.

## 5. Limits of the models

- `docker compose up` is assumed to bring the containers to what the file says
  now. For settings that only act on first start, such as the retention policy
  in the database's `init.sql`, it does not; the models say nothing about them.
- The files of a project are written in one step, although each is renamed on
  its own under a fixed temporary name. The Traefik route is part of that step,
  except that its write can fail after the site's files were written.
- The lookups at the start of a handler and the two reads of a render are one
  step each. Rows are visited in any order, not by project id.
- The reconciler's backoff map is written by concurrent ticks without a lock;
  the model makes each access atomic. Go may abort the process on concurrent
  map writes, which has the effect of `DaemonRestart`.
- A daemon without access to Docker (nil client) is not modelled.
- Messages stand for rows; the decoding of payloads and the downlink server are
  left out. A message is acknowledged once it is buffered, so a killed process
  loses what it holds; the models only follow an orderly end. `EventuallyStored` excepts a ring that has
  outgrown one statement (10922 rows in the code): the INSERT exceeds the bind
  parameters of PostgreSQL and is refused every time.
- Audit rows and tokens decide nothing and are left out. So are gateway
  certificates: issuing is one insert whose failure is only logged, revoking one
  update, after which mosquitto is restarted; no CRL is written and no banned
  list pushed, so there is no enforcement to model.
- Certificates are issued by the CA that the tick has read; a master key that
  changed between two starts, which makes `loadCA` fail for good, is left out.
  `TrustFiles` follows one site; a tick visits the sites one after the other and
  they share nothing.
- `ensureAllTrustFiles` and the project loop of a tick are in different modules:
  they share neither rows they write nor files.
- YAML migration is not modelled: no migration is registered, the supported
  version is 1, and nothing writes `tenant.yaml` or `site.yaml`, so the code
  that would rewrite a file cannot run.
- `ensureTSDBCreds` reads, generates and upserts a tenant's passwords; two first
  renders at once could render different ones. The control plane leaves
  credentials out.

## 6. Plan

Done: control plane, runner, ingest, admission, then trust files and backup;
theorems for all their safety properties; refinements of `Rollout`,
`ComposeSlots` and `Delivery`.

Left, in this order:

1. A refinement of `TrustFiles`: a site's pair as an abstract value that is
   replaced whole, for ticks that do not overlap.
2. Gateway certificates and tokens, with the enforcement once there is one.
3. `Rollout` with the recorded hash and the backoff; a run with two sites and
   requests addressed to the wrong tenant.
4. The credentials of a tenant's database across concurrent first renders, with
   the files of `WriteResults` one by one as in `TempFile`.
