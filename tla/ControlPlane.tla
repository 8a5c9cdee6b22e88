----------------------------- MODULE ControlPlane -----------------------------
(***************************************************************************)
(* The control plane of controlai: the REST handlers that edit the SQLite  *)
(* tables (internal/daemon), the rendering pipeline that writes compose    *)
(* files (internal/daemon/provision.go), and the reconciler ticks that     *)
(* drive Docker towards desired_state (internal/recon).                    *)
(*                                                                         *)
(* Every SQLite statement or transaction is one step: the store keeps one  *)
(* connection, so statements are serialised, but a handler or a tick is    *)
(* many statements and they interleave.  A `docker compose` invocation is  *)
(* one step: the runner serialises them per project (module Runner).       *)
(*                                                                         *)
(* Abstractions                                                            *)
(*  - A rendered configuration is the number of the request that produced  *)
(*    the row it was rendered from ("version"); ConfigHash gives its       *)
(*    combined hash, so two versions with equal content share a hash.      *)
(*  - The rendered files of a project are written in one step, the Traefik *)
(*    route of a site included: it is never removed, and the reconciler    *)
(*    rewrites it with the same content before an `up`.                    *)
(*  - A request answered with an error before its first write is no step.  *)
(*  - Admission, certificates and audit rows are left to other modules.    *)
(***************************************************************************)
EXTENDS Integers, FiniteSets

CONSTANTS
  Tenants, Sites,     \* tenant ids and site ids (a site id is a global key)
  Tsdb,               \* the "tsdb" suffix of a tenant's database project
  NoId,               \* the empty tenant_id or site_id column
  Shared,             \* the compose file of the shared stack
  Requests,           \* in-flight HTTP requests
  Triggers,           \* in-flight `go recon.Trigger(...)` goroutines
  Loop,               \* the goroutine of Reconciler.Run
  ConfigHash,         \* combined hash of the files rendered from a version
  Ops,                \* the operations clients use ("applyUnknown": apply with
                      \* a selector that has no row; "misaddress": a URL whose
                      \* tenant does not own its site)
  Rungs,              \* number of rungs of the backoff ladder
  MaxOps, MaxFaults   \* bounds on requests served and on faults

Operations == {"createTenant", "createSite", "patchTenant", "patchSite",
               "startTenant", "stopTenant", "startSite", "stopSite",
               "rmTenant", "purgeTenant", "rmSite", "purgeSite",
               "apply", "applyUnknown", "misaddress"}

NoHash == 0

ASSUME ConstantsAssumption ==
  /\ MaxOps \in Nat \ {0} /\ MaxFaults \in Nat /\ Rungs \in Nat \ {0}
  /\ Ops \subseteq Operations
  /\ ConfigHash \in [1..MaxOps -> Nat \ {NoHash}]
  /\ Tsdb \notin Sites /\ NoId \notin Sites /\ NoId \notin Tenants /\ NoId # Tsdb
  /\ Loop \notin Triggers
  /\ Shared \notin Tenants \X (Sites \cup {Tsdb})

(* project_id is "{tenant}-{site}" or "{tenant}-tsdb". *)
Projects == Tenants \X (Sites \cup {Tsdb})
Files == Projects \cup {Shared}
Ticks == Triggers \cup {Loop}
Versions == 0..MaxOps
Hashes == {NoHash} \cup {ConfigHash[v] : v \in 1..MaxOps}
NoProject == <<NoId, NoId>>

VARIABLES
  tenantRow,   \* tenants: status ("none" when there is no row), version
  siteRow,     \* sites: owning tenant, status, version
  desired,     \* desired_state: tenant_id, site_id, state, config_hash
  cache,       \* actual_state_cache: the _combined hash of a project
  disk,        \* version of the files behind a compose file, 0 when missing
  containers,  \* what Docker runs for a project
  fails,       \* Reconciler.states[p].failureCount, saturated at Rungs
  waiting,     \* nextRetry of a project lies in the future
  req,         \* program counter and locals of each request
  tick,        \* program counter and locals of each reconciler tick
  ops, faults  \* requests served and faults injected so far

storeVars == <<tenantRow, siteRow, desired>>
vars == <<tenantRow, siteRow, desired, cache, disk, containers, fails,
          waiting, req, tick, ops, faults>>

Statuses == {"none", "active", "orphaned"}
DesiredRow == [tenant : Tenants \cup {NoId}, site : Sites \cup {NoId},
               state : {"none", "running", "stopped", "removed"},
               hash : Hashes]
NoDesired == [tenant |-> NoId, site |-> NoId, state |-> "none", hash |-> NoHash]

NoContainers == [state |-> "none", file |-> Shared, ver |-> 0]

Request == [pc : {"idle", "insert", "read", "write", "record", "set", "list",
                  "sites", "activate", "trigger", "delete", "poll", "converged"},
            op : Operations \cup {"none"},
            tenant : Tenants \cup {NoId}, site : Sites \cup {Tsdb, NoId},
            n : Versions, todo : SUBSET Projects, live : BOOLEAN]
NoRequest == [pc |-> "idle", op |-> "none", tenant |-> NoId, site |-> NoId,
              n |-> 0, todo |-> {}, live |-> TRUE]

Tick == [pc : {"idle", "list", "walk", "compare", "up", "down", "record"},
         p : Projects \cup {NoProject}, todo : [Projects -> DesiredRow]]
NoTick == [pc |-> "idle", p |-> NoProject, todo |-> [p \in Projects |-> NoDesired]]

TypeOK ==
  /\ tenantRow \in [Tenants -> [status : Statuses, ver : Versions]]
  /\ siteRow \in [Sites -> [tenant : Tenants \cup {NoId}, status : Statuses,
                            ver : Versions]]
  /\ desired \in [Projects -> DesiredRow]
  /\ cache \in [Projects -> Hashes]
  /\ disk \in [Files -> Versions]
  /\ containers \in [Projects -> [state : {"none", "up", "broken"},
                                  file : Files, ver : Versions]]
  /\ fails \in [Projects -> 0..Rungs]
  /\ waiting \in [Projects -> BOOLEAN]
  /\ req \in [Requests -> Request]
  /\ tick \in [Ticks -> Tick]
  /\ ops \in 0..MaxOps
  /\ faults \in 0..MaxFaults

(* A fresh host on which `controlai shared init` wrote the shared stack. *)
Init ==
  /\ tenantRow = [t \in Tenants |-> [status |-> "none", ver |-> 0]]
  /\ siteRow = [s \in Sites |-> [tenant |-> NoId, status |-> "none", ver |-> 0]]
  /\ desired = [p \in Projects |-> NoDesired]
  /\ cache = [p \in Projects |-> NoHash]
  /\ disk = [f \in Files |-> IF f = Shared THEN 1 ELSE 0]
  /\ containers = [p \in Projects |-> NoContainers]
  /\ fails = [p \in Projects |-> 0]
  /\ waiting = [p \in Projects |-> FALSE]
  /\ req = [r \in Requests |-> NoRequest]
  /\ tick = [k \in Ticks |-> NoTick]
  /\ ops = 0 /\ faults = 0

-----------------------------------------------------------------------------
(* Store operations.                                                       *)

(* UpsertDesiredState: on conflict only state and config_hash change, the  *)
(* tenant_id and site_id columns keep what the first insert wrote.         *)
UpsertRow(row, t, s, st, h) ==
  IF row.state = "none"
  THEN [tenant |-> t, site |-> s, state |-> st, hash |-> h]
  ELSE [row EXCEPT !.state = st, !.hash = h]

SiteColumn(s) == IF s = Tsdb THEN NoId ELSE s

(* Upserts made by the lifecycle handlers carry no ConfigHash. *)
UpsertState(p, st) ==
  desired' = [desired EXCEPT
                ![p] = UpsertRow(@, p[1], SiteColumn(p[2]), st, NoHash)]

SitesOf(t) == {s \in Sites : siteRow[s].status # "none" /\ siteRow[s].tenant = t}

(* DeleteTenant(purge): desired_state by tenant_id and by the tsdb project *)
(* id, then the sites, then the tenant, in one transaction.                *)
PurgeTenantRows(t) ==
  /\ desired' = [p \in Projects |->
                   IF desired[p].tenant = t \/ p = <<t, Tsdb>>
                   THEN NoDesired ELSE desired[p]]
  /\ siteRow' = [s \in Sites |->
                   IF s \in SitesOf(t)
                   THEN [tenant |-> NoId, status |-> "none", ver |-> 0]
                   ELSE siteRow[s]]
  /\ tenantRow' = [tenantRow EXCEPT ![t] = [status |-> "none", ver |-> 0]]

(* DeleteSite(purge): desired_state by site_id, then the site row. *)
PurgeSiteRows(s) ==
  /\ desired' = [p \in Projects |->
                   IF desired[p].site = s THEN NoDesired ELSE desired[p]]
  /\ siteRow' = [siteRow EXCEPT
                   ![s] = [tenant |-> NoId, status |-> "none", ver |-> 0]]
  /\ UNCHANGED tenantRow

Orphan(row) == IF row.status = "none" THEN row ELSE [row EXCEPT !.status = "orphaned"]

-----------------------------------------------------------------------------
(* Request handlers.                                                       *)

CanBegin(r, op) == op \in Ops /\ req[r].pc = "idle" /\ ops < MaxOps

Begin(r, pc, op, t, s) ==
  /\ req' = [req EXCEPT ![r] = [pc |-> pc, op |-> op, tenant |-> t, site |-> s,
                                n |-> ops + 1, todo |-> {}, live |-> TRUE]]
  /\ ops' = ops + 1
  /\ UNCHANGED <<cache, disk, containers, fails, waiting, tick, faults>>

(* A step of request r that leaves the reconciler alone. *)
Goto(r, pc) ==
  /\ req' = [req EXCEPT ![r].pc = pc]
  /\ UNCHANGED <<cache, containers, fails, waiting, tick, ops, faults>>

Finish(r) ==
  /\ req' = [req EXCEPT ![r] = NoRequest]
  /\ UNCHANGED <<cache, containers, fails, waiting, tick, ops, faults>>

CreateTenant(r, t) ==
  /\ CanBegin(r, "createTenant")
  /\ tenantRow[t].status = "none"
  /\ tenantRow' = [tenantRow EXCEPT ![t] = [status |-> "active", ver |-> ops + 1]]
  /\ Begin(r, "read", "createTenant", t, Tsdb)
  /\ UNCHANGED <<siteRow, desired>>

CreateSite(r, t, s) ==
  /\ CanBegin(r, "createSite")
  /\ tenantRow[t].status # "none"
  /\ Begin(r, "insert", "createSite", t, s)
  /\ UNCHANGED storeVars

(* INSERT INTO sites: refused for a duplicate id, for a tenant purged since *)
(* it was looked up (foreign key), or under a cancelled request context.    *)
InsertSite(r) ==
  LET q == req[r]
      ok == /\ q.live /\ siteRow[q.site].status = "none"
            /\ tenantRow[q.tenant].status # "none"
  IN  /\ q.pc = "insert"
      /\ IF ok
         THEN /\ siteRow' = [siteRow EXCEPT ![q.site] =
                               [tenant |-> q.tenant, status |-> "active", ver |-> q.n]]
              /\ Goto(r, "read")
         ELSE Finish(r) /\ UNCHANGED siteRow
      /\ UNCHANGED <<tenantRow, desired, disk>>

PatchTenant(r, t) ==
  /\ CanBegin(r, "patchTenant")
  /\ tenantRow[t].status # "none"
  /\ tenantRow' = [tenantRow EXCEPT ![t].ver = ops + 1]
  /\ Begin(r, "read", "patchTenant", t, Tsdb)
  /\ UNCHANGED <<siteRow, desired>>

(* The tenant in the URL is not used: the render takes it from the row. *)
PatchSite(r, s) ==
  /\ CanBegin(r, "patchSite")
  /\ siteRow[s].status # "none"
  /\ siteRow' = [siteRow EXCEPT ![s].ver = ops + 1]
  /\ Begin(r, "read", "patchSite", siteRow[s].tenant, s)
  /\ UNCHANGED <<tenantRow, desired>>

StartTenant(r, t) ==
  /\ CanBegin(r, "startTenant")
  /\ tenantRow[t].status # "none"
  /\ Begin(r, "set", "startTenant", t, Tsdb)
  /\ UNCHANGED storeVars

StopTenant(r, t) ==
  /\ CanBegin(r, "stopTenant")
  /\ tenantRow[t].status # "none"
  /\ Begin(r, "set", "stopTenant", t, Tsdb)
  /\ UNCHANGED storeVars

(* The handlers look the site up by its id alone and trust the URL's tenant. *)
Addressed(t, s) == siteRow[s].tenant = t \/ "misaddress" \in Ops

StartSite(r, t, s) ==
  /\ CanBegin(r, "startSite")
  /\ siteRow[s].status # "none" /\ Addressed(t, s)
  /\ Begin(r, "set", "startSite", t, s)
  /\ UNCHANGED storeVars

StopSite(r, t, s) ==
  /\ CanBegin(r, "stopSite")
  /\ siteRow[s].status # "none" /\ Addressed(t, s)
  /\ Begin(r, "set", "stopSite", t, s)
  /\ UNCHANGED storeVars

(* Deletions check nothing first: a repeated one upserts its row again. *)
DeleteTenant(r, t) ==
  \E op \in {"rmTenant", "purgeTenant"} :
    /\ CanBegin(r, op)
    /\ Begin(r, "set", op, t, Tsdb)
    /\ UNCHANGED storeVars

DeleteSite(r, t, s) ==
  \E op \in {"rmSite", "purgeSite"} :
    /\ CanBegin(r, op)
    /\ siteRow[s].status = "none" \/ Addressed(t, s)
    /\ Begin(r, "set", op, t, s)
    /\ UNCHANGED storeVars

(* handleApply upserts the selector with empty tenant_id and site_id. *)
Apply(r, p) ==
  /\ \/ CanBegin(r, "apply") /\ desired[p].state # "none"
     \/ CanBegin(r, "applyUnknown") /\ desired[p].state = "none"
  /\ desired' = [desired EXCEPT ![p] = UpsertRow(@, NoId, NoId, "running", NoHash)]
  /\ Begin(r, "trigger", "apply", p[1], p[2])
  /\ UNCHANGED <<tenantRow, siteRow>>

(* renderAndWriteTSDB and renderAndWriteSite: read the row, write the files, *)
(* then upsert the row with the hash of what was rendered.                   *)
RowVersion(t, s) == IF s = Tsdb THEN tenantRow[t].ver ELSE siteRow[s].ver

RenderRead(r) ==
  LET q == req[r]
      found == IF q.site = Tsdb THEN tenantRow[q.tenant].status # "none"
                                ELSE siteRow[q.site].status # "none"
  IN  /\ q.pc = "read"
      /\ IF q.live /\ found
         THEN /\ req' = [req EXCEPT ![r].pc = "write", ![r].n = RowVersion(q.tenant, q.site),
                           ![r].tenant = IF q.site = Tsdb THEN @ ELSE siteRow[q.site].tenant]
              /\ UNCHANGED <<cache, containers, fails, waiting, tick, ops, faults>>
         ELSE Finish(r)
      /\ UNCHANGED <<tenantRow, siteRow, desired, disk>>

RenderWrite(r) ==
  /\ req[r].pc = "write"
  /\ disk' = [disk EXCEPT ![<<req[r].tenant, req[r].site>>] = req[r].n]
  /\ Goto(r, "record")
  /\ UNCHANGED storeVars

(* A failed write returns an error: no upsert, no trigger.  The write that   *)
(* fails may be the Traefik file's, after those of the site.                 *)
RenderWriteFails(r) ==
  /\ req[r].pc = "write" /\ faults < MaxFaults
  /\ faults' = faults + 1
  /\ \/ UNCHANGED disk
     \/ /\ req[r].site # Tsdb
        /\ disk' = [disk EXCEPT ![<<req[r].tenant, req[r].site>>] = req[r].n]
  /\ req' = [req EXCEPT ![r] = NoRequest]
  /\ UNCHANGED <<tenantRow, siteRow, desired, cache, containers, fails,
                 waiting, tick, ops>>

(* The error of this upsert is dropped: after a cancellation it is lost. *)
RenderRecord(r) ==
  LET q == req[r]
      p == <<q.tenant, q.site>>
  IN  /\ q.pc = "record"
      /\ IF q.live
         THEN desired' = [desired EXCEPT ![p] =
                UpsertRow(@, q.tenant, SiteColumn(q.site), "running", ConfigHash[q.n])]
         ELSE UNCHANGED desired
      /\ Goto(r, "trigger")
      /\ UNCHANGED <<tenantRow, siteRow, disk>>

TargetState(op) ==
  CASE op \in {"startTenant", "startSite"} -> "running"
    [] op \in {"purgeTenant", "purgeSite"} -> "removed"
    [] OTHER -> "stopped"

(* First upsert of a lifecycle handler; its error is dropped. *)
SetState(r) ==
  LET q == req[r]
  IN  /\ q.pc = "set"
      /\ IF q.live THEN UpsertState(<<q.tenant, q.site>>, TargetState(q.op))
                   ELSE UNCHANGED desired
      /\ Goto(r, CASE q.op = "startTenant" -> "activate"
                   [] q.op \in {"stopTenant", "rmTenant", "purgeTenant"} -> "list"
                   [] OTHER -> "trigger")
      /\ UNCHANGED <<tenantRow, siteRow, disk>>

(* UpdateTenantStatus(active) after `tenant start`. *)
ActivateTenant(r) ==
  LET q == req[r]
  IN  /\ q.pc = "activate"
      /\ tenantRow' = IF q.live /\ tenantRow[q.tenant].status # "none"
                      THEN [tenantRow EXCEPT ![q.tenant].status = "active"]
                      ELSE tenantRow
      /\ Goto(r, "trigger")
      /\ UNCHANGED <<siteRow, desired, disk>>

ListTenantSites(r) ==
  LET q == req[r]
      found == IF q.live THEN {q.tenant} \X SitesOf(q.tenant) ELSE {}
  IN  /\ q.pc = "list"
      /\ req' = [req EXCEPT ![r].todo = found,
                            ![r].pc = IF found = {} THEN "trigger" ELSE "sites"]
      /\ UNCHANGED <<tenantRow, siteRow, desired, cache, disk, containers, fails,
                     waiting, tick, ops, faults>>

SetSiteState(r, p) ==
  LET q == req[r]
      rest == q.todo \ {p}
  IN  /\ q.pc = "sites" /\ p \in q.todo
      /\ IF q.live THEN UpsertState(p, TargetState(q.op)) ELSE UNCHANGED desired
      /\ req' = [req EXCEPT ![r].todo = rest,
                            ![r].pc = IF rest = {} THEN "trigger" ELSE "sites"]
      /\ UNCHANGED <<tenantRow, siteRow, cache, disk, containers, fails,
                     waiting, tick, ops, faults>>

(* `go s.recon.Trigger(context.Background())`, then the rest of the handler. *)
SpawnTrigger(r, k) ==
  LET q == req[r]
  IN  /\ q.pc = "trigger" /\ tick[k].pc = "idle"
      /\ tick' = [tick EXCEPT ![k].pc = "list"]
      /\ \/ /\ q.op \in {"rmTenant", "purgeTenant", "rmSite", "purgeSite"}
            /\ req' = [req EXCEPT ![r].pc = "delete"]
         \/ /\ q.op = "apply"                              \* apply?wait=
            /\ req' = [req EXCEPT ![r].pc = "poll"]
         \/ /\ q.op \notin {"rmTenant", "purgeTenant", "rmSite", "purgeSite"}
            /\ req' = [req EXCEPT ![r] = NoRequest]
      /\ UNCHANGED <<tenantRow, siteRow, desired, cache, disk, containers, fails,
                     waiting, ops, faults>>

(* The store deletion comes after the trigger has been spawned. *)
DeleteRows(r) ==
  LET q == req[r]
  IN  /\ q.pc = "delete"
      /\ \/ q.live /\ q.op = "purgeTenant" /\ PurgeTenantRows(q.tenant)
         \/ q.live /\ q.op = "purgeSite" /\ PurgeSiteRows(q.site)
         \/ /\ q.live /\ q.op = "rmTenant"
            /\ tenantRow' = [tenantRow EXCEPT ![q.tenant] = Orphan(@)]
            /\ UNCHANGED <<siteRow, desired>>
         \/ /\ q.live /\ q.op = "rmSite"
            /\ siteRow' = [siteRow EXCEPT ![q.site] = Orphan(@)]
            /\ UNCHANGED <<tenantRow, desired>>
         \/ ~q.live /\ UNCHANGED storeVars
      /\ Finish(r)
      /\ UNCHANGED disk

(* pollConvergence answers converged:true as soon as all containers run,    *)
(* and converged:false at its deadline or when the request is cancelled.    *)
PollConverged(r) ==
  /\ req[r].pc = "poll" /\ req[r].live
  /\ containers[<<req[r].tenant, req[r].site>>].state = "up"
  /\ Goto(r, "converged")
  /\ UNCHANGED <<tenantRow, siteRow, desired, disk>>

(* Mutant: pollConvergence without its deadline. *)
PollEndsWhenConverged(r) ==
  /\ req[r].pc = "converged"
  /\ Finish(r)
  /\ UNCHANGED <<tenantRow, siteRow, desired, disk>>

PollEnds(r) ==
  /\ req[r].pc \in {"poll", "converged"}
  /\ Finish(r)
  /\ UNCHANGED <<tenantRow, siteRow, desired, disk>>

(* The client goes away or the 60 s request timeout fires: every later      *)
(* statement under r.Context() fails.                                       *)
Cancel(r) ==
  /\ req[r].pc \notin {"idle", "converged"} /\ req[r].live /\ faults < MaxFaults
  /\ req' = [req EXCEPT ![r].live = FALSE]
  /\ faults' = faults + 1
  /\ UNCHANGED <<tenantRow, siteRow, desired, cache, disk, containers, fails,
                 waiting, tick, ops>>

-----------------------------------------------------------------------------
(* Reconciler ticks.                                                       *)

(* Mutant: the tenant column is tested before the site column. *)
ComposeFileTenantFirst(row) ==
  CASE row.tenant # NoId -> <<row.tenant, Tsdb>>
    [] row.tenant = NoId /\ row.site # NoId -> <<row.tenant, row.site>>
    [] OTHER -> Shared

(* Reconciler.composeFile *)
ComposeFile(row) ==
  CASE row.site # NoId -> <<row.tenant, row.site>>
    [] row.site = NoId /\ row.tenant # NoId -> <<row.tenant, Tsdb>>
    [] OTHER -> Shared

(* Mutant: existing containers count as running. *)
AllRunningExisting(p) == containers[p].state # "none"

(* ListByProject finds containers, and all of them run. *)
AllRunning(p) == containers[p].state = "up"

(* Mutant: a stopped project is never looked at. *)
SatisfiedStopped(p, row) ==
  \/ row.state = "running" /\ row.hash = NoHash /\ AllRunning(p)
  \/ row.state = "stopped"

(* What the listing alone tells reconcileProject to leave as it is. *)
Satisfied(p, row) ==
  \/ row.state = "running" /\ row.hash = NoHash /\ AllRunning(p)
  \/ row.state = "stopped" /\ containers[p].state = "none"

(* What is left as it is if the hashes agree, too. *)
Comparable(p, row) == row.state = "running" /\ row.hash # NoHash /\ AllRunning(p)

tickUnchanged == <<tenantRow, siteRow, desired, disk, req, ops>>

(* reconcileProject returned nil: the backoff of p is reset. *)
Succeed(k, p) ==
  /\ tick' = [tick EXCEPT ![k].pc = "walk", ![k].p = NoProject,
                          ![k].todo[p] = NoDesired]
  /\ fails' = [fails EXCEPT ![p] = 0]
  /\ waiting' = [waiting EXCEPT ![p] = FALSE]

(* Mutant: the index into the ladder is not capped. *)
FailUncapped(k, p) ==
  /\ tick' = [tick EXCEPT ![k].pc = "walk", ![k].p = NoProject,
                          ![k].todo[p] = NoDesired]
  /\ fails' = [fails EXCEPT ![p] = @ + 1]
  /\ waiting' = [waiting EXCEPT ![p] = TRUE]

(* ... or an error: one rung up the ladder. *)
Fail(k, p) ==
  /\ tick' = [tick EXCEPT ![k].pc = "walk", ![k].p = NoProject,
                          ![k].todo[p] = NoDesired]
  /\ fails' = [fails EXCEPT ![p] = IF @ < Rungs THEN @ + 1 ELSE @]
  /\ waiting' = [waiting EXCEPT ![p] = TRUE]

(* Mutant: rows without a config hash are not listed. *)
TickListHashed(k) ==
  /\ tick[k].pc = IF k = Loop THEN "idle" ELSE "list"
  /\ tick' = [tick EXCEPT ![k].pc = "walk",
                          ![k].todo = [p \in Projects |->
                             IF desired[p].hash = NoHash THEN NoDesired ELSE desired[p]]]
  /\ UNCHANGED <<tickUnchanged, cache, containers, fails, waiting, faults>>

(* ListDesiredStates: the tick works through this snapshot.  The ticker     *)
(* starts the loop's tick, a spawned trigger starts its own.                *)
TickList(k) ==
  /\ tick[k].pc = IF k = Loop THEN "idle" ELSE "list"
  /\ tick' = [tick EXCEPT ![k].pc = "walk", ![k].todo = desired]
  /\ UNCHANGED <<tickUnchanged, cache, containers, fails, waiting, faults>>

(* Rows are visited by project id; ids have no order here, so any order. *)
TickSkip(k, p) ==
  /\ tick[k].pc = "walk" /\ tick[k].todo[p].state # "none" /\ waiting[p]
  /\ tick' = [tick EXCEPT ![k].todo[p] = NoDesired]
  /\ UNCHANGED <<tickUnchanged, cache, containers, fails, waiting, faults>>

(* The project under inspection, ~waiting: its backoff is over. *)
Inspected(k, p) == tick[k].pc = "walk" /\ tick[k].todo[p].state # "none" /\ ~waiting[p]

TickNoop(k, p) ==
  /\ Inspected(k, p)
  /\ Satisfied(p, tick[k].todo[p])
  /\ Succeed(k, p)
  /\ UNCHANGED <<tickUnchanged, cache, containers, faults>>

(* All containers run: the recorded hash is looked up next. *)
TickInspect(k, p) ==
  /\ Inspected(k, p)
  /\ Comparable(p, tick[k].todo[p])
  /\ tick' = [tick EXCEPT ![k].p = p, ![k].pc = "compare"]
  /\ UNCHANGED <<tickUnchanged, cache, containers, fails, waiting, faults>>

(* The project is out of sync, or listing its containers failed. *)
TickAct(k, p) ==
  LET row == tick[k].todo[p]
      idle == Satisfied(p, row) \/ Comparable(p, row)
  IN  /\ Inspected(k, p)
      /\ \/ ~idle /\ UNCHANGED faults
         \/ idle /\ faults < MaxFaults /\ faults' = faults + 1
      /\ tick' = [tick EXCEPT ![k].p = p,
                    ![k].pc = IF row.state = "running" THEN "up" ELSE "down"]
      /\ UNCHANGED <<tickUnchanged, cache, containers, fails, waiting>>

(* GetCombinedHash: the hash of the last `up` is the one listed ... *)
TickSame(k) ==
  LET p == tick[k].p
  IN  /\ tick[k].pc = "compare"
      /\ cache[p] = tick[k].todo[p].hash
      /\ Succeed(k, p)
      /\ UNCHANGED <<tickUnchanged, cache, containers, faults>>

(* ... or is another one, or cannot be read. *)
TickDrifted(k) ==
  LET p == tick[k].p
  IN  /\ tick[k].pc = "compare"
      /\ \/ cache[p] # tick[k].todo[p].hash /\ UNCHANGED faults
         \/ /\ cache[p] = tick[k].todo[p].hash
            /\ faults < MaxFaults /\ faults' = faults + 1
      /\ tick' = [tick EXCEPT ![k].pc = "up"]
      /\ UNCHANGED <<tickUnchanged, cache, containers, fails, waiting>>

(* Mutant: `up` with the configuration whose hash the tick has listed. *)
ComposeUpAsListed(k) ==
  LET p == tick[k].p
      row == tick[k].todo[p]
      f == ComposeFile(row)
      v == IF row.hash = NoHash THEN disk[f] ELSE CHOOSE w \in 1..MaxOps : ConfigHash[w] = row.hash
  IN  /\ tick[k].pc = "up" /\ disk[f] # 0
      /\ containers' = [containers EXCEPT ![p] = [state |-> "up", file |-> f, ver |-> v]]
      /\ IF row.hash = NoHash
         THEN Succeed(k, p)
         ELSE tick' = [tick EXCEPT ![k].pc = "record"] /\ UNCHANGED <<fails, waiting>>
      /\ UNCHANGED <<tickUnchanged, cache, faults>>

(* runner.Up: the containers now run what the compose file says now. *)
ComposeUp(k) ==
  LET p == tick[k].p
      row == tick[k].todo[p]
      f == ComposeFile(row)
  IN  /\ tick[k].pc = "up" /\ disk[f] # 0
      /\ containers' = [containers EXCEPT ![p] =
                          [state |-> "up", file |-> f, ver |-> disk[f]]]
      /\ IF row.hash = NoHash
         THEN Succeed(k, p)
         ELSE tick' = [tick EXCEPT ![k].pc = "record"] /\ UNCHANGED <<fails, waiting>>
      /\ UNCHANGED <<tickUnchanged, cache, faults>>

(* `up` without a compose file always fails; otherwise it fails on a fault  *)
(* and may leave containers of the new configuration that do not run.       *)
ComposeUpFails(k) ==
  LET p == tick[k].p
      f == ComposeFile(tick[k].todo[p])
  IN  /\ tick[k].pc = "up"
      /\ \/ disk[f] = 0 /\ UNCHANGED <<containers, faults>>
         \/ /\ disk[f] # 0 /\ faults < MaxFaults /\ faults' = faults + 1
            /\ \/ UNCHANGED containers
               \/ containers' = [containers EXCEPT ![p] =
                                   [state |-> "broken", file |-> f, ver |-> disk[f]]]
      /\ Fail(k, p)
      /\ UNCHANGED <<tickUnchanged, cache>>

(* Mutant: `docker compose stop` in place of `down`. *)
ComposeStop(k) ==
  LET p == tick[k].p
  IN  /\ tick[k].pc = "down" /\ disk[ComposeFile(tick[k].todo[p])] # 0
      /\ containers' = [containers EXCEPT ![p].state = IF @ = "none" THEN @ ELSE "broken"]
      /\ Succeed(k, p)
      /\ UNCHANGED <<tickUnchanged, cache, faults>>

ComposeDown(k) ==
  LET p == tick[k].p
  IN  /\ tick[k].pc = "down" /\ disk[ComposeFile(tick[k].todo[p])] # 0
      /\ containers' = [containers EXCEPT ![p] = NoContainers]
      /\ Succeed(k, p)
      /\ UNCHANGED <<tickUnchanged, cache, faults>>

ComposeDownFails(k) ==
  LET p == tick[k].p
  IN  /\ tick[k].pc = "down"
      /\ \/ disk[ComposeFile(tick[k].todo[p])] = 0 /\ UNCHANGED faults
         \/ /\ disk[ComposeFile(tick[k].todo[p])] # 0
            /\ faults < MaxFaults /\ faults' = faults + 1
      /\ Fail(k, p)
      /\ UNCHANGED <<tickUnchanged, cache, containers>>

(* Mutant: the hash is read again from desired_state after the up. *)
RecordCurrentHash(k) ==
  LET p == tick[k].p
  IN  /\ tick[k].pc = "record"
      /\ cache' = [cache EXCEPT ![p] = desired[p].hash]
      /\ Succeed(k, p)
      /\ UNCHANGED <<tickUnchanged, containers, faults>>

(* UpsertCombinedHash of the snapshot's hash after a successful up. *)
RecordHash(k) ==
  LET p == tick[k].p
  IN  /\ tick[k].pc = "record"
      /\ cache' = [cache EXCEPT ![p] = tick[k].todo[p].hash]
      /\ Succeed(k, p)
      /\ UNCHANGED <<tickUnchanged, containers, faults>>

TickEnd(k) ==
  /\ tick[k].pc = "walk" /\ \A p \in Projects : tick[k].todo[p].state = "none"
  /\ tick' = [tick EXCEPT ![k] = NoTick]
  /\ UNCHANGED <<tickUnchanged, cache, containers, fails, waiting, faults>>

BackoffExpires(p) ==
  /\ waiting[p]
  /\ waiting' = [waiting EXCEPT ![p] = FALSE]
  /\ UNCHANGED <<tickUnchanged, cache, containers, fails, tick, faults>>

-----------------------------------------------------------------------------
(* Environment.                                                            *)

(* A container exits, or somebody runs `docker compose down` by hand. *)
ContainersDie(p) ==
  /\ containers[p].state # "none" /\ faults < MaxFaults
  /\ faults' = faults + 1
  /\ \/ containers' = [containers EXCEPT ![p].state = "broken"]
     \/ containers' = [containers EXCEPT ![p] = NoContainers]
  /\ UNCHANGED <<tickUnchanged, cache, fails, waiting, tick>>

(* The daemon dies (or is stopped) and systemd starts it again: requests,   *)
(* ticks and the in-memory backoff table are gone.                          *)
DaemonRestart ==
  /\ faults < MaxFaults /\ faults' = faults + 1
  /\ req' = [r \in Requests |-> NoRequest]
  /\ tick' = [k \in Ticks |-> NoTick]
  /\ fails' = [p \in Projects |-> 0]
  /\ waiting' = [p \in Projects |-> FALSE]
  /\ UNCHANGED <<tenantRow, siteRow, desired, cache, disk, containers, ops>>

-----------------------------------------------------------------------------
Arrive(r) ==
  \/ \E t \in Tenants : \/ CreateTenant(r, t) \/ PatchTenant(r, t)
                        \/ StartTenant(r, t) \/ StopTenant(r, t) \/ DeleteTenant(r, t)
  \/ \E s \in Sites : PatchSite(r, s)
  \/ \E t \in Tenants, s \in Sites : \/ CreateSite(r, t, s) \/ StartSite(r, t, s)
                                     \/ StopSite(r, t, s) \/ DeleteSite(r, t, s)
  \/ \E p \in Projects : Apply(r, p)

Serve(r) ==
  \/ InsertSite(r) \/ RenderRead(r) \/ RenderWrite(r) \/ RenderRecord(r)
  \/ SetState(r) \/ ActivateTenant(r) \/ ListTenantSites(r)
  \/ \E p \in Projects : SetSiteState(r, p)
  \/ \E k \in Triggers : SpawnTrigger(r, k)
  \/ DeleteRows(r) \/ PollConverged(r) \/ PollEnds(r)

TickStep(k) ==
  \/ TickList(k) \/ TickEnd(k)
  \/ \E p \in Projects : TickSkip(k, p) \/ TickNoop(k, p) \/ TickInspect(k, p) \/ TickAct(k, p)
  \/ TickSame(k) \/ TickDrifted(k)
  \/ ComposeUp(k) \/ ComposeUpFails(k) \/ ComposeDown(k) \/ ComposeDownFails(k)
  \/ RecordHash(k)

Next ==
  \/ \E r \in Requests : Arrive(r) \/ Serve(r) \/ RenderWriteFails(r) \/ Cancel(r)
  \/ \E k \in Ticks : TickStep(k)
  \/ \E p \in Projects : BackoffExpires(p) \/ ContainersDie(p)
  \/ DaemonRestart

Spec == Init /\ [][Next]_vars

(* Go schedules every goroutine, the ticker keeps firing and time passes;   *)
(* nothing obliges clients to send requests or faults to happen.            *)
Fairness ==
  /\ \A r \in Requests : WF_vars(Serve(r))
  /\ \A k \in Ticks : WF_vars(TickStep(k))
  /\ \A p \in Projects : WF_vars(BackoffExpires(p))

FairSpec == Spec /\ Fairness
-----------------------------------------------------------------------------
(* Properties.                                                             *)

RowExists(p) == IF p[2] = Tsdb THEN tenantRow[p[1]].status # "none"
                ELSE siteRow[p[2]].status # "none" /\ siteRow[p[2]].tenant = p[1]

(* The row's hash is that of the files on disk, the recorded hash agrees and *)
(* all containers run: the state in which reconcileProject reports the      *)
(* project converged after comparing hashes.                                *)
LooksApplied(p) ==
  /\ desired[p].state = "running" /\ desired[p].hash # NoHash
  /\ containers[p].state = "up" /\ cache[p] = desired[p].hash
  /\ disk[p] # 0 /\ ConfigHash[disk[p]] = desired[p].hash

(* No hidden drift: when the hash comparison of reconcileProject says that  *)
(* the rendered configuration is applied, the containers really were        *)
(* created from the files now on disk.                                      *)
NoHiddenDrift == \A p \in Projects : LooksApplied(p) => containers[p].ver = disk[p]

(* composeFile: a project's containers come from its own compose file,      *)
(* whatever sequence of upserts built its desired_state row, with one       *)
(* exception: where clients apply selectors that have no row, the row that  *)
(* handleApply then inserts has no ids and later upserts do not fill them   *)
(* in, so that the project is run from the shared stack's file.  It is      *)
(* never run from the file of another project.                              *)
OwnComposeFile ==
  \A p \in Projects : containers[p].state # "none" =>
    \/ containers[p].file = p
    \/ "applyUnknown" \in Ops /\ containers[p].file = Shared

(* The files of a project and the version of its containers, as Rollout    *)
(* sees them.                                                              *)
FilesOf == [p \in Projects |-> disk[p]]
AppliedTo == [p \in Projects |-> IF containers[p].state = "none" THEN 0 ELSE containers[p].ver]

Rolled == INSTANCE Rollout WITH files <- FilesOf, applied <- AppliedTo

(* The handlers, the renders and any number of ticks with old snapshots     *)
(* implement Rollout: files never go back to an older version, containers   *)
(* always come from the own files as they are at that moment, and so a tick *)
(* that was overtaken cannot bring an older configuration back.             *)
ImplementsRollout == Rolled!Spec

(* Once nobody changes the row any more, a running project with rendered    *)
(* files ends up with running containers for good, whatever died, failed    *)
(* or was retried, and however other projects fail.                         *)
RunningConverges ==
  \A p \in Projects :
    <>[](desired[p].state = "running" /\ disk[ComposeFile(desired[p])] # 0)
      => <>[](containers[p].state = "up")

(* ... and a stopped project ends up without containers for good, even if a *)
(* tick with an older snapshot brought it up again.                         *)
StoppedConverges ==
  \A p \in Projects :
    <>[](desired[p].state = "stopped" /\ disk[ComposeFile(desired[p])] # 0)
      => <>[](containers[p].state = "none")

(* ... and a rendered configuration whose hash reached desired_state ends   *)
(* up in the containers for good.                                           *)
ConfigConverges ==
  \A p \in Projects :
    <>[](/\ desired[p].state = "running" /\ desired[p].hash # NoHash
         /\ disk[p] # 0 /\ ConfigHash[disk[p]] = desired[p].hash)
      => <>[](containers[p].state = "up" /\ containers[p].ver = disk[p])

(* Every accepted request is answered. *)
RequestsEnd == \A r \in Requests : req[r].pc # "idle" ~> req[r].pc = "idle"

-----------------------------------------------------------------------------
(* Claims of the documentation that the code does not keep.                *)

(* "the reconciler SHALL NOT recreate the containers" of a stopped project. *)
StopHonoured ==
  [][\A p \in Projects :
       /\ desired[p].state = "stopped" /\ desired'[p].state = "stopped"
       /\ containers[p].state = "none"
       => containers'[p].state = "none"]_vars

(* rm --purge "SHALL stop all related containers". *)
PurgeStopsContainers ==
  \A p \in Projects : <>[](desired[p].state = "none") => <>[](containers[p].state = "none")

(* A patched site whose files were rendered is restarted with them: "the    *)
(* reconciler detects hash drift".                                          *)
PatchReachesContainers ==
  \A p \in Projects :
    <>[](desired[p].state = "running" /\ RowExists(p) /\ disk[p] = RowVersion(p[1], p[2]))
      => <>[](containers[p].ver = disk[p])

(* apply reports convergence only when the containers run the files on disk. *)
ApplyMeansApplied ==
  \A r \in Requests : req[r].pc = "converged" =>
    LET p == <<req[r].tenant, req[r].site>>
    IN  containers[p].ver = disk[p]

(* A purge removes a tenant or site from the registry, and what it removed  *)
(* is not driven any more: a rendered row describes something that exists.  *)
HashedRowsExist == \A p \in Projects : desired[p].hash # NoHash => RowExists(p)

(* A stopped project resumes through `start` (or `apply`) only. *)
OnlyStartResumes ==
  [][\A p \in Projects : desired[p].state = "stopped" /\ desired'[p].state = "running"
       => \E r \in Requests : \/ req[r].op \in {"startTenant", "startSite"}
                              \/ req'[r].op = "apply"]_vars
====
