-------------------------- MODULE ControlPlaneProofs --------------------------
(***************************************************************************)
(* Proofs about ControlPlane.                                              *)
(***************************************************************************)
EXTENDS ControlPlaneInvariants, TLAPS

(* The hash of a version is a hash, and the empty hash is none of them. *)
LEMMA HashTypes ==
  /\ NoHash \in Hashes
  /\ \A v \in 1..MaxOps : ConfigHash[v] \in Hashes /\ ConfigHash[v] # NoHash
BY ConstantsAssumption DEF Hashes, NoHash

(* The absent row has the type of a row. *)
LEMMA NoDesiredTyped == NoDesired \in DesiredRow
BY HashTypes DEF NoDesired, DesiredRow

(* Projects and their two components. *)
LEMMA ProjectParts ==
  /\ \A p \in Projects : p[1] \in Tenants /\ p[2] \in Sites \cup {Tsdb} /\ p = <<p[1], p[2]>>
  /\ \A t \in Tenants, s \in Sites \cup {Tsdb} : <<t, s>> \in Projects
BY DEF Projects

(* UpsertDesiredState keeps a row typed and its id columns good. *)
LEMMA UpsertTyped ==
  ASSUME NEW row \in DesiredRow, NEW p \in Projects, GoodColumns(row, p),
         NEW t, NEW s, \/ t = p[1] /\ s = SiteColumn(p[2])
                       \/ t = NoId /\ s = NoId,
         NEW st \in {"running", "stopped", "removed"}, NEW h \in Hashes
  PROVE  UpsertRow(row, t, s, st, h) \in DesiredRow /\ GoodColumns(UpsertRow(row, t, s, st, h), p)
BY ProjectParts, ConstantsAssumption DEF UpsertRow, DesiredRow, GoodColumns, OwnColumns, SiteColumn

(* composeFile names a file that the model knows. *)
LEMMA ComposeFileTyped ==
  ASSUME NEW row \in DesiredRow, NEW p \in Projects, GoodColumns(row, p)
  PROVE  row.state # "none" => ComposeFile(row) \in Files
BY ProjectParts, ConstantsAssumption
   DEF ComposeFile, DesiredRow, GoodColumns, OwnColumns, SiteColumn, Files

(* The fresh host satisfies the type invariant. *)
LEMMA InitTyped == Init => TypeInv
<1> SUFFICES ASSUME Init PROVE TypeInv
  OBVIOUS
<1>1. TypeOK
  BY HashTypes, NoDesiredTyped, ConstantsAssumption
     DEF Init, TypeOK, Statuses, Versions, NoContainers, Files, NoRequest, Request, NoTick, Tick
<1>2. RowsInv /\ RequestsInv /\ TicksInv
  BY DEF Init, RowsInv, RequestsInv, TicksInv, NoRequest, NoTick
<1>3. ColumnsInv
  BY DEF Init, ColumnsInv, GoodColumns, NoTick, NoDesired
<1> QED BY <1>1, <1>2, <1>3 DEF TypeInv

-----------------------------------------------------------------------------
(* TypeInv by the component that changes it. *)
StoreT ==
  /\ tenantRow \in [Tenants -> [status : Statuses, ver : Versions]]
  /\ siteRow \in [Sites -> [tenant : Tenants \cup {NoId}, status : Statuses,
                            ver : Versions]]
  /\ desired \in [Projects -> DesiredRow]
  /\ RowsInv
  /\ \A p \in Projects : GoodColumns(desired[p], p)

RequestT == req \in [Requests -> Request] /\ ops \in 0..MaxOps /\ RequestsInv

TickT ==
  /\ tick \in [Ticks -> Tick]
  /\ TicksInv
  /\ \A k \in Ticks, p \in Projects : GoodColumns(tick[k].todo[p], p)

HostT ==
  /\ cache \in [Projects -> Hashes]
  /\ disk \in [Files -> Versions]
  /\ containers \in [Projects -> [state : {"none", "up", "broken"},
                                  file : Files, ver : Versions]]
  /\ fails \in [Projects -> 0..Rungs]
  /\ waiting \in [Projects -> BOOLEAN]
  /\ faults \in 0..MaxFaults

(* The type invariant, split by who changes the variables. *)
LEMMA TypeInvParts == TypeInv <=> StoreT /\ RequestT /\ TickT /\ HostT
BY DEF TypeInv, TypeOK, ColumnsInv, StoreT, RequestT, TickT, HostT

(* ... and the same in the next state. *)
LEMMA TypeInvPartsPrimed == TypeInv' <=> StoreT' /\ RequestT' /\ TickT' /\ HostT'
BY DEF TypeInv, TypeOK, ColumnsInv, StoreT, RequestT, TickT, HostT

(* Parts of it survive steps that leave their variables alone. *)
LEMMA UnchangedStore == StoreT /\ UNCHANGED storeVars => StoreT'
BY DEF StoreT, storeVars, RowsInv, GoodColumns, OwnColumns

LEMMA UnchangedTick == TickT /\ UNCHANGED tick => TickT'
BY DEF TickT, TicksInv, GoodColumns, OwnColumns

LEMMA UnchangedRequest == RequestT /\ UNCHANGED <<req, ops>> => RequestT'
BY DEF RequestT, RequestsInv

(* A request that begins. *)
LEMMA BeginTyped ==
  ASSUME TypeInv, NEW r \in Requests, ops < MaxOps,
         NEW pc \in {"insert", "read", "set", "trigger"}, NEW op \in Operations,
         NEW t \in Tenants, NEW s \in Sites \cup {Tsdb},
         pc = "insert" \/ op \in {"rmSite", "purgeSite"} => s \in Sites,
         Begin(r, pc, op, t, s)
  PROVE  RequestT' /\ TickT' /\ HostT'
<1> USE TypeInvParts, TypeInvPartsPrimed
<1>1. RequestT'
  <2>1. req' \in [Requests -> Request] /\ ops' \in 0..MaxOps
    BY ConstantsAssumption DEF RequestT, Begin, Request, Versions
  <2>2. RequestsInv'
    BY DEF RequestT, Begin, Request, RequestsInv, Versions
  <2> QED BY <2>1, <2>2 DEF RequestT
<1>2. TickT'
  BY UnchangedTick DEF Begin
<1>3. HostT'
  BY DEF HostT, Begin
<1> QED BY <1>1, <1>2, <1>3

(* Accepting a request keeps the type invariant. *)
LEMMA ArriveTyped == ASSUME TypeInv, NEW r \in Requests, Arrive(r) PROVE TypeInv'
<1> USE TypeInvParts, TypeInvPartsPrimed
<1>1. ASSUME NEW t \in Tenants, CreateTenant(r, t) PROVE TypeInv'
  <2>1. RequestT' /\ TickT' /\ HostT'
    BY <1>1, BeginTyped DEF CreateTenant, CanBegin, Operations
  <2>2. StoreT'
    BY <1>1, ConstantsAssumption
       DEF CreateTenant, CanBegin, Begin, StoreT, RequestT, RowsInv, Statuses, Versions, GoodColumns, OwnColumns
  <2> QED BY <2>1, <2>2
<1>2. ASSUME NEW t \in Tenants, PatchTenant(r, t) PROVE TypeInv'
  <2>1. RequestT' /\ TickT' /\ HostT'
    BY <1>2, BeginTyped DEF PatchTenant, CanBegin, Operations
  <2>2. ops + 1 \in Versions /\ ops + 1 >= 1
    BY <1>2, ConstantsAssumption DEF PatchTenant, CanBegin, RequestT, Versions
  <2>3. tenantRow' \in [Tenants -> [status : Statuses, ver : Versions]]
    BY <1>2, <2>2 DEF PatchTenant, StoreT
  <2>4. RowsInv'
    BY <1>2, <2>2 DEF PatchTenant, StoreT, RowsInv
  <2>5. StoreT'
    BY <1>2, <2>3, <2>4 DEF PatchTenant, StoreT
  <2> QED BY <2>1, <2>5
<1>3. ASSUME NEW t \in Tenants, StartTenant(r, t) \/ StopTenant(r, t) \/ DeleteTenant(r, t)
      PROVE  TypeInv'
  <2>1. RequestT' /\ TickT' /\ HostT'
    BY <1>3, BeginTyped DEF StartTenant, StopTenant, DeleteTenant, CanBegin, Operations
  <2>2. StoreT'
    BY <1>3, UnchangedStore DEF StartTenant, StopTenant, DeleteTenant
  <2> QED BY <2>1, <2>2
<1>4. ASSUME NEW s \in Sites, PatchSite(r, s) PROVE TypeInv'
  <2>1. siteRow[s].tenant \in Tenants
    BY <1>4 DEF PatchSite, StoreT, RowsInv
  <2>2. RequestT' /\ TickT' /\ HostT'
    BY <1>4, <2>1, BeginTyped DEF PatchSite, CanBegin, Operations
  <2>3. StoreT'
    BY <1>4, ConstantsAssumption
       DEF PatchSite, CanBegin, Begin, StoreT, RequestT, RowsInv, Statuses, Versions,
           GoodColumns, OwnColumns
  <2> QED BY <2>2, <2>3
<1>5. ASSUME NEW t \in Tenants, NEW s \in Sites,
             \/ CreateSite(r, t, s) \/ StartSite(r, t, s)
             \/ StopSite(r, t, s) \/ DeleteSite(r, t, s)
      PROVE  TypeInv'
  <2>1. RequestT' /\ TickT' /\ HostT'
    BY <1>5, BeginTyped DEF CreateSite, StartSite, StopSite, DeleteSite, CanBegin, Operations
  <2>2. StoreT'
    BY <1>5, UnchangedStore DEF CreateSite, StartSite, StopSite, DeleteSite
  <2> QED BY <2>1, <2>2
<1>6. ASSUME NEW p \in Projects, Apply(r, p) PROVE TypeInv'
  <2>1. RequestT' /\ TickT' /\ HostT'
    BY <1>6, BeginTyped, ProjectParts DEF Apply, CanBegin, Operations
  <2>2. /\ UpsertRow(desired[p], NoId, NoId, "running", NoHash) \in DesiredRow
        /\ GoodColumns(UpsertRow(desired[p], NoId, NoId, "running", NoHash), p)
    BY UpsertTyped, HashTypes DEF StoreT
  <2>3. StoreT'
    BY <1>6, <2>2 DEF Apply, StoreT, RowsInv
  <2> QED BY <2>1, <2>3
<1> QED BY <1>1, <1>2, <1>3, <1>4, <1>5, <1>6 DEF Arrive

(* The upsert of a lifecycle handler keeps desired_state well formed. *)
LEMMA UpsertStateTyped ==
  ASSUME TypeInv, NEW p \in Projects, NEW st \in {"running", "stopped", "removed"},
         UpsertState(p, st), UNCHANGED <<tenantRow, siteRow>>
  PROVE  StoreT'
<1> USE TypeInvParts, TypeInvPartsPrimed
<1>1. LET row == UpsertRow(desired[p], p[1], SiteColumn(p[2]), st, NoHash)
      IN  row \in DesiredRow /\ GoodColumns(row, p)
  BY UpsertTyped, HashTypes DEF StoreT
<1> QED BY <1>1 DEF UpsertState, StoreT, RowsInv

(* Lifecycle handlers write one of three states. *)
LEMMA TargetStates == \A op : TargetState(op) \in {"running", "stopped", "removed"}
BY DEF TargetState

(* Moving a request on, or ending it. *)
LEMMA GotoTyped ==
  ASSUME TypeInv, NEW r \in Requests, req[r].pc # "idle",
         NEW pc \in {"read", "record", "list", "activate", "trigger", "converged"},
         Goto(r, pc)
  PROVE  RequestT' /\ TickT'
<1> USE TypeInvParts, TypeInvPartsPrimed
<1>1. RequestT'
  BY DEF Goto, RequestT, RequestsInv, Request
<1> QED BY <1>1, UnchangedTick DEF Goto

(* Ending a request keeps requests and ticks typed. *)
LEMMA FinishTyped == ASSUME TypeInv, NEW r \in Requests, Finish(r) PROVE RequestT' /\ TickT'
<1> USE TypeInvParts, TypeInvPartsPrimed
<1>1. NoRequest \in Request
  BY ConstantsAssumption DEF NoRequest, Request, Versions
<1>2. RequestT'
  BY <1>1 DEF Finish, RequestT, RequestsInv, NoRequest
<1> QED BY <1>2, UnchangedTick DEF Finish

(* ... and so does any move to another program counter. *)
LEMMA AdvanceTyped ==
  ASSUME TypeInv, NEW r \in Requests, req[r].pc \notin {"idle", "insert"},
         NEW found \in SUBSET Projects, NEW pc \in {"trigger", "sites"},
         req' = [req EXCEPT ![r] = [req[r] EXCEPT !.todo = found, !.pc = pc]], ops' = ops
  PROVE  RequestT'
<1> USE TypeInvParts
<1> DEFINE new == [req[r] EXCEPT !.todo = found, !.pc = pc]
<1>1. new \in Request
  BY DEF RequestT, Request
<1>2. new.pc = pc /\ new.tenant = req[r].tenant /\ new.site = req[r].site
      /\ new.n = req[r].n /\ new.op = req[r].op
  BY DEF RequestT, Request
<1>3. req' \in [Requests -> Request]
  BY <1>1 DEF RequestT
<1>4. RequestsInv'
  BY <1>2 DEF RequestT, RequestsInv
<1> QED BY <1>3, <1>4 DEF RequestT

(* Every step of a handler keeps the type invariant. *)
LEMMA ServeTyped == ASSUME TypeInv, NEW r \in Requests, Serve(r) PROVE TypeInv'
<1> USE TypeInvParts, TypeInvPartsPrimed
<1> DEFINE q == req[r]
           p == <<q.tenant, q.site>>
<1>q. q.pc # "idle" => /\ q.tenant \in Tenants /\ q.site \in Sites \cup {Tsdb}
                       /\ q.n \in 1..MaxOps /\ p \in Projects
  BY ProjectParts DEF RequestT, RequestsInv, Request, Versions
<1>1. ASSUME InsertSite(r) PROVE TypeInv'
  <2>1. q.site \in Sites
    BY <1>1 DEF InsertSite, RequestT, RequestsInv
  <2>2. RequestT' /\ TickT'
    BY <1>1, GotoTyped, FinishTyped DEF InsertSite
  <2>3. HostT'
    BY <1>1 DEF InsertSite, Goto, Finish, HostT
  <2>4. siteRow' \in [Sites -> [tenant : Tenants \cup {NoId}, status : Statuses, ver : Versions]]
    BY <1>1, <1>q, <2>1 DEF InsertSite, StoreT, Statuses, Versions
  <2>5. RowsInv'
    BY <1>1, <1>q, <2>1 DEF InsertSite, StoreT, RowsInv
  <2>6. StoreT'
    BY <1>1, <2>4, <2>5 DEF InsertSite, StoreT
  <2> QED BY <2>2, <2>3, <2>6
<1>2. ASSUME RenderRead(r) PROVE TypeInv'
  <2>1. StoreT'
    BY <1>2, UnchangedStore DEF RenderRead, storeVars
  <2>2. HostT'
    BY <1>2 DEF RenderRead, Finish, HostT
  <2>3. CASE Finish(r)
    BY <2>1, <2>2, <2>3, FinishTyped
  <2>4. CASE ~Finish(r)
    <3>1. RowVersion(q.tenant, q.site) \in 1..MaxOps
      BY <1>2, <1>q, <2>4 DEF RenderRead, RowVersion, StoreT, RowsInv, Versions
    <3>2. q.site # Tsdb => siteRow[q.site].tenant \in Tenants
      BY <1>2, <1>q, <2>4 DEF RenderRead, StoreT, RowsInv
    <3>3. req' \in [Requests -> Request] /\ ops' = ops
      BY <1>2, <1>q, <2>4, <3>1, <3>2 DEF RenderRead, RequestT, Request, Versions
    <3>4. RequestsInv'
      BY <1>2, <1>q, <2>4, <3>1, <3>2 DEF RenderRead, RequestT, RequestsInv, Request
    <3>5. TickT'
      BY <1>2, <2>4, UnchangedTick DEF RenderRead
    <3> QED BY <2>1, <2>2, <3>3, <3>4, <3>5 DEF RequestT
  <2> QED BY <2>3, <2>4
<1>3. ASSUME RenderWrite(r) PROVE TypeInv'
  <2>1. StoreT' /\ RequestT' /\ TickT'
    BY <1>3, GotoTyped, UnchangedStore DEF RenderWrite
  <2>2. HostT'
    BY <1>3, <1>q DEF RenderWrite, Goto, HostT, Versions, Files
  <2> QED BY <2>1, <2>2
<1>4. ASSUME RenderRecord(r) PROVE TypeInv'
  <2>1. RequestT' /\ TickT'
    BY <1>4, GotoTyped DEF RenderRecord
  <2>2. HostT'
    BY <1>4 DEF RenderRecord, Goto, HostT
  <2>3. LET row == UpsertRow(desired[p], q.tenant, SiteColumn(q.site), "running", ConfigHash[q.n])
        IN  q.pc # "idle" => row \in DesiredRow /\ GoodColumns(row, p)
    BY <1>q, UpsertTyped, HashTypes, ProjectParts DEF StoreT
  <2>4. StoreT'
    BY <1>4, <1>q, <2>3 DEF RenderRecord, StoreT, RowsInv
  <2> QED BY <2>1, <2>2, <2>4
<1>5. ASSUME SetState(r) PROVE TypeInv'
  <2>1. RequestT' /\ TickT'
    BY <1>5, GotoTyped DEF SetState
  <2>2. HostT'
    BY <1>5 DEF SetState, Goto, HostT
  <2>3. StoreT'
    BY <1>5, <1>q, UpsertStateTyped, UnchangedStore, TargetStates DEF SetState, storeVars
  <2> QED BY <2>1, <2>2, <2>3
<1>6. ASSUME ActivateTenant(r) PROVE TypeInv'
  <2>1. RequestT' /\ TickT'
    BY <1>6, GotoTyped DEF ActivateTenant
  <2>2. HostT'
    BY <1>6 DEF ActivateTenant, Goto, HostT
  <2>3. tenantRow' \in [Tenants -> [status : Statuses, ver : Versions]]
    BY <1>6, <1>q DEF ActivateTenant, StoreT, Statuses
  <2>4. RowsInv'
    BY <1>6, <1>q DEF ActivateTenant, StoreT, RowsInv
  <2>5. StoreT'
    BY <1>6, <2>3, <2>4 DEF ActivateTenant, StoreT
  <2> QED BY <2>1, <2>2, <2>5
<1>7. ASSUME ListTenantSites(r) PROVE TypeInv'
  <2>1. {q.tenant} \X SitesOf(q.tenant) \in SUBSET Projects
    BY <1>7, <1>q DEF ListTenantSites, SitesOf, Projects
  <2>2. RequestT'
    <3>1. \E found \in SUBSET Projects, pc \in {"trigger", "sites"} :
             /\ req' = [req EXCEPT ![r] = [req[r] EXCEPT !.todo = found, !.pc = pc]]
             /\ ops' = ops
      BY <1>7, <2>1 DEF ListTenantSites, RequestT
    <3>2. req[r].pc \notin {"idle", "insert"}
      BY <1>7 DEF ListTenantSites
    <3> QED BY <3>1, <3>2, AdvanceTyped
  <2>3. StoreT' /\ TickT' /\ HostT'
    BY <1>7, UnchangedStore, UnchangedTick DEF ListTenantSites, storeVars, HostT
  <2> QED BY <2>2, <2>3
<1>8. ASSUME NEW x \in Projects, SetSiteState(r, x) PROVE TypeInv'
  <2>1. RequestT'
    <3>1. \E found \in SUBSET Projects, pc \in {"trigger", "sites"} :
             /\ req' = [req EXCEPT ![r] = [req[r] EXCEPT !.todo = found, !.pc = pc]]
             /\ ops' = ops
      <4>1. q.todo \ {x} \in SUBSET Projects
        BY DEF RequestT, Request
      <4> QED BY <1>8, <4>1 DEF SetSiteState, RequestT
    <3>2. req[r].pc \notin {"idle", "insert"}
      BY <1>8 DEF SetSiteState
    <3> QED BY <3>1, <3>2, AdvanceTyped
  <2>2. StoreT'
    BY <1>8, UpsertStateTyped, UnchangedStore, TargetStates DEF SetSiteState, storeVars
  <2>3. TickT' /\ HostT'
    BY <1>8, UnchangedTick DEF SetSiteState, HostT
  <2> QED BY <2>1, <2>2, <2>3
<1>9. ASSUME NEW k \in Triggers, SpawnTrigger(r, k) PROVE TypeInv'
  <2>1. NoRequest \in Request
    BY ConstantsAssumption DEF NoRequest, Request, Versions
  <2>2. RequestT'
    <3>1. CASE req' = [req EXCEPT ![r] = NoRequest]
      BY <1>9, <2>1, <3>1 DEF SpawnTrigger, RequestT, RequestsInv, NoRequest
    <3>2. ASSUME NEW pc \in {"delete", "poll"}, req' = [req EXCEPT ![r].pc = pc] PROVE RequestT'
      BY <1>9, <1>q, <3>2 DEF SpawnTrigger, RequestT, RequestsInv, Request
    <3> QED BY <1>9, <3>1, <3>2 DEF SpawnTrigger
  <2>3. TickT'
    BY <1>9 DEF SpawnTrigger, TickT, Tick, TicksInv, Ticks
  <2>4. StoreT' /\ HostT'
    BY <1>9, UnchangedStore DEF SpawnTrigger, storeVars, HostT
  <2> QED BY <2>2, <2>3, <2>4
<1>10. ASSUME DeleteRows(r) PROVE TypeInv'
  <2>1. RequestT' /\ TickT'
    BY <1>10, FinishTyped DEF DeleteRows
  <2>2. HostT'
    BY <1>10 DEF DeleteRows, Finish, HostT
  <2>3. q.tenant \in Tenants /\ (q.op \in {"rmSite", "purgeSite"} => q.site \in Sites)
    BY <1>10, <1>q DEF DeleteRows, RequestT, RequestsInv
  <2>4. /\ tenantRow' \in [Tenants -> [status : Statuses, ver : Versions]]
        /\ siteRow' \in [Sites -> [tenant : Tenants \cup {NoId}, status : Statuses, ver : Versions]]
    <3>1. [status |-> "none", ver |-> 0] \in [status : Statuses, ver : Versions]
      BY ConstantsAssumption DEF Statuses, Versions
    <3>2. [tenant |-> NoId, status |-> "none", ver |-> 0]
            \in [tenant : Tenants \cup {NoId}, status : Statuses, ver : Versions]
      BY ConstantsAssumption DEF Statuses, Versions
    <3>3. /\ \A t \in Tenants : Orphan(tenantRow[t]) \in [status : Statuses, ver : Versions]
          /\ \A s \in Sites : Orphan(siteRow[s])
                \in [tenant : Tenants \cup {NoId}, status : Statuses, ver : Versions]
      BY DEF Orphan, StoreT, Statuses
    <3>4. CASE PurgeTenantRows(q.tenant)
      BY <2>3, <3>1, <3>2, <3>4 DEF PurgeTenantRows, StoreT
    <3>5. CASE q.op = "purgeSite" /\ PurgeSiteRows(q.site)
      BY <2>3, <3>2, <3>5 DEF PurgeSiteRows, StoreT
    <3>6. CASE tenantRow' = [tenantRow EXCEPT ![q.tenant] = Orphan(@)] /\ UNCHANGED siteRow
      BY <2>3, <3>3, <3>6 DEF StoreT
    <3>7. CASE /\ q.op = "rmSite" /\ siteRow' = [siteRow EXCEPT ![q.site] = Orphan(@)]
               /\ UNCHANGED tenantRow
      BY <2>3, <3>3, <3>7 DEF StoreT
    <3>8. CASE UNCHANGED storeVars
      BY <3>8 DEF storeVars, StoreT
    <3> QED BY <1>10, <3>4, <3>5, <3>6, <3>7, <3>8 DEF DeleteRows
  <2>5. desired' \in [Projects -> DesiredRow] /\ \A x \in Projects : GoodColumns(desired[x], x)'
    BY <1>10, <2>3, NoDesiredTyped
       DEF DeleteRows, PurgeTenantRows, PurgeSiteRows, StoreT, storeVars, GoodColumns, OwnColumns, NoDesired
  <2>6. RowsInv'
    BY <1>10, <2>3 DEF DeleteRows, PurgeTenantRows, PurgeSiteRows, Orphan, StoreT, storeVars, RowsInv
  <2> QED BY <2>1, <2>2, <2>4, <2>5, <2>6 DEF StoreT
<1>11. ASSUME PollConverged(r) \/ PollEnds(r) PROVE TypeInv'
  <2>1. RequestT' /\ TickT'
    BY <1>11, GotoTyped, FinishTyped DEF PollConverged, PollEnds
  <2>2. StoreT' /\ HostT'
    BY <1>11, UnchangedStore DEF PollConverged, PollEnds, Goto, Finish, storeVars, HostT
  <2> QED BY <2>1, <2>2
<1> QED BY <1>1, <1>2, <1>3, <1>4, <1>5, <1>6, <1>7, <1>8, <1>9, <1>10, <1>11 DEF Serve

(* Ending the work of tick k on project p. *)
LEMMA FinishProjectTyped ==
  ASSUME TypeInv, NEW k \in Ticks, NEW p \in Projects,
         tick' = [tick EXCEPT ![k].pc = "walk", ![k].p = NoProject, ![k].todo[p] = NoDesired]
  PROVE  TickT'
<1> USE TypeInvParts
<1>1. tick' \in [Ticks -> Tick]
  BY NoDesiredTyped DEF TickT, Tick
<1>2. TicksInv'
  BY DEF TickT, Tick, TicksInv
<1>3. \A j \in Ticks, x \in Projects : GoodColumns(tick[j].todo[x], x)'
  BY DEF TickT, Tick, GoodColumns, OwnColumns, NoDesired
<1> QED BY <1>1, <1>2, <1>3 DEF TickT

(* Both ends of reconcileProject keep ticks and backoff typed. *)
LEMMA SucceedTyped ==
  ASSUME TypeInv, NEW k \in Ticks, NEW p \in Projects, Succeed(k, p)
  PROVE  /\ TickT'
         /\ fails' \in [Projects -> 0..Rungs]
         /\ waiting' \in [Projects -> BOOLEAN]
<1> USE TypeInvParts
<1>1. TickT'
  BY FinishProjectTyped DEF Succeed
<1>2. fails' \in [Projects -> 0..Rungs]
  BY ConstantsAssumption DEF Succeed, HostT
<1>3. waiting' \in [Projects -> BOOLEAN]
  BY DEF Succeed, HostT
<1> QED BY <1>1, <1>2, <1>3

LEMMA FailTyped ==
  ASSUME TypeInv, NEW k \in Ticks, NEW p \in Projects, Fail(k, p)
  PROVE  /\ TickT'
         /\ fails' \in [Projects -> 0..Rungs]
         /\ waiting' \in [Projects -> BOOLEAN]
<1> USE TypeInvParts
<1>1. TickT'
  BY FinishProjectTyped DEF Fail
<1>2. fails' \in [Projects -> 0..Rungs]
  BY ConstantsAssumption DEF Fail, HostT
<1>3. waiting' \in [Projects -> BOOLEAN]
  BY DEF Fail, HostT
<1> QED BY <1>1, <1>2, <1>3

(* Every step of a reconciler tick keeps the type invariant. *)
LEMMA TickTyped == ASSUME TypeInv, NEW k \in Ticks, TickStep(k) PROVE TypeInv'
<1> USE TypeInvParts, TypeInvPartsPrimed, ConstantsAssumption
<1> DEFINE f == ComposeFile(tick[k].todo[tick[k].p])
<1>0. UNCHANGED tickUnchanged => StoreT' /\ RequestT' /\ disk' = disk
  BY UnchangedStore, UnchangedRequest DEF tickUnchanged, storeVars
<1>p. tick[k].pc \in {"compare", "up", "down", "record"} =>
        /\ tick[k].p \in Projects /\ tick[k].todo[tick[k].p] \in DesiredRow
        /\ f \in Files
  BY ComposeFileTyped DEF TickT, TicksInv, Tick
<1>1. ASSUME TickList(k) PROVE TypeInv'
  <2>1. TickT'
    BY <1>1 DEF TickList, TickT, Tick, TicksInv, StoreT, GoodColumns, OwnColumns
  <2> QED BY <1>0, <1>1, <2>1 DEF TickList, HostT
<1>2. ASSUME TickEnd(k) PROVE TypeInv'
  <2>1. NoTick \in Tick
    BY NoDesiredTyped DEF NoTick, Tick
  <2>2. TickT'
    BY <1>2, <2>1 DEF TickEnd, TickT, TicksInv, NoTick, GoodColumns, OwnColumns, NoDesired
  <2> QED BY <1>0, <1>2, <2>2 DEF TickEnd, HostT
<1>3. ASSUME NEW p \in Projects, TickSkip(k, p) PROVE TypeInv'
  <2>1. tick' \in [Ticks -> Tick]
    BY <1>3, NoDesiredTyped DEF TickSkip, TickT, Tick
  <2>2. TicksInv' /\ \A j \in Ticks, x \in Projects : GoodColumns(tick[j].todo[x], x)'
    BY <1>3 DEF TickSkip, TickT, Tick, TicksInv, GoodColumns, OwnColumns, NoDesired
  <2> QED BY <1>0, <1>3, <2>1, <2>2 DEF TickSkip, HostT, TickT
<1>4. ASSUME NEW p \in Projects, TickNoop(k, p) PROVE TypeInv'
  BY <1>0, <1>4, SucceedTyped DEF TickNoop, HostT
<1>5. ASSUME NEW p \in Projects, TickInspect(k, p) \/ TickAct(k, p) PROVE TypeInv'
  <2>0. PICK pc \in {"compare", "up", "down"} :
           /\ tick' = [tick EXCEPT ![k].p = p, ![k].pc = pc] /\ UNCHANGED tickUnchanged
           /\ tick[k].todo[p].state # "none"
    BY <1>5 DEF TickInspect, TickAct, Inspected
  <2>1. tick' \in [Ticks -> Tick]
    BY <2>0 DEF TickT, Tick
  <2>2. TicksInv'
    BY <2>0 DEF TickT, Tick, TicksInv
  <2>3. \A j \in Ticks, x \in Projects : GoodColumns(tick[j].todo[x], x)'
    BY <2>0 DEF TickT, Tick, GoodColumns, OwnColumns
  <2>4. HostT'
    BY <1>0, <1>5 DEF TickInspect, TickAct, HostT
  <2> QED BY <1>0, <2>0, <2>1, <2>2, <2>3, <2>4 DEF TickT
<1>6. ASSUME ComposeUp(k) PROVE TypeInv'
  <2>1. containers' \in [Projects -> [state : {"none", "up", "broken"}, file : Files, ver : Versions]]
    BY <1>6, <1>p DEF ComposeUp, HostT
  <2>2. CASE Succeed(k, tick[k].p)
    BY <1>0, <1>6, <1>p, <2>1, <2>2, SucceedTyped DEF ComposeUp, HostT
  <2>3. CASE tick' = [tick EXCEPT ![k].pc = "record"] /\ UNCHANGED <<fails, waiting>>
    <3>1. TickT'
      BY <1>6, <1>p, <2>3 DEF ComposeUp, TickT, Tick, TicksInv, GoodColumns, OwnColumns
    <3> QED BY <1>0, <1>6, <2>1, <2>3, <3>1 DEF ComposeUp, HostT
  <2> QED BY <1>6, <2>2, <2>3 DEF ComposeUp
<1>7. ASSUME ComposeUpFails(k) PROVE TypeInv'
  <2>1. containers' \in [Projects -> [state : {"none", "up", "broken"}, file : Files, ver : Versions]]
    BY <1>7, <1>p DEF ComposeUpFails, HostT
  <2>2. faults' \in 0..MaxFaults
    BY <1>7 DEF ComposeUpFails, HostT
  <2> QED BY <1>0, <1>7, <1>p, <2>1, <2>2, FailTyped DEF ComposeUpFails, HostT
<1>8. ASSUME ComposeDown(k) PROVE TypeInv'
  <2>1. containers' \in [Projects -> [state : {"none", "up", "broken"}, file : Files, ver : Versions]]
    BY <1>8, <1>p DEF ComposeDown, HostT, NoContainers, Files, Versions
  <2> QED BY <1>0, <1>8, <1>p, <2>1, SucceedTyped DEF ComposeDown, HostT
<1>9. ASSUME ComposeDownFails(k) PROVE TypeInv'
  <2>1. faults' \in 0..MaxFaults
    BY <1>9 DEF ComposeDownFails, HostT
  <2> QED BY <1>0, <1>9, <1>p, <2>1, FailTyped DEF ComposeDownFails, HostT
<1>10. ASSUME RecordHash(k) PROVE TypeInv'
  <2>1. cache' \in [Projects -> Hashes]
    BY <1>10, <1>p DEF RecordHash, HostT, DesiredRow
  <2> QED BY <1>0, <1>10, <1>p, <2>1, SucceedTyped DEF RecordHash, HostT
<1>11. ASSUME TickSame(k) PROVE TypeInv'
  BY <1>0, <1>11, <1>p, SucceedTyped DEF TickSame, HostT
<1>12. ASSUME TickDrifted(k) PROVE TypeInv'
  <2>1. TickT'
    BY <1>12, <1>p DEF TickDrifted, TickT, Tick, TicksInv, GoodColumns, OwnColumns
  <2>2. HostT'
    BY <1>0, <1>12 DEF TickDrifted, HostT
  <2> QED BY <1>0, <1>12, <2>1, <2>2 DEF TickDrifted
<1> QED BY <1>1, <1>2, <1>3, <1>4, <1>5, <1>6, <1>7, <1>8, <1>9, <1>10, <1>11, <1>12 DEF TickStep

(* Every step preserves TypeInv. *)
LEMMA NextTyped == ASSUME TypeInv, [Next]_vars PROVE TypeInv'
<1> USE TypeInvParts, TypeInvPartsPrimed, ConstantsAssumption
<1>1. ASSUME NEW r \in Requests, Arrive(r) \/ Serve(r) PROVE TypeInv'
  BY <1>1, ArriveTyped, ServeTyped
<1>2. ASSUME NEW r \in Requests, RenderWriteFails(r) PROVE TypeInv'
  <2>1. NoRequest \in Request
    BY DEF NoRequest, Request, Versions
  <2>2. RequestT'
    BY <1>2, <2>1 DEF RenderWriteFails, RequestT, RequestsInv, NoRequest
  <2>3. HostT'
    <3>1. disk' \in [Files -> Versions]
      BY <1>2 DEF RenderWriteFails, HostT, RequestT, Request
    <3> QED BY <1>2, <3>1 DEF RenderWriteFails, HostT
  <2> QED BY <1>2, <2>2, <2>3, UnchangedStore, UnchangedTick DEF RenderWriteFails, storeVars
<1>3. ASSUME NEW r \in Requests, Cancel(r) PROVE TypeInv'
  <2>1. req' \in [Requests -> Request]
    <3>1. [req[r] EXCEPT !.live = FALSE] \in Request
      BY DEF RequestT, Request
    <3> QED BY <1>3, <3>1 DEF Cancel, RequestT
  <2>2. RequestsInv'
    BY <1>3 DEF Cancel, RequestT, Request, RequestsInv
  <2>3. HostT'
    BY <1>3 DEF Cancel, HostT
  <2>4. RequestT'
    BY <1>3, <2>1, <2>2 DEF Cancel, RequestT
  <2> QED BY <1>3, <2>3, <2>4, UnchangedStore, UnchangedTick DEF Cancel, storeVars
<1>4. ASSUME NEW k \in Ticks, TickStep(k) PROVE TypeInv'
  BY <1>4, TickTyped
<1>5. ASSUME NEW p \in Projects, BackoffExpires(p) PROVE TypeInv'
  <2>1. waiting' \in [Projects -> BOOLEAN]
    BY <1>5 DEF BackoffExpires, HostT
  <2>2. HostT'
    BY <1>5, <2>1 DEF BackoffExpires, HostT, tickUnchanged
  <2> QED BY <1>5, <2>2, UnchangedStore, UnchangedRequest, UnchangedTick
          DEF BackoffExpires, tickUnchanged, storeVars
<1>6. ASSUME NEW p \in Projects, ContainersDie(p) PROVE TypeInv'
  <2>1. containers' \in [Projects -> [state : {"none", "up", "broken"}, file : Files, ver : Versions]]
    <3>1. NoContainers \in [state : {"none", "up", "broken"}, file : Files, ver : Versions]
      BY DEF NoContainers, Files, Versions
    <3>2. [containers[p] EXCEPT !.state = "broken"]
             \in [state : {"none", "up", "broken"}, file : Files, ver : Versions]
      BY DEF HostT
    <3> QED BY <1>6, <3>1, <3>2 DEF ContainersDie, HostT
  <2>2. HostT'
    BY <1>6, <2>1 DEF ContainersDie, HostT, tickUnchanged
  <2> QED BY <1>6, <2>2, UnchangedStore, UnchangedRequest, UnchangedTick
          DEF ContainersDie, tickUnchanged, storeVars
<1>7. ASSUME DaemonRestart PROVE TypeInv'
  <2>1. NoRequest \in Request /\ NoTick \in Tick
    BY NoDesiredTyped DEF NoRequest, Request, Versions, NoTick, Tick
  <2>2. RequestT'
    BY <1>7, <2>1 DEF DaemonRestart, RequestT, RequestsInv, NoRequest
  <2>3. TickT'
    BY <1>7, <2>1 DEF DaemonRestart, TickT, TicksInv, NoTick, GoodColumns, NoDesired
  <2>4. HostT'
    BY <1>7 DEF DaemonRestart, HostT
  <2> QED BY <1>7, <2>2, <2>3, <2>4, UnchangedStore DEF DaemonRestart, storeVars
<1>8. CASE UNCHANGED vars
  BY <1>8, UnchangedStore, UnchangedRequest, UnchangedTick DEF vars, storeVars, HostT
<1> QED BY <1>1, <1>2, <1>3, <1>4, <1>5, <1>6, <1>7, <1>8 DEF Next

(* TypeOK, whatever the interleaving, the failures and the restarts: in     *)
(* particular failureCount never indexes past the backoff ladder and every  *)
(* compose file that a tick uses is one of a project or the shared one.     *)
THEOREM TypeCorrect == Spec => []TypeOK
<1>1. TypeInv => TypeOK
  BY DEF TypeInv
<1> QED BY InitTyped, NextTyped, <1>1, PTL DEF Spec

-----------------------------------------------------------------------------
(* The actions that write each piece of shared state.                      *)

DesiredStep(r) ==
  \/ RenderRecord(r) \/ SetState(r) \/ DeleteRows(r)
  \/ \E p \in Projects : Apply(r, p) \/ SetSiteState(r, p)

(* Only the steps in DesiredStep change desired_state. *)
LEMMA DesiredFrame == ASSUME [Next]_vars, desired' # desired PROVE \E r \in Requests : DesiredStep(r)
<1>1. ASSUME NEW r \in Requests, Arrive(r) PROVE DesiredStep(r)
  BY <1>1 DEF Arrive, CreateTenant, PatchTenant, StartTenant, StopTenant, DeleteTenant, PatchSite,
     CreateSite, StartSite, StopSite, DeleteSite, storeVars, DesiredStep
<1>2. ASSUME NEW r \in Requests, Serve(r) PROVE DesiredStep(r)
  BY <1>2 DEF Serve, InsertSite, RenderRead, RenderWrite, ActivateTenant, ListTenantSites,
     SpawnTrigger, PollConverged, PollEnds, storeVars, DesiredStep
<1>3. ASSUME NEW k \in Ticks, TickStep(k) PROVE FALSE
  BY <1>3 DEF TickStep, TickList, TickEnd, TickSkip, TickNoop, TickInspect, TickAct,
     TickSame, TickDrifted, ComposeUp, ComposeUpFails,
     ComposeDown, ComposeDownFails, RecordHash, tickUnchanged
<1> QED BY <1>1, <1>2, <1>3
        DEF Next, vars, RenderWriteFails, Cancel, BackoffExpires, ContainersDie, DaemonRestart, tickUnchanged

(* Snapshots are taken by TickList; every other step keeps rows or drops them. *)
LEMMA SnapshotFrame ==
  ASSUME TypeInv, [Next]_vars, NEW k \in Ticks, NEW p \in Projects
  PROVE  \/ tick'[k].todo[p] = tick[k].todo[p]
         \/ tick'[k].todo[p] = NoDesired
         \/ TickList(k) /\ tick'[k].todo[p] = desired[p]
<1> USE TypeInvParts DEF TickT, Tick
<1>1. CASE UNCHANGED tick
  BY <1>1
<1>2. ASSUME NEW r \in Requests, NEW j \in Triggers, SpawnTrigger(r, j)
      PROVE  tick'[k].todo[p] = tick[k].todo[p]
  BY <1>2 DEF SpawnTrigger, Ticks
<1>3. CASE DaemonRestart
  BY <1>3 DEF DaemonRestart, NoTick
<1>4. ASSUME NEW j \in Ticks, TickStep(j)
      PROVE  \/ tick'[k].todo[p] = tick[k].todo[p]
             \/ tick'[k].todo[p] = NoDesired
             \/ TickList(k) /\ tick'[k].todo[p] = desired[p]
  <2>1. CASE TickList(j)
    BY <2>1 DEF TickList
  <2>2. ASSUME NEW x \in Projects, Succeed(j, x) \/ Fail(j, x)
        PROVE  tick'[k].todo[p] = tick[k].todo[p] \/ tick'[k].todo[p] = NoDesired
    <3>1. tick' = [tick EXCEPT ![j].pc = "walk", ![j].p = NoProject, ![j].todo[x] = NoDesired]
      BY <2>2 DEF Succeed, Fail
    <3>2. tick \in [Ticks -> Tick] /\ tick[k].todo \in [Projects -> DesiredRow]
      OBVIOUS
    <3>3. CASE k # j
      BY <3>1, <3>2, <3>3
    <3>4. CASE k = j
      BY <3>1, <3>2, <3>4
    <3> QED BY <3>3, <3>4
  <2>3. CASE TickEnd(j)
    BY <2>3 DEF TickEnd, NoTick
  <2>4. ASSUME NEW x \in Projects, TickSkip(j, x)
        PROVE  tick'[k].todo[p] = tick[k].todo[p] \/ tick'[k].todo[p] = NoDesired
    BY <2>4 DEF TickSkip
  <2>5. ASSUME NEW x \in Projects, TickInspect(j, x) \/ TickAct(j, x)
        PROVE  tick'[k].todo[p] = tick[k].todo[p]
    <3>1. \E pc \in {"compare", "up", "down"} : tick' = [tick EXCEPT ![j].p = x, ![j].pc = pc]
      BY <2>5 DEF TickInspect, TickAct
    <3> QED BY <3>1
  <2>6. CASE \/ ComposeUp(j) \/ ComposeUpFails(j) \/ ComposeDown(j) \/ ComposeDownFails(j)
             \/ RecordHash(j) \/ TickSame(j) \/ TickDrifted(j)
    <3>1. tick[j].p \in Projects
      BY <2>6 DEF ComposeUp, ComposeUpFails, ComposeDown, ComposeDownFails, RecordHash,
         TickSame, TickDrifted, TicksInv
    <3>2. \/ Succeed(j, tick[j].p) \/ Fail(j, tick[j].p)
          \/ \E pc \in {"up", "record"} : tick' = [tick EXCEPT ![j].pc = pc]
      BY <2>6 DEF ComposeUp, ComposeUpFails, ComposeDown, ComposeDownFails, RecordHash,
         TickSame, TickDrifted
    <3>3. ASSUME NEW pc \in {"up", "record"}, tick' = [tick EXCEPT ![j].pc = pc]
          PROVE  tick'[k].todo[p] = tick[k].todo[p]
      BY <3>3
    <3> QED BY <2>2, <3>1, <3>2, <3>3
  <2>7. ASSUME NEW x \in Projects, TickNoop(j, x)
        PROVE  tick'[k].todo[p] = tick[k].todo[p] \/ tick'[k].todo[p] = NoDesired
    BY <2>2, <2>7 DEF TickNoop
  <2> QED BY <1>4, <2>1, <2>3, <2>4, <2>5, <2>6, <2>7 DEF TickStep
<1>5. ASSUME NEW r \in Requests, Arrive(r) \/ Serve(r) \/ RenderWriteFails(r) \/ Cancel(r)
      PROVE  UNCHANGED tick \/ \E j \in Triggers : SpawnTrigger(r, j)
  BY <1>5 DEF Arrive, CreateTenant, PatchTenant, StartTenant, StopTenant, DeleteTenant, PatchSite,
     CreateSite, StartSite, StopSite, DeleteSite, Apply, Begin,
     Serve, InsertSite, RenderRead, RenderWrite, RenderRecord, SetState, ActivateTenant,
     ListTenantSites, SetSiteState, DeleteRows, PollConverged, PollEnds, Goto, Finish,
     RenderWriteFails, Cancel
<1> QED BY <1>1, <1>2, <1>3, <1>4, <1>5
        DEF Next, vars, BackoffExpires, ContainersDie

ContainersStep(k) == ComposeUp(k) \/ ComposeUpFails(k) \/ ComposeDown(k)

(* Only compose runs and dying containers change what Docker runs. *)
LEMMA ContainersFrame ==
  ASSUME [Next]_vars, containers' # containers
  PROVE  (\E k \in Ticks : ContainersStep(k)) \/ (\E p \in Projects : ContainersDie(p))
<1>1. ASSUME NEW r \in Requests, Arrive(r) \/ Serve(r) \/ RenderWriteFails(r) \/ Cancel(r)
      PROVE  FALSE
  BY <1>1 DEF Arrive, CreateTenant, PatchTenant, StartTenant, StopTenant, DeleteTenant, PatchSite,
     CreateSite, StartSite, StopSite, DeleteSite, Apply, Begin,
     Serve, InsertSite, RenderRead, RenderWrite, RenderRecord, SetState, ActivateTenant,
     ListTenantSites, SetSiteState, SpawnTrigger, DeleteRows, PollConverged, PollEnds, Goto, Finish,
     RenderWriteFails, Cancel
<1>2. ASSUME NEW k \in Ticks, TickStep(k) PROVE ContainersStep(k)
  BY <1>2 DEF TickStep, TickList, TickEnd, TickSkip, TickNoop, TickInspect, TickAct,
     TickSame, TickDrifted, ComposeDownFails,
     RecordHash, ContainersStep
<1> QED BY <1>1, <1>2 DEF Next, vars, BackoffExpires, DaemonRestart

-----------------------------------------------------------------------------
(* Containers come from the compose file of their own project.             *)

(* For a row with its own id columns composeFile is the own file. *)
LEMMA OwnFile ==
  ASSUME NEW row \in DesiredRow, NEW p \in Projects, OwnColumns(row, p)
  PROVE  ComposeFile(row) = p
BY ProjectParts, ConstantsAssumption DEF ComposeFile, OwnColumns, SiteColumn, DesiredRow

(* An upsert with the own ids leaves a row with the own ids. *)
LEMMA UpsertOwn ==
  ASSUME NEW row \in DesiredRow, NEW p \in Projects, row.state # "none" => OwnColumns(row, p),
         NEW t, NEW s, row.state # "none" \/ (t = p[1] /\ s = SiteColumn(p[2])),
         NEW st, NEW h
  PROVE  OwnColumns(UpsertRow(row, t, s, st, h), p)
BY DEF UpsertRow, OwnColumns, DesiredRow

(* Every step keeps rows, snapshots and containers to their project. *)
LEMMA OwnNext ==
  ASSUME TypeInv, TypeInv', OwnInv, [Next]_vars, "applyUnknown" \notin Ops
  PROVE  OwnInv'
<1> USE TypeInvParts, TypeInvPartsPrimed
<1>1. ASSUME NEW p \in Projects, desired'[p].state # "none" PROVE OwnColumns(desired'[p], p)
  <2>1. CASE desired'[p] = desired[p]
    BY <1>1, <2>1 DEF OwnInv
  <2>2. CASE desired'[p] # desired[p]
    <3>1. PICK r \in Requests : DesiredStep(r)
      BY <2>2, DesiredFrame
    <3>2. desired[p] \in DesiredRow /\ (desired[p].state # "none" => OwnColumns(desired[p], p))
      BY DEF StoreT, OwnInv
    <3>3. ASSUME Apply(r, p) PROVE OwnColumns(desired'[p], p)
      BY <3>2, <3>3, UpsertOwn DEF Apply, StoreT, CanBegin
    <3>4. ASSUME NEW st, UpsertState(p, st) PROVE OwnColumns(desired'[p], p)
      BY <3>2, <3>4, UpsertOwn DEF UpsertState, StoreT
    <3>5. ASSUME RenderRecord(r) PROVE OwnColumns(desired'[p], p)
      <4>1. <<req[r].tenant, req[r].site>> = p
        BY <2>2, <3>5 DEF RenderRecord, StoreT
      <4>2. req[r].tenant = p[1] /\ req[r].site = p[2]
        BY <4>1
      <4> QED BY <2>2, <3>2, <3>5, <4>1, <4>2, UpsertOwn DEF RenderRecord, StoreT
    <3>6. ASSUME DeleteRows(r) PROVE desired'[p] = NoDesired
      BY <2>2, <3>6 DEF DeleteRows, PurgeTenantRows, PurgeSiteRows, storeVars
    <3>7. ASSUME SetState(r) PROVE \E st : UpsertState(p, st)
      BY <2>2, <3>7 DEF SetState, UpsertState, StoreT
    <3>8. ASSUME NEW x \in Projects, SetSiteState(r, x) PROVE x = p /\ \E st : UpsertState(p, st)
      BY <2>2, <3>8 DEF SetSiteState, UpsertState, StoreT
    <3>9. ASSUME NEW x \in Projects, Apply(r, x) PROVE x = p
      BY <2>2, <3>9 DEF Apply, StoreT
    <3> QED BY <1>1, <3>1, <3>3, <3>4, <3>5, <3>6, <3>7, <3>8, <3>9 DEF DesiredStep, NoDesired
  <2> QED BY <2>1, <2>2
<1>2. ASSUME NEW k \in Ticks, NEW p \in Projects, tick'[k].todo[p].state # "none"
      PROVE  OwnColumns(tick'[k].todo[p], p)
  BY <1>2, SnapshotFrame DEF OwnInv, NoDesired
<1>3. ASSUME NEW p \in Projects, containers'[p].state # "none" PROVE containers'[p].file = p
  <2>1. CASE containers'[p] = containers[p]
    BY <1>3, <2>1 DEF OwnInv
  <2>2. ASSUME NEW k \in Ticks, ContainersStep(k), containers'[p] # containers[p]
        PROVE  containers'[p].file = p
    <3>1. tick[k].p \in Projects /\ tick[k].todo[tick[k].p] \in DesiredRow
          /\ tick[k].todo[tick[k].p].state # "none"
      BY <2>2 DEF ContainersStep, ComposeUp, ComposeUpFails, ComposeDown, TickT, TicksInv, Tick
    <3>2. ComposeFile(tick[k].todo[tick[k].p]) = tick[k].p
      BY <3>1, OwnFile DEF OwnInv
    <3> QED BY <1>3, <2>2, <3>1, <3>2
            DEF ContainersStep, ComposeUp, ComposeUpFails, ComposeDown, HostT, NoContainers
  <2>3. ASSUME NEW x \in Projects, ContainersDie(x), containers'[p] # containers[p]
        PROVE  containers'[p].file = p
    BY <1>3, <2>3 DEF ContainersDie, HostT, NoContainers, OwnInv
  <2> QED BY <2>1, <2>2, <2>3, ContainersFrame
<1> QED BY <1>1, <1>2, <1>3 DEF OwnInv, OwnColumns

(* Rows have their own ids or none, so composeFile is the own file or the  *)
(* shared one.                                                             *)
LEMMA GoodFile ==
  ASSUME NEW row \in DesiredRow, NEW p \in Projects, GoodColumns(row, p), row.state # "none"
  PROVE  ComposeFile(row) \in {p, Shared}
BY OwnFile, ConstantsAssumption DEF ComposeFile, GoodColumns, DesiredRow

LEMMA FilesNext ==
  ASSUME TypeInv, TypeInv', FilesInv, [Next]_vars
  PROVE  FilesInv'
<1> USE TypeInvParts, TypeInvPartsPrimed
<1> SUFFICES ASSUME NEW p \in Projects, containers'[p].state # "none"
             PROVE  containers'[p].file \in {p, Shared}
  BY DEF FilesInv
<1>1. CASE containers'[p] = containers[p]
  BY <1>1 DEF FilesInv
<1>2. ASSUME NEW k \in Ticks, ContainersStep(k), containers'[p] # containers[p]
      PROVE  containers'[p].file \in {p, Shared}
  <2>1. tick[k].p \in Projects /\ tick[k].todo[tick[k].p] \in DesiredRow
        /\ tick[k].todo[tick[k].p].state # "none"
    BY <1>2 DEF ContainersStep, ComposeUp, ComposeUpFails, ComposeDown, TickT, TicksInv, Tick
  <2>2. ComposeFile(tick[k].todo[tick[k].p]) \in {tick[k].p, Shared}
    BY <2>1, GoodFile DEF TickT
  <2> QED BY <1>2, <2>1, <2>2
          DEF ContainersStep, ComposeUp, ComposeUpFails, ComposeDown, HostT, NoContainers
<1>3. ASSUME NEW x \in Projects, ContainersDie(x), containers'[p] # containers[p]
      PROVE  containers'[p].file \in {p, Shared}
  BY <1>3 DEF ContainersDie, HostT, NoContainers, FilesInv
<1> QED BY <1>1, <1>2, <1>3, ContainersFrame

(* OwnComposeFile: no sequence of upserts, purges, recreations and stale    *)
(* ticks makes composeFile pick the files of another project, and without   *)
(* applies of selectors that have no row it does not pick the shared file   *)
(* for a tenant or site project either.                                     *)
THEOREM OwnComposeFileHolds == Spec => []OwnComposeFile
<1>1. Init => OwnInv /\ FilesInv
  BY DEF Init, OwnInv, FilesInv, NoDesired, NoContainers, NoTick
<1>2. CASE "applyUnknown" \in Ops
  <2>1. TypeInv /\ FilesInv /\ [Next]_vars => TypeInv' /\ FilesInv'
    BY NextTyped, FilesNext
  <2>2. FilesInv => OwnComposeFile
    BY <1>2 DEF FilesInv, OwnComposeFile
  <2> QED BY InitTyped, <1>1, <2>1, <2>2, PTL DEF Spec
<1>3. CASE "applyUnknown" \notin Ops
  <2>1. TypeInv /\ OwnInv /\ [Next]_vars => TypeInv' /\ OwnInv'
    BY <1>3, NextTyped, OwnNext
  <2>2. OwnInv => OwnComposeFile
    BY DEF OwnInv, OwnComposeFile
  <2> QED BY InitTyped, <1>1, <2>1, <2>2, PTL DEF Spec
<1> QED BY <1>2, <1>3

-----------------------------------------------------------------------------
(* No hidden drift.                                                        *)

(* HashUpTo: no hash is up to anything, bounds weaken, and a version has its own. *)
LEMMA HashOrder ==
  /\ \A v : HashUpTo(NoHash, v)
  /\ \A h : \A v \in Versions, w \in Versions : v <= w /\ HashUpTo(h, v) => HashUpTo(h, w)
  /\ DistinctVersions => \A v \in 1..MaxOps : HashUpTo(ConfigHash[v], v)
<1>1. \A v : HashUpTo(NoHash, v)
  BY HashTypes DEF HashUpTo
<1>2. \A h : \A v \in Versions, w \in Versions : v <= w /\ HashUpTo(h, v) => HashUpTo(h, w)
  BY ConstantsAssumption DEF HashUpTo, Versions
<1>3. DistinctVersions => \A v \in 1..MaxOps : HashUpTo(ConfigHash[v], v)
  BY ConstantsAssumption DEF HashUpTo, DistinctVersions
<1> QED BY <1>1, <1>2, <1>3

(* Steps of the reconciler and of the environment. *)
HostStep ==
  \/ \E k \in Ticks : TickStep(k)
  \/ \E p \in Projects : BackoffExpires(p) \/ ContainersDie(p)
  \/ DaemonRestart

RequestStep(r) == Arrive(r) \/ Serve(r) \/ RenderWriteFails(r) \/ Cancel(r)

(* A step is one of the host or one of a request. *)
LEMMA Steps == Next <=> HostStep \/ \E r \in Requests : RequestStep(r)
BY DEF Next, HostStep, RequestStep

(* Host steps leave tables and files alone, and at most drop all requests. *)
LEMMA HostFrame ==
  HostStep => /\ UNCHANGED <<tenantRow, siteRow, desired, disk, ops>>
              /\ req' = req \/ req' = [r \in Requests |-> NoRequest]
<1>1. ASSUME NEW k \in Ticks, TickStep(k) PROVE UNCHANGED tickUnchanged
  BY <1>1 DEF TickStep, TickList, TickEnd, TickSkip, TickNoop, TickInspect, TickAct,
     TickSame, TickDrifted, ComposeUp, ComposeUpFails,
     ComposeDown, ComposeDownFails, RecordHash
<1> QED BY <1>1 DEF HostStep, BackoffExpires, ContainersDie, DaemonRestart, tickUnchanged

(* Request steps leave the containers and the recorded hashes alone. *)
LEMMA RequestFrame ==
  ASSUME TypeInv, NEW r \in Requests, RequestStep(r)
  PROVE  /\ UNCHANGED <<cache, containers>>
         /\ \A k \in Ticks : /\ tick'[k].todo = tick[k].todo /\ tick'[k].p = tick[k].p
                             /\ tick'[k].pc = "record" => tick[k].pc = "record"
<1>1. UNCHANGED <<cache, containers>>
  BY DEF RequestStep, Arrive, CreateTenant, PatchTenant, StartTenant, StopTenant, DeleteTenant,
     PatchSite, CreateSite, StartSite, StopSite, DeleteSite, Apply, Begin,
     Serve, InsertSite, RenderRead, RenderWrite, RenderRecord, SetState, ActivateTenant,
     ListTenantSites, SetSiteState, SpawnTrigger, DeleteRows, PollConverged, PollEnds, Goto, Finish,
     RenderWriteFails, Cancel
<1>2. UNCHANGED tick \/ \E j \in Triggers : SpawnTrigger(r, j)
  BY DEF RequestStep, Arrive, CreateTenant, PatchTenant, StartTenant, StopTenant, DeleteTenant,
     PatchSite, CreateSite, StartSite, StopSite, DeleteSite, Apply, Begin,
     Serve, InsertSite, RenderRead, RenderWrite, RenderRecord, SetState, ActivateTenant,
     ListTenantSites, SetSiteState, DeleteRows, PollConverged, PollEnds, Goto, Finish,
     RenderWriteFails, Cancel
<1>3. ASSUME NEW j \in Triggers, SpawnTrigger(r, j)
      PROVE  \A k \in Ticks : /\ tick'[k].todo = tick[k].todo /\ tick'[k].p = tick[k].p
                              /\ tick'[k].pc = "record" => tick[k].pc = "record"
  BY <1>3, TypeInvParts DEF SpawnTrigger, TickT, Tick, Ticks
<1> QED BY <1>1, <1>2, <1>3

(* What a host step can do to containers and to the recorded hash. *)
LEMMA HostEffect ==
  ASSUME TypeInv, OwnInv, HostStep, NEW p \in Projects
  PROVE  /\ \/ containers'[p] = containers[p]
            \/ containers'[p].state = "none"
            \/ containers'[p].ver = containers[p].ver /\ containers[p].state # "none"
            \/ containers'[p].ver = disk[p]
         /\ \/ cache'[p] = cache[p]
            \/ \E k \in Ticks : /\ RecordHash(k) /\ tick[k].p = p
                                /\ cache'[p] = tick[k].todo[p].hash
         /\ \A k \in Ticks : tick'[k].pc = "record" =>
               /\ tick'[k].p = tick[k].p /\ tick'[k].todo = tick[k].todo
               /\ tick[k].pc = "record" \/ containers'[tick[k].p].ver = disk[tick[k].p]
<1> USE TypeInvParts
<1>o. ASSUME NEW k \in Ticks, tick[k].pc = "up"
      PROVE  tick[k].p \in Projects /\ ComposeFile(tick[k].todo[tick[k].p]) = tick[k].p
  <2>1. tick[k].p \in Projects /\ tick[k].todo[tick[k].p] \in DesiredRow
        /\ tick[k].todo[tick[k].p].state # "none"
    BY <1>o DEF TickT, TicksInv, Tick
  <2> QED BY <2>1, OwnFile DEF OwnInv
<1>1. \/ containers'[p] = containers[p]
      \/ containers'[p].state = "none"
      \/ containers'[p].ver = containers[p].ver /\ containers[p].state # "none"
      \/ containers'[p].ver = disk[p]
  <2>1. ASSUME NEW k \in Ticks, ComposeUp(k) \/ ComposeUpFails(k)
        PROVE  containers'[p] = containers[p] \/ containers'[p].ver = disk[p]
    BY <1>o, <2>1 DEF ComposeUp, ComposeUpFails, HostT
  <2>2. ASSUME NEW k \in Ticks, ComposeDown(k)
        PROVE  containers'[p] = containers[p] \/ containers'[p].state = "none"
    BY <2>2 DEF ComposeDown, HostT, NoContainers
  <2>3. ASSUME NEW x \in Projects, ContainersDie(x)
        PROVE  \/ containers'[p] = containers[p]
               \/ containers'[p].state = "none"
               \/ containers'[p].ver = containers[p].ver /\ containers[p].state # "none"
    BY <2>3 DEF ContainersDie, HostT, NoContainers
  <2> QED BY <2>1, <2>2, <2>3, ContainersFrame, Steps DEF ContainersStep
<1>2. \/ cache'[p] = cache[p]
      \/ \E k \in Ticks : RecordHash(k) /\ tick[k].p = p /\ cache'[p] = tick[k].todo[p].hash
  <2>1. ASSUME NEW k \in Ticks, RecordHash(k)
        PROVE  cache'[p] = cache[p] \/ (tick[k].p = p /\ cache'[p] = tick[k].todo[p].hash)
    BY <2>1 DEF RecordHash, HostT
  <2>2. ASSUME NEW k \in Ticks, TickStep(k), ~RecordHash(k) PROVE UNCHANGED cache
    BY <2>2 DEF TickStep, TickList, TickEnd, TickSkip, TickNoop, TickInspect, TickAct,
     TickSame, TickDrifted, ComposeUp, ComposeUpFails,
       ComposeDown, ComposeDownFails
  <2> QED BY <2>1, <2>2 DEF HostStep, BackoffExpires, ContainersDie, DaemonRestart
<1>3. ASSUME NEW k \in Ticks, tick'[k].pc = "record"
      PROVE  /\ tick'[k].p = tick[k].p /\ tick'[k].todo = tick[k].todo
             /\ tick[k].pc = "record" \/ containers'[tick[k].p].ver = disk[tick[k].p]
  <2>1. CASE UNCHANGED tick
    BY <1>3, <2>1
  <2>2. CASE DaemonRestart
    BY <1>3, <2>2 DEF DaemonRestart, NoTick
  <2>3. ASSUME NEW j \in Ticks, TickStep(j), j # k PROVE tick'[k] = tick[k]
    BY <2>3 DEF TickStep, TickList, TickEnd, TickSkip, TickNoop, TickInspect, TickAct,
     TickSame, TickDrifted, ComposeUp, ComposeUpFails,
       ComposeDown, ComposeDownFails, RecordHash, Succeed, Fail, TickT
  <2>4. ASSUME TickStep(k) PROVE ComposeUp(k) /\ tick' = [tick EXCEPT ![k].pc = "record"]
    <3>1. ASSUME NEW x, Succeed(k, x) \/ Fail(k, x) PROVE FALSE
      BY <1>3, <3>1 DEF Succeed, Fail, TickT, Tick
    <3>2. ASSUME NEW x \in Projects,
                 TickSkip(k, x) \/ TickNoop(k, x) \/ TickInspect(k, x) \/ TickAct(k, x)
          PROVE  FALSE
      BY <1>3, <3>1, <3>2 DEF TickSkip, TickNoop, TickInspect, TickAct, TickT, Tick
    <3>3. ~TickList(k) /\ ~TickEnd(k) /\ ~TickDrifted(k)
      BY <1>3 DEF TickList, TickEnd, TickDrifted, TickT, Tick, NoTick
    <3> QED BY <2>4, <3>1, <3>2, <3>3
            DEF TickStep, TickSame, ComposeUp, ComposeUpFails, ComposeDown, ComposeDownFails, RecordHash
  <2>5. ASSUME ComposeUp(k), tick' = [tick EXCEPT ![k].pc = "record"]
        PROVE  /\ tick'[k].p = tick[k].p /\ tick'[k].todo = tick[k].todo
               /\ containers'[tick[k].p].ver = disk[tick[k].p]
    BY <1>o, <2>5 DEF ComposeUp, HostT, TickT, Tick
  <2> QED BY <1>3, <2>1, <2>2, <2>3, <2>4, <2>5 DEF HostStep, BackoffExpires, ContainersDie
<1> QED BY <1>1, <1>2, <1>3

(* Host steps keep the files behind the rows they come from. *)
LEMMA HostDisk == ASSUME DiskInv, HostStep PROVE DiskInv'
<1>0. /\ UNCHANGED <<tenantRow, siteRow, desired, disk, ops>>
      /\ req' = req \/ req' = [r \in Requests |-> NoRequest]
  BY HostFrame
<1>1. \A r \in Requests : req'[r] = req[r] \/ req'[r].pc = "idle"
  BY <1>0 DEF NoRequest
<1>2. \A p \in Projects : RowExists(p)' <=> RowExists(p)
  BY <1>0 DEF RowExists
<1>3. \A t, x : RowVersion(t, x)' = RowVersion(t, x)
  BY <1>0 DEF RowVersion
<1>4. VersionsInv' /\ \A p \in Projects : disk'[p] <= ops'
  BY <1>0 DEF DiskInv, VersionsInv
<1>5. \A p \in Projects : RowExists(p)' => disk'[p] <= RowVersion(p[1], p[2])'
  BY <1>0, <1>2, <1>3 DEF DiskInv
<1>6. ASSUME NEW r \in Requests
      PROVE  (req'[r].pc = "insert" => req'[r].n = ops') /\ RenderInv(r)'
  BY <1>0, <1>1 DEF DiskInv, RenderInv, RowExists, RowVersion
<1> QED BY <1>4, <1>5, <1>6 DEF DiskInv

(* The reconciler and the environment preserve DriftInv. *)
LEMMA HostDrift ==
  ASSUME TypeInv, TypeInv', OwnInv, DriftInv, HostStep
  PROVE  DriftInv'
<1> USE TypeInvParts, TypeInvPartsPrimed
<1>0. /\ UNCHANGED <<tenantRow, siteRow, desired, disk, ops>>
      /\ req' = req \/ req' = [r \in Requests |-> NoRequest]
  BY HostFrame
<1>1. DiskInv'
  BY HostDisk DEF DriftInv
<1>3. \A p \in Projects : HashUpTo(desired'[p].hash, disk'[p])
  BY <1>0 DEF DriftInv, HashInv
<1>4. \A k \in Ticks, p \in Projects : HashUpTo(tick'[k].todo[p].hash, disk'[p])
  <2> SUFFICES ASSUME NEW k \in Ticks, NEW p \in Projects
               PROVE  HashUpTo(tick'[k].todo[p].hash, disk'[p])
    OBVIOUS
  <2>1. \/ tick'[k].todo[p] = tick[k].todo[p] \/ tick'[k].todo[p] = NoDesired
        \/ tick'[k].todo[p] = desired[p]
    BY SnapshotFrame, Steps
  <2> QED BY <1>0, <2>1, HashOrder DEF DriftInv, HashInv, NoDesired
<1>5. \A p \in Projects : HashUpTo(cache'[p], disk'[p])
  <2> SUFFICES ASSUME NEW p \in Projects PROVE HashUpTo(cache'[p], disk'[p])
    OBVIOUS
  <2> QED BY <1>0, HostEffect DEF DriftInv, HashInv
<1>6. \A k \in Ticks : tick'[k].pc = "record" /\ containers'[tick'[k].p].state # "none" =>
         HashUpTo(tick'[k].todo[tick'[k].p].hash, containers'[tick'[k].p].ver)
  <2> SUFFICES ASSUME NEW k \in Ticks, tick'[k].pc = "record",
                      containers'[tick'[k].p].state # "none"
               PROVE  HashUpTo(tick'[k].todo[tick'[k].p].hash, containers'[tick'[k].p].ver)
    OBVIOUS
  <2> DEFINE p == tick'[k].p
  <2>1. p \in Projects
    BY DEF TickT, TicksInv
  <2>2. tick'[k].p = tick[k].p /\ tick'[k].todo = tick[k].todo
        /\ (tick[k].pc = "record" \/ containers'[p].ver = disk[p])
    BY <2>1, HostEffect
  <2>3. CASE containers'[p].ver = disk[p]
    BY <2>1, <2>2, <2>3 DEF DriftInv, HashInv
  <2>4. CASE containers'[p].ver # disk[p]
    <3>1. containers'[p].ver = containers[p].ver /\ containers[p].state # "none"
      BY <2>1, <2>4, HostEffect
    <3> QED BY <2>1, <2>2, <2>4, <3>1 DEF DriftInv, HashInv
  <2> QED BY <2>3, <2>4
<1>7. \A p \in Projects : containers'[p].state # "none" =>
         containers'[p].ver <= disk'[p] /\ HashUpTo(cache'[p], containers'[p].ver)
  <2> SUFFICES ASSUME NEW p \in Projects, containers'[p].state # "none"
               PROVE  containers'[p].ver <= disk'[p] /\ HashUpTo(cache'[p], containers'[p].ver)
    OBVIOUS
  <2>d. disk[p] \in Versions /\ disk[p] <= disk[p]
    BY DEF HostT, Files, Versions
  <2>1. CASE containers'[p].ver = disk[p]
    BY <1>0, <1>5, <2>1, <2>d
  <2>2. CASE containers'[p].ver # disk[p]
    <3>1. containers'[p].ver = containers[p].ver /\ containers[p].state # "none"
      BY <2>2, HostEffect
    <3>2. containers'[p].ver <= disk'[p]
      BY <1>0, <3>1 DEF DriftInv, HashInv
    <3>3. CASE cache'[p] = cache[p]
      BY <3>1, <3>2, <3>3 DEF DriftInv, HashInv
    <3>4. ASSUME NEW k \in Ticks, RecordHash(k), tick[k].p = p, cache'[p] = tick[k].todo[p].hash
          PROVE  HashUpTo(cache'[p], containers'[p].ver)
      BY <3>1, <3>4 DEF RecordHash, DriftInv, HashInv
    <3> QED BY <3>2, <3>3, <3>4, HostEffect
  <2> QED BY <2>1, <2>2
<1>8. HashInv'
  BY <1>3, <1>4, <1>5, <1>6, <1>7 DEF HashInv, HashUpTo
<1> QED BY <1>1, <1>8 DEF DriftInv

(* The steps of a request: what they do to the rows and to the disk. *)
LEMMA RequestDisk ==
  ASSUME TypeInv, TypeInv', DiskInv, SerialRequests, NEW r \in Requests, RequestStep(r)
  PROVE  DiskInv' /\ \A p \in Projects : disk[p] <= disk'[p]
<1> USE TypeInvParts, TypeInvPartsPrimed
<1> DEFINE q == req[r]
<1>s. \A a \in Requests : a = r
  BY DEF SerialRequests
<1>t. /\ ops \in Nat /\ ops' \in Nat
      /\ \A t \in Tenants : tenantRow[t].ver \in Nat /\ tenantRow'[t].ver \in Nat
      /\ \A s \in Sites : siteRow[s].ver \in Nat /\ siteRow'[s].ver \in Nat
      /\ \A p \in Projects : disk[p] \in Nat /\ p[1] \in Tenants /\ p[2] \in Sites \cup {Tsdb}
                           /\ p = <<p[1], p[2]>>
  BY ProjectParts, ConstantsAssumption DEF StoreT, RequestT, HostT, Versions, Files
<1>d. /\ VersionsInv
      /\ \A p \in Projects : disk[p] <= ops
      /\ \A p \in Projects : RowExists(p) => disk[p] <= RowVersion(p[1], p[2])
  BY DEF DiskInv
(* Requests that begin without touching a row, and steps that move on. *)
<1>1. ASSUME UNCHANGED <<tenantRow, siteRow, disk>>, ops' \in {ops, ops + 1},
             req'[r].pc \notin {"write", "record"},
             req'[r].pc = "insert" => req'[r].n = ops'
      PROVE  DiskInv' /\ \A p \in Projects : disk[p] <= disk'[p]
  <2>1. VersionsInv' /\ \A p \in Projects : disk'[p] <= ops' /\ disk[p] <= disk'[p]
    BY <1>1, <1>t, <1>d DEF VersionsInv
  <2>2. \A p \in Projects : RowExists(p)' => disk'[p] <= RowVersion(p[1], p[2])'
    BY <1>1, <1>d DEF RowExists, RowVersion
  <2> QED BY <1>1, <1>s, <2>1, <2>2 DEF DiskInv, RenderInv
(* Requests that begin by writing a row. *)
<1>2. ASSUME NEW t \in Tenants, CreateTenant(r, t) \/ PatchTenant(r, t)
      PROVE  DiskInv' /\ \A p \in Projects : disk[p] <= disk'[p]
  <2>1. /\ UNCHANGED <<siteRow, disk>> /\ ops' = ops + 1 /\ req'[r].pc = "read"
        /\ tenantRow'[t].ver = ops + 1
        /\ \A x \in Tenants : x # t => tenantRow'[x] = tenantRow[x]
    BY <1>2 DEF CreateTenant, PatchTenant, Begin, StoreT, RequestT
  <2>2. VersionsInv' /\ \A p \in Projects : disk'[p] <= ops' /\ disk[p] <= disk'[p]
    BY <1>t, <1>d, <2>1 DEF VersionsInv
  <2>3. \A p \in Projects : RowExists(p)' => disk'[p] <= RowVersion(p[1], p[2])'
    BY <1>t, <1>d, <2>1 DEF RowExists, RowVersion
  <2> QED BY <1>s, <2>1, <2>2, <2>3 DEF DiskInv, RenderInv
<1>3. ASSUME NEW s \in Sites, PatchSite(r, s)
      PROVE  DiskInv' /\ \A p \in Projects : disk[p] <= disk'[p]
  <2>1. /\ UNCHANGED <<tenantRow, disk>> /\ ops' = ops + 1 /\ req'[r].pc = "read"
        /\ siteRow'[s].ver = ops + 1
        /\ \A x \in Sites : x # s => siteRow'[x] = siteRow[x]
    BY <1>3 DEF PatchSite, Begin, StoreT, RequestT
  <2>2. VersionsInv' /\ \A p \in Projects : disk'[p] <= ops' /\ disk[p] <= disk'[p]
    BY <1>t, <1>d, <2>1 DEF VersionsInv
  <2>3. \A p \in Projects : RowExists(p)' => disk'[p] <= RowVersion(p[1], p[2])'
    BY <1>t, <1>d, <2>1 DEF RowExists, RowVersion
  <2> QED BY <1>s, <2>1, <2>2, <2>3 DEF DiskInv, RenderInv
<1>4. ASSUME InsertSite(r) PROVE DiskInv' /\ \A p \in Projects : disk[p] <= disk'[p]
  <2>1. CASE UNCHANGED siteRow
    <3>1. UNCHANGED <<tenantRow, siteRow, disk, ops>> /\ req'[r].pc \in {"read", "idle"}
      BY <1>4, <2>1 DEF InsertSite, Goto, Finish, RequestT, Request, NoRequest
    <3> QED BY <1>1, <3>1
  <2>2. CASE siteRow' # siteRow
    <3>1. /\ q.site \in Sites /\ q.n = ops
          /\ UNCHANGED <<tenantRow, disk, ops>> /\ req'[r].pc = "read"
          /\ siteRow'[q.site].ver = q.n
          /\ \A x \in Sites : x # q.site => siteRow'[x] = siteRow[x]
      BY <1>4, <2>2 DEF InsertSite, Goto, StoreT, RequestT, Request, RequestsInv, DiskInv
    <3>2. VersionsInv' /\ \A p \in Projects : disk'[p] <= ops' /\ disk[p] <= disk'[p]
      BY <1>t, <1>d, <3>1 DEF VersionsInv
    <3>3. \A p \in Projects : RowExists(p)' => disk'[p] <= RowVersion(p[1], p[2])'
      BY <1>t, <1>d, <3>1 DEF RowExists, RowVersion
    <3> QED BY <1>s, <3>1, <3>2, <3>3 DEF DiskInv, RenderInv
  <2> QED BY <2>1, <2>2
<1>5. ASSUME RenderRead(r) PROVE DiskInv' /\ \A p \in Projects : disk[p] <= disk'[p]
  <2>1. UNCHANGED <<tenantRow, siteRow, disk, ops>>
    BY <1>5 DEF RenderRead, Finish
  <2>2. CASE Finish(r)
    BY <1>1, <2>1, <2>2 DEF Finish, RequestT, NoRequest
  <2>3. CASE ~Finish(r)
    <3>1. /\ req'[r].pc = "write" /\ req'[r].site = q.site
          /\ req'[r].n = RowVersion(q.tenant, q.site)
          /\ req'[r].tenant = IF q.site = Tsdb THEN q.tenant ELSE siteRow[q.site].tenant
          /\ IF q.site = Tsdb THEN tenantRow[q.tenant].status # "none"
                              ELSE siteRow[q.site].status # "none"
      BY <1>5, <2>3 DEF RenderRead, RequestT, Request
    <3>2. RenderInv(r)'
      BY <2>1, <3>1 DEF RenderInv, RowExists, RowVersion
    <3>3. VersionsInv' /\ \A p \in Projects : disk'[p] <= ops' /\ disk[p] <= disk'[p]
      BY <1>t, <1>d, <2>1 DEF VersionsInv
    <3>4. \A p \in Projects : RowExists(p)' => disk'[p] <= RowVersion(p[1], p[2])'
      BY <1>d, <2>1 DEF RowExists, RowVersion
    <3> QED BY <1>s, <3>1, <3>2, <3>3, <3>4 DEF DiskInv
  <2> QED BY <2>2, <2>3
(* A write, also one after which the request fails. *)
<1>6. ASSUME q.pc = "write", UNCHANGED <<tenantRow, siteRow, ops>>,
             disk' = [disk EXCEPT ![<<q.tenant, q.site>>] = q.n],
             req'[r] \in {NoRequest, [q EXCEPT !.pc = "record"]}
      PROVE  DiskInv' /\ \A p \in Projects : disk[p] <= disk'[p]
  <2> DEFINE w == <<q.tenant, q.site>>
  <2>1. /\ w \in Projects /\ RowExists(w) /\ RowVersion(w[1], w[2]) = q.n
        /\ q.n \in Nat /\ q.n <= ops
    <3>1. q.pc = "write" /\ q.tenant \in Tenants /\ q.site \in Sites \cup {Tsdb}
      BY <1>6 DEF RequestT, RequestsInv
    <3>2. w \in Projects /\ RowExists(w) /\ RowVersion(w[1], w[2]) = q.n
      BY <3>1, ProjectParts DEF DiskInv, RenderInv
    <3>3. q.n \in Nat /\ q.n <= ops
      BY <3>1, <3>2, <1>t, <1>d DEF RowVersion, VersionsInv
    <3> QED BY <3>2, <3>3
  <2>2. /\ UNCHANGED <<tenantRow, siteRow, ops>>
        /\ disk'[w] = q.n /\ \A p \in Projects : p # w => disk'[p] = disk[p]
    BY <1>6, <2>1 DEF HostT, Files
  <2>3. disk[w] <= q.n
    BY <1>d, <2>1
  <2>4. VersionsInv' /\ \A p \in Projects : disk'[p] <= ops' /\ disk[p] <= disk'[p]
    BY <1>t, <1>d, <2>1, <2>2, <2>3 DEF VersionsInv
  <2>5. \A p \in Projects : RowExists(p)' => disk'[p] <= RowVersion(p[1], p[2])'
    <3> SUFFICES ASSUME NEW p \in Projects, RowExists(p)'
                 PROVE  disk'[p] <= RowVersion(p[1], p[2])'
      OBVIOUS
    <3>1. RowExists(p) /\ RowVersion(p[1], p[2])' = RowVersion(p[1], p[2])
      BY <2>2 DEF RowExists, RowVersion
    <3>2. CASE p = w
      BY <2>1, <2>2, <3>1, <3>2
    <3>3. CASE p # w
      BY <1>d, <2>2, <3>1, <3>3
    <3> QED BY <3>2, <3>3
  <2>6. \/ req'[r].pc = "idle"
        \/ /\ req'[r].pc = "record" /\ req'[r].tenant = q.tenant /\ req'[r].site = q.site
           /\ req'[r].n = q.n
    BY <1>6 DEF RequestT, Request, NoRequest
  <2>7. RenderInv(r)'
    BY <2>1, <2>2, <2>6 DEF RenderInv, RowExists, RowVersion
  <2> QED BY <1>s, <2>4, <2>5, <2>6, <2>7 DEF DiskInv
<1>7. ASSUME Cancel(r) PROVE DiskInv' /\ \A p \in Projects : disk[p] <= disk'[p]
  <2>1. /\ req'[r].pc = q.pc /\ req'[r].tenant = q.tenant /\ req'[r].site = q.site
        /\ req'[r].n = q.n
    BY <1>7 DEF Cancel, RequestT, Request
  <2>2. UNCHANGED <<tenantRow, siteRow, disk, ops>>
    BY <1>7 DEF Cancel
  <2>3. VersionsInv' /\ \A p \in Projects : disk'[p] <= ops' /\ disk[p] <= disk'[p]
    BY <1>t, <1>d, <2>2 DEF VersionsInv
  <2>4. \A p \in Projects : RowExists(p)' => disk'[p] <= RowVersion(p[1], p[2])'
    BY <1>d, <2>2 DEF RowExists, RowVersion
  <2>5. RenderInv(r)'
    BY <2>1, <2>2 DEF DiskInv, RenderInv, RowExists, RowVersion
  <2>6. req'[r].pc = "insert" => req'[r].n = ops'
    BY <2>1, <2>2 DEF DiskInv
  <2> QED BY <1>s, <2>3, <2>4, <2>5, <2>6 DEF DiskInv
<1>8. ASSUME ActivateTenant(r) \/ DeleteRows(r)
      PROVE  DiskInv' /\ \A p \in Projects : disk[p] <= disk'[p]
  <2>1. UNCHANGED <<disk, ops>> /\ req'[r].pc \in {"trigger", "idle"}
    BY <1>8 DEF ActivateTenant, DeleteRows, Goto, Finish, RequestT, Request, NoRequest
  <2>2. \A t \in Tenants : \/ tenantRow'[t].status = "none" /\ tenantRow'[t].ver = 0
                           \/ /\ tenantRow'[t].ver = tenantRow[t].ver
                              /\ tenantRow'[t].status # "none" => tenantRow[t].status # "none"
    BY <1>8 DEF ActivateTenant, DeleteRows, PurgeTenantRows, PurgeSiteRows, Orphan, storeVars, StoreT
  <2>3. \A s \in Sites : \/ siteRow'[s].status = "none" /\ siteRow'[s].ver = 0
                         \/ /\ siteRow'[s].ver = siteRow[s].ver
                            /\ siteRow'[s].tenant = siteRow[s].tenant
                            /\ siteRow'[s].status # "none" => siteRow[s].status # "none"
    BY <1>8 DEF ActivateTenant, DeleteRows, PurgeTenantRows, PurgeSiteRows, Orphan, storeVars, StoreT
  <2>4. VersionsInv' /\ \A p \in Projects : disk'[p] <= ops' /\ disk[p] <= disk'[p]
    BY <1>t, <1>d, <2>1, <2>2, <2>3 DEF VersionsInv
  <2>5. \A p \in Projects : RowExists(p)' => disk'[p] <= RowVersion(p[1], p[2])'
    BY <1>t, <1>d, <2>1, <2>2, <2>3 DEF RowExists, RowVersion
  <2> QED BY <1>s, <2>1, <2>4, <2>5 DEF DiskInv, RenderInv
<1>9. ASSUME \/ \E t \in Tenants : StartTenant(r, t) \/ StopTenant(r, t) \/ DeleteTenant(r, t)
             \/ \E t \in Tenants, s \in Sites : \/ CreateSite(r, t, s) \/ StartSite(r, t, s)
                                                \/ StopSite(r, t, s) \/ DeleteSite(r, t, s)
             \/ \E p \in Projects : Apply(r, p)
      PROVE  DiskInv' /\ \A p \in Projects : disk[p] <= disk'[p]
  <2>1. UNCHANGED <<tenantRow, siteRow, disk>> /\ ops' = ops + 1
        /\ req'[r].pc \in {"set", "insert", "trigger"} /\ req'[r].n = ops'
    BY <1>9 DEF StartTenant, StopTenant, DeleteTenant, CreateSite, StartSite, StopSite, DeleteSite,
       Apply, Begin, storeVars, RequestT
  <2> QED BY <1>1, <2>1
<1>10. ASSUME \/ RenderRecord(r) \/ SetState(r) \/ ListTenantSites(r) \/ PollConverged(r)
              \/ PollEnds(r)
              \/ \E p \in Projects : SetSiteState(r, p)
              \/ \E k \in Triggers : SpawnTrigger(r, k)
       PROVE  DiskInv' /\ \A p \in Projects : disk[p] <= disk'[p]
  <2>1. UNCHANGED <<tenantRow, siteRow, disk, ops>>
    BY <1>10 DEF RenderRecord, SetState, ListTenantSites, PollConverged, PollEnds,
       SetSiteState, SpawnTrigger, Goto, Finish
  <2>2. req'[r].pc \notin {"write", "record", "insert"}
    <3>1. CASE req' = [req EXCEPT ![r] = NoRequest]
      BY <3>1 DEF RequestT, NoRequest
    <3>2. ASSUME NEW pc \in {"trigger", "activate", "list", "converged", "delete", "poll"},
                 req' = [req EXCEPT ![r].pc = pc]
          PROVE  req'[r].pc \notin {"write", "record", "insert"}
      BY <3>2 DEF RequestT, Request
    <3>3. ASSUME ListTenantSites(r) PROVE req'[r].pc \notin {"write", "record", "insert"}
      <4>1. \E found : \E pc \in {"trigger", "sites"} :
              req' = [req EXCEPT ![r] = [req[r] EXCEPT !.todo = found, !.pc = pc]]
        BY <3>3 DEF ListTenantSites, RequestT
      <4> QED BY <4>1 DEF RequestT, Request
    <3>4. ASSUME NEW p \in Projects, SetSiteState(r, p)
          PROVE  req'[r].pc \notin {"write", "record", "insert"}
      <4>1. \E found : \E pc \in {"trigger", "sites"} :
              req' = [req EXCEPT ![r] = [req[r] EXCEPT !.todo = found, !.pc = pc]]
        BY <3>4 DEF SetSiteState, RequestT
      <4> QED BY <4>1 DEF RequestT, Request
    <3> QED BY <1>10, <3>1, <3>2, <3>3, <3>4
            DEF RenderRecord, SetState, PollConverged, PollEnds, SpawnTrigger, Goto, Finish
  <2> QED BY <1>1, <2>1, <2>2
<1>11. ASSUME RenderWrite(r) \/ RenderWriteFails(r)
       PROVE  DiskInv' /\ \A p \in Projects : disk[p] <= disk'[p]
  <2>1. UNCHANGED <<tenantRow, siteRow, ops>> /\ q.pc = "write"
    BY <1>11 DEF RenderWrite, RenderWriteFails, storeVars, Goto
  <2>2. \/ RenderWrite(r) /\ req'[r] = [q EXCEPT !.pc = "record"]
        \/ RenderWriteFails(r) /\ req'[r] = NoRequest
    BY <1>11 DEF RenderWrite, RenderWriteFails, Goto, RequestT
  <2>3. CASE disk' = [disk EXCEPT ![<<q.tenant, q.site>>] = q.n]
    BY <1>6, <2>1, <2>2, <2>3
  <2>4. CASE UNCHANGED disk /\ RenderWriteFails(r)
    <3>1. req'[r].pc = "idle"
      BY <2>4 DEF RenderWriteFails, RequestT, NoRequest
    <3> QED BY <1>1, <2>1, <2>4, <3>1
  <2> QED BY <1>11, <2>3, <2>4 DEF RenderWrite, RenderWriteFails
<1> QED BY <1>2, <1>3, <1>4, <1>5, <1>7, <1>8, <1>9, <1>10, <1>11 DEF RequestStep, Arrive, Serve

(* An upsert writes the state and the hash it is given. *)
LEMMA UpsertWrites ==
  ASSUME NEW row \in DesiredRow, NEW t, NEW s, NEW st, NEW h
  PROVE  UpsertRow(row, t, s, st, h).state = st /\ UpsertRow(row, t, s, st, h).hash = h
BY DEF UpsertRow, DesiredRow

(* Only RenderRecord gives a row a hash it did not have. *)
LEMMA HashedBy ==
  ASSUME TypeInv, SerialRequests, NEW r \in Requests, RequestStep(r), NEW p \in Projects,
         desired'[p] # desired[p], desired'[p].hash # NoHash
  PROVE  /\ RenderRecord(r) /\ <<req[r].tenant, req[r].site>> = p
         /\ desired'[p].state = "running" /\ desired'[p].hash = ConfigHash[req[r].n]
<1> USE TypeInvParts
<1>1. DesiredStep(r)
  BY DesiredFrame, Steps DEF SerialRequests
<1>2. ~DeleteRows(r)
  BY DEF DeleteRows, PurgeTenantRows, PurgeSiteRows, storeVars, NoDesired
<1>3. ~SetState(r) /\ \A x \in Projects : ~Apply(r, x) /\ ~SetSiteState(r, x)
  BY UpsertWrites DEF SetState, Apply, SetSiteState, UpsertState, StoreT
<1>4. RenderRecord(r)
  BY <1>1, <1>2, <1>3 DEF DesiredStep
<1>5. <<req[r].tenant, req[r].site>> = p
  BY <1>4 DEF RenderRecord, StoreT
<1>6. desired'[p] = UpsertRow(desired[p], req[r].tenant, SiteColumn(req[r].site), "running",
                             ConfigHash[req[r].n])
  BY <1>4, <1>5 DEF RenderRecord, StoreT
<1> QED BY <1>4, <1>5, <1>6, UpsertWrites DEF StoreT

(* Requests preserve DriftInv. *)
LEMMA RequestDrift ==
  ASSUME TypeInv, TypeInv', OwnInv, DriftInv, SerialRequests, DistinctVersions,
         NEW r \in Requests, RequestStep(r)
  PROVE  DriftInv'
<1> USE TypeInvParts, TypeInvPartsPrimed
<1>1. DiskInv' /\ \A p \in Projects : disk[p] <= disk'[p]
  BY RequestDisk DEF DriftInv
<1>3. \A p \in Projects : /\ disk[p] \in Versions /\ disk'[p] \in Versions
                         /\ containers[p].ver \in Versions
  BY DEF HostT, Files
<1>4. /\ UNCHANGED <<cache, containers>>
      /\ \A k \in Ticks : /\ tick'[k].todo = tick[k].todo /\ tick'[k].p = tick[k].p
                          /\ tick'[k].pc = "record" => tick[k].pc = "record"
  BY RequestFrame
<1>5. \A p \in Projects : HashUpTo(desired'[p].hash, disk'[p])
  <2> SUFFICES ASSUME NEW p \in Projects PROVE HashUpTo(desired'[p].hash, disk'[p])
    OBVIOUS
  <2>1. CASE desired'[p].hash = NoHash
    BY <2>1, HashOrder
  <2>2. CASE desired'[p] = desired[p]
    BY <1>1, <1>3, <2>2, HashOrder DEF DriftInv, HashInv
  <2>3. CASE desired'[p] # desired[p] /\ desired'[p].hash # NoHash
    <3>5. /\ RenderRecord(r) /\ <<req[r].tenant, req[r].site>> = p
          /\ desired'[p].hash = ConfigHash[req[r].n]
      BY <2>3, HashedBy
    <3>6. disk[p] = req[r].n /\ req[r].n \in 1..MaxOps
      BY <3>5 DEF RenderRecord, DriftInv, DiskInv, RenderInv, RequestT, RequestsInv, Request, Versions
    <3> QED BY <1>1, <1>3, <3>5, <3>6, HashOrder
  <2> QED BY <2>1, <2>2, <2>3
<1>6. HashInv'
  <2>1. \A k \in Ticks, p \in Projects : HashUpTo(tick'[k].todo[p].hash, disk'[p])
    BY <1>1, <1>3, <1>4, HashOrder DEF DriftInv, HashInv
  <2>2. \A p \in Projects : containers'[p].state # "none" =>
           containers'[p].ver <= disk'[p] /\ HashUpTo(cache'[p], containers'[p].ver)
    BY <1>1, <1>3, <1>4, ConstantsAssumption DEF DriftInv, HashInv, Versions
  <2>3. \A k \in Ticks :
          tick'[k].pc = "record" /\ containers'[tick'[k].p].state # "none" =>
            HashUpTo(tick'[k].todo[tick'[k].p].hash, containers'[tick'[k].p].ver)
    BY <1>4 DEF DriftInv, HashInv
  <2>4. \A p \in Projects : HashUpTo(cache'[p], disk'[p])
    BY <1>1, <1>3, <1>4, HashOrder DEF DriftInv, HashInv
  <2> QED BY <1>5, <2>1, <2>2, <2>3, <2>4 DEF HashInv, HashUpTo
<1> QED BY <1>1, <1>6 DEF DriftInv

(* Every step keeps the strengthening DriftInv. *)
LEMMA DriftNext ==
  ASSUME TypeInv, TypeInv', OwnInv, DriftInv, SerialRequests, DistinctVersions, [Next]_vars
  PROVE  DriftInv'
<1>1. CASE UNCHANGED vars
  BY <1>1 DEF vars, DriftInv, DiskInv, VersionsInv, RenderInv, HashInv, HashUpTo,
     RowExists, RowVersion
<1> QED BY <1>1, HostDrift, RequestDrift, Steps

(* ... and it holds initially. *)
LEMMA DriftInit == Init => DriftInv
<1> SUFFICES ASSUME Init PROVE DriftInv
  OBVIOUS
<1>1. DiskInv
  BY ConstantsAssumption DEF Init, DiskInv, VersionsInv, RenderInv, RowExists, Projects, Files, NoRequest
<1>2. HashInv
  BY HashOrder DEF Init, HashInv, NoDesired, NoTick, NoContainers
<1> QED BY <1>1, <1>2 DEF DriftInv

(* From the invariant to the property: the hash of the files on disk was    *)
(* recorded, so it trails the containers, so the containers are as new.     *)
LEMMA DriftInvSuffices == ASSUME TypeInv, DriftInv PROVE NoHiddenDrift
<1> SUFFICES ASSUME NEW p \in Projects, LooksApplied(p) PROVE containers[p].ver = disk[p]
  BY DEF NoHiddenDrift
<1> USE TypeInvParts
<1>1. disk[p] \in 1..MaxOps /\ containers[p].ver \in Versions
  BY DEF LooksApplied, HostT, Files, Versions
<1>2. cache[p] = ConfigHash[disk[p]] /\ containers[p].state = "up"
  BY DEF LooksApplied
<1>3. disk[p] <= containers[p].ver
  BY <1>1, <1>2 DEF DriftInv, HashInv, HashUpTo
<1>4. containers[p].ver <= disk[p]
  BY <1>2 DEF DriftInv, HashInv
<1> QED BY <1>1, <1>3, <1>4, ConstantsAssumption DEF Versions

(* NoHiddenDrift: with clients that send one request at a time, never       *)
(* restore an earlier configuration and apply only selectors with a row,    *)
(* the hash comparison of reconcileProject never hides drift, whatever the  *)
(* number of concurrent ticks, stale snapshots, cancelled requests, failed  *)
(* compose runs and daemon restarts.                                        *)
THEOREM NoHiddenDriftHolds ==
  ASSUME SerialRequests, DistinctVersions, "applyUnknown" \notin Ops
  PROVE  Spec => []NoHiddenDrift
<1>1. Init => TypeInv /\ OwnInv /\ DriftInv
  BY InitTyped, DriftInit DEF Init, OwnInv, NoDesired, NoContainers, NoTick
<1>2. TypeInv /\ OwnInv /\ DriftInv /\ [Next]_vars => TypeInv' /\ OwnInv' /\ DriftInv'
  BY NextTyped, OwnNext, DriftNext
<1>3. TypeInv /\ OwnInv /\ DriftInv => NoHiddenDrift
  BY DriftInvSuffices
<1> QED BY <1>1, <1>2, <1>3, PTL DEF Spec

(* The part of the invariant that serial clients alone give. *)
SerialInv == TypeInv /\ OwnInv /\ DiskInv

(* With serial clients every step keeps it. *)
LEMMA SerialInvHolds ==
  ASSUME SerialRequests, "applyUnknown" \notin Ops
  PROVE  Spec => []SerialInv
<1>1. Init => SerialInv
  BY InitTyped, DriftInit DEF Init, OwnInv, NoDesired, NoContainers, NoTick, DriftInv, SerialInv
<1>2. SerialInv /\ [Next]_vars => SerialInv'
  <2> SUFFICES ASSUME SerialInv, [Next]_vars PROVE SerialInv'
    OBVIOUS
  <2>1. TypeInv' /\ OwnInv'
    BY NextTyped, OwnNext DEF SerialInv
  <2>2. CASE UNCHANGED vars
    BY <2>1, <2>2 DEF vars, SerialInv, DiskInv, VersionsInv, RenderInv, RowExists, RowVersion
  <2> QED BY <2>1, <2>2, HostDisk, RequestDisk, Steps DEF SerialInv
<1> QED BY <1>1, <1>2, PTL DEF Spec

-----------------------------------------------------------------------------
(* The control plane implements Rollout.                                   *)

(* Only a render writes files, those of the project it is for. *)
LEMMA DiskFrame ==
  ASSUME TypeInv, NEW r \in Requests, RequestStep(r), disk' # disk
  PROVE  \E p \in Projects : disk' = [disk EXCEPT ![p] = req[r].n] /\ req[r].n \in 1..MaxOps
<1> USE TypeInvParts
<1> DEFINE p == <<req[r].tenant, req[r].site>>
<1>1. ~Arrive(r) /\ ~Cancel(r)
  BY DEF Arrive, CreateTenant, PatchTenant, StartTenant, StopTenant, DeleteTenant,
     PatchSite, CreateSite, StartSite, StopSite, DeleteSite, Apply, Begin, Cancel
<1>2. RenderWrite(r) \/ RenderWriteFails(r)
  BY <1>1 DEF RequestStep, Serve, InsertSite, RenderRead, RenderRecord, SetState, ActivateTenant,
     ListTenantSites, SetSiteState, SpawnTrigger, DeleteRows, PollConverged, PollEnds
<1>3. req[r].pc = "write" /\ disk' = [disk EXCEPT ![p] = req[r].n]
  BY <1>2 DEF RenderWrite, RenderWriteFails
<1>4. p \in Projects /\ req[r].n \in 1..MaxOps
  BY <1>3, ProjectParts, ConstantsAssumption DEF RequestT, RequestsInv, Request, Versions
<1> QED BY <1>3, <1>4

(* A request renders a newer version or leaves Rollout's view alone. *)
LEMMA RequestRolls ==
  ASSUME TypeInv, TypeInv', DiskInv, SerialRequests, NEW r \in Requests, RequestStep(r)
  PROVE  [Rolled!Next]_<<FilesOf, AppliedTo>>
<1> USE TypeInvParts
<1>1. AppliedTo' = AppliedTo
  BY RequestFrame DEF AppliedTo
<1>2. CASE FilesOf' = FilesOf
  BY <1>1, <1>2
<1>3. CASE FilesOf' # FilesOf
  <2>1. PICK p \in Projects : disk' = [disk EXCEPT ![p] = req[r].n] /\ req[r].n \in 1..MaxOps
    BY <1>3, DiskFrame DEF FilesOf
  <2>2. disk \in [Files -> Versions] /\ Projects \subseteq Files
    BY DEF HostT, Files
  <2>3. FilesOf' = [FilesOf EXCEPT ![p] = req[r].n]
    BY <2>1, <2>2 DEF FilesOf
  <2>4. disk[p] <= disk'[p] /\ disk'[p] = req[r].n /\ FilesOf[p] = disk[p]
    BY <2>1, <2>2, RequestDisk DEF FilesOf
  <2>5. disk[p] # req[r].n
    BY <1>3, <2>2, <2>3 DEF FilesOf
  <2>6. disk[p] \in Nat /\ req[r].n \in Nat
    BY <2>1, <2>2, ConstantsAssumption DEF Versions
  <2>7. req[r].n > FilesOf[p]
    BY <2>4, <2>5, <2>6
  <2>8. Rolled!Render(p)
    BY <1>1, <2>1, <2>3, <2>7 DEF Rolled!Render
  <2> QED BY <2>8 DEF Rolled!Next
<1> QED BY <1>2, <1>3

(* A compose run or a dying container is an Apply, a Remove or nothing. *)
LEMMA HostRolls ==
  ASSUME TypeInv, OwnInv, HostStep
  PROVE  [Rolled!Next]_<<FilesOf, AppliedTo>>
<1> USE TypeInvParts
<1>1. FilesOf' = FilesOf
  BY HostFrame DEF FilesOf
<1>2. containers \in [Projects -> [state : {"none", "up", "broken"}, file : Files, ver : Versions]]
  BY DEF HostT
<1>3. ASSUME NEW k \in Ticks, ComposeUp(k) \/ ComposeUpFails(k), containers' # containers
      PROVE  Rolled!Apply(tick[k].p) /\ tick[k].p \in Projects
  <2> DEFINE p == tick[k].p
  <2>1. tick[k].pc = "up"
    BY <1>3 DEF ComposeUp, ComposeUpFails
  <2>2. p \in Projects /\ tick[k].todo[p] \in DesiredRow /\ tick[k].todo[p].state # "none"
    BY <2>1 DEF TickT, TicksInv, Tick
  <2>3. ComposeFile(tick[k].todo[p]) = p
    BY <2>2, OwnFile DEF OwnInv
  <2> HIDE DEF p
  <2>4. /\ disk[p] # 0
        /\ \E st \in {"up", "broken"} :
             containers' = [containers EXCEPT ![p] = [state |-> st, file |-> p, ver |-> disk[p]]]
    BY <1>3, <2>3 DEF ComposeUp, ComposeUpFails, p
  <2>5. PICK st \in {"up", "broken"} :
          containers' = [containers EXCEPT ![p] = [state |-> st, file |-> p, ver |-> disk[p]]]
    BY <2>4
  <2>6. AppliedTo' = [AppliedTo EXCEPT ![p] = disk[p]]
    <3>1. st # "none"
      OBVIOUS
    <3>2. \A x \in Projects : AppliedTo'[x] = IF x = p THEN disk[p] ELSE AppliedTo[x]
      BY <1>2, <2>2, <2>5, <3>1 DEF AppliedTo
    <3> QED BY <2>2, <3>2 DEF AppliedTo
  <2>7. FilesOf[p] = disk[p]
    BY <2>2 DEF FilesOf
  <2> QED BY <1>1, <2>2, <2>4, <2>6, <2>7 DEF Rolled!Apply, p
<1>4. ASSUME NEW k \in Ticks, ComposeDown(k)
      PROVE  Rolled!Remove(tick[k].p) /\ tick[k].p \in Projects
  <2>1. tick[k].p \in Projects
    BY <1>4 DEF ComposeDown, TickT, TicksInv
  <2>2. containers' = [containers EXCEPT ![tick[k].p] = NoContainers]
    BY <1>4 DEF ComposeDown
  <2>3. AppliedTo' = [AppliedTo EXCEPT ![tick[k].p] = 0]
    BY <1>2, <2>1, <2>2 DEF AppliedTo, NoContainers
  <2> QED BY <1>1, <2>1, <2>3 DEF Rolled!Remove
<1>5. ASSUME NEW p \in Projects, ContainersDie(p)
      PROVE  AppliedTo' = AppliedTo \/ Rolled!Remove(p)
  <2>1. CASE containers' = [containers EXCEPT ![p].state = "broken"]
    <3>1. containers[p].state # "none"
      BY <1>5 DEF ContainersDie
    <3>2. AppliedTo' = AppliedTo
      BY <1>2, <2>1, <3>1 DEF AppliedTo
    <3> QED BY <3>2
  <2>2. CASE containers' = [containers EXCEPT ![p] = NoContainers]
    <3>1. AppliedTo' = [AppliedTo EXCEPT ![p] = 0]
      BY <1>2, <2>2 DEF AppliedTo, NoContainers
    <3> QED BY <1>1, <3>1 DEF Rolled!Remove
  <2> QED BY <1>5, <2>1, <2>2 DEF ContainersDie
<1>6. CASE containers' = containers
  BY <1>1, <1>6 DEF AppliedTo
<1>7. CASE containers' # containers
  <2>1. (\E k \in Ticks : ContainersStep(k)) \/ (\E p \in Projects : ContainersDie(p))
    BY <1>7, ContainersFrame, Steps
  <2> QED BY <1>1, <1>3, <1>4, <1>5, <1>7, <2>1 DEF ContainersStep, Rolled!Next
<1> QED BY <1>6, <1>7

(* ImplementsRollout: with clients that send one request at a time and      *)
(* apply only selectors with a row, no number of concurrent ticks, stale    *)
(* snapshots, cancelled requests, failed compose runs and restarts brings   *)
(* an older configuration back: renders only replace files by newer ones,   *)
(* and reconcileProject applies the project's own files as they are.        *)
THEOREM RolloutImplemented ==
  ASSUME SerialRequests, "applyUnknown" \notin Ops
  PROVE  Spec => ImplementsRollout
<1>1. Init => Rolled!Init
  BY ConstantsAssumption DEF Init, Rolled!Init, FilesOf, AppliedTo, NoContainers, Files, Projects
<1>2. SerialInv /\ [Next]_vars => [Rolled!Next]_<<FilesOf, AppliedTo>>
  <2> SUFFICES ASSUME TypeInv, OwnInv, DiskInv, [Next]_vars
               PROVE  [Rolled!Next]_<<FilesOf, AppliedTo>>
    BY DEF SerialInv
  <2>1. CASE UNCHANGED vars
    BY <2>1 DEF vars, FilesOf, AppliedTo
  <2>2. CASE Next
    BY <2>2, Steps, NextTyped, RequestRolls, HostRolls
  <2> QED BY <2>1, <2>2
<1> QED BY <1>1, <1>2, SerialInvHolds, PTL DEF Spec, ImplementsRollout, Rolled!Spec
====
