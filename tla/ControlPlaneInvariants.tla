------------------------ MODULE ControlPlaneInvariants ------------------------
(***************************************************************************)
(* The inductive invariant behind the safety properties of ControlPlane,   *)
(* as a conjunction of named parts.  TypeInv, ColumnsInv and FilesInv hold *)
(* of every instance.  OwnInv needs clients that apply only selectors with *)
(* a row.  DiskInv also needs clients that send one request at a time,     *)
(* HashInv in addition edits that never restore an earlier configuration:  *)
(* without either, TLC finds hidden drift.                                 *)
(***************************************************************************)
EXTENDS ControlPlane

(* Clients wait for an answer before they send the next request. *)
SerialRequests == \A a, b \in Requests : a = b

(* No two requests render the same configuration. *)
DistinctVersions == \A v, w \in 1..MaxOps : ConfigHash[v] = ConfigHash[w] => v = w

(* Rows that exist carry a version and an owner. *)
RowsInv ==
  /\ \A t \in Tenants : tenantRow[t].status # "none" => tenantRow[t].ver >= 1
  /\ \A s \in Sites : siteRow[s].status # "none" =>
                        siteRow[s].ver >= 1 /\ siteRow[s].tenant \in Tenants

(* A request in flight names a project; site steps name a site. *)
RequestsInv ==
  \A r \in Requests :
    /\ req[r].pc # "idle" => /\ req[r].tenant \in Tenants
                             /\ req[r].site \in Sites \cup {Tsdb}
                             /\ req[r].n >= 1
    /\ req[r].pc = "insert" \/ req[r].op \in {"rmSite", "purgeSite"} => req[r].site \in Sites

(* A tick between inspecting a project and finishing it names the project  *)
(* and still holds its row.                                                *)
TicksInv ==
  \A k \in Ticks : tick[k].pc \in {"compare", "up", "down", "record"} =>
    tick[k].p \in Projects /\ tick[k].todo[tick[k].p].state # "none"

(* The id columns of row are those of project p. *)
OwnColumns(row, p) == row.tenant = p[1] /\ row.site = SiteColumn(p[2])

(* ... or empty, after an apply of a selector that had no row. *)
GoodColumns(row, p) ==
  row.state # "none" => OwnColumns(row, p) \/ (row.tenant = NoId /\ row.site = NoId)

ColumnsInv ==
  /\ \A p \in Projects : GoodColumns(desired[p], p)
  /\ \A k \in Ticks, p \in Projects : GoodColumns(tick[k].todo[p], p)

(* Containers come from the own compose file or from the shared one. *)
FilesInv == \A p \in Projects : containers[p].state # "none" => containers[p].file \in {p, Shared}

TypeInv == TypeOK /\ RowsInv /\ RequestsInv /\ TicksInv /\ ColumnsInv

-----------------------------------------------------------------------------
(* Without applies of unknown selectors every row names its own project.   *)
OwnInv ==
  /\ \A p \in Projects : desired[p].state # "none" => OwnColumns(desired[p], p)
  /\ \A k \in Ticks, p \in Projects :
       tick[k].todo[p].state # "none" => OwnColumns(tick[k].todo[p], p)
  /\ \A p \in Projects : containers[p].state # "none" => containers[p].file = p

-----------------------------------------------------------------------------
(* h, if it is the hash of a version, is the hash of one up to v. *)
HashUpTo(h, v) == \A w \in 1..MaxOps : h = ConfigHash[w] => w <= v

(* Versions are numbers of requests already accepted. *)
VersionsInv ==
  /\ \A t \in Tenants : tenantRow[t].ver <= ops
  /\ \A s \in Sites : siteRow[s].ver <= ops

(* A request that rendered a row still holds its current version, and wrote *)
(* it before it records the hash.                                           *)
RenderInv(r) ==
  req[r].pc \in {"write", "record"} =>
    LET p == <<req[r].tenant, req[r].site>>
    IN  /\ RowExists(p) /\ RowVersion(p[1], p[2]) = req[r].n
        /\ req[r].pc = "record" => disk[p] = req[r].n

(* The files on disk are never newer than the row they come from. *)
DiskInv ==
  /\ VersionsInv
  /\ \A p \in Projects : disk[p] <= ops
  /\ \A p \in Projects : RowExists(p) => disk[p] <= RowVersion(p[1], p[2])
  /\ \A r \in Requests : req[r].pc = "insert" => req[r].n = ops
  /\ \A r \in Requests : RenderInv(r)

(* Hashes in the tables and in snapshots trail the disk; the recorded hash, *)
(* and the one about to be recorded, trail the containers.                  *)
HashInv ==
  /\ \A p \in Projects : HashUpTo(desired[p].hash, disk[p])
  /\ \A k \in Ticks, p \in Projects : HashUpTo(tick[k].todo[p].hash, disk[p])
  /\ \A p \in Projects : containers[p].state # "none" =>
       containers[p].ver <= disk[p] /\ HashUpTo(cache[p], containers[p].ver)
  /\ \A k \in Ticks :
       tick[k].pc = "record" /\ containers[tick[k].p].state # "none" =>
         HashUpTo(tick[k].todo[tick[k].p].hash, containers[tick[k].p].ver)
  /\ \A p \in Projects : HashUpTo(cache[p], disk[p])

(* The strengthening from which NoHiddenDrift follows. *)
DriftInv == DiskInv /\ HashInv
====
