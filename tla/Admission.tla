------------------------------ MODULE Admission ------------------------------
(***************************************************************************)
(* Admission control: the memory prediction of internal/capacity and its   *)
(* use by the create handlers of internal/daemon.  The check reads the     *)
(* tables, decides, and the row is inserted by a later statement, so       *)
(* concurrent creations decide on the same tables.                         *)
(*                                                                         *)
(* Amounts are MB, as in the profile table.  The status of a row plays no  *)
(* part in the prediction, so `rm` without --purge is no step here; what   *)
(* follows the insertion (rendering) is in module ControlPlane.            *)
(***************************************************************************)
EXTENDS Integers, FiniteSets, FiniteSetsExt

CONSTANTS
  Tenants, Sites,   \* ids
  Requests,         \* create requests in flight at once
  Keys,             \* broker kind, tier and direction a client may ask for
  MemTotalKB        \* MemTotal of /proc/meminfo

hostOverheadMB == 530
perTenantTSDBMB == 350

Key == [broker : {"mosquitto", "emqx", "other"}, tier : {"low", "mid", "high"},
        direction : {"uni", "bi", "other"}]

ASSUME AdmissionAssumption ==
  /\ IsFiniteSet(Tenants) /\ IsFiniteSet(Requests) /\ Requests # {}
  /\ Keys \subseteq Key
  /\ MemTotalKB \in Nat

(* The profile table: broker plus ingest RSS; `bi` adds 20 MB of ingest. *)
Profiled(key) ==
  /\ key.direction \in {"uni", "bi"}
  /\ \/ key.broker = "mosquitto" /\ key.tier = "low"
     \/ key.broker = "emqx" /\ key.tier \in {"low", "mid"}

TotalMB(key) ==
  (CASE key.broker = "mosquitto" -> 20 + 60
     [] key.broker # "mosquitto" /\ key.tier = "low" -> 400 + 60
     [] OTHER -> 450 + 120) + (IF key.direction = "bi" THEN 20 ELSE 0)

(* Predict: int(float64(usable) * 0.85), and usable is never negative. *)
UsableMB == IF MemTotalKB \div 1024 > hostOverheadMB
            THEN MemTotalKB \div 1024 - hostOverheadMB ELSE 0
MaxAllowedMB == (UsableMB * 85) \div 100

VARIABLES
  tenants,   \* ids with a row
  sites,     \* site rows: owner and key, by id
  create     \* program counter and locals of each create request

avars == <<tenants, sites, create>>

Idle == [pc |-> "idle"]

SiteRows == [tenant : Tenants, key : Key]
Creations == {Idle} \cup [pc : {"insertTenant"}, tenant : Tenants]
                    \cup [pc : {"admitSite", "insertSite"}, tenant : Tenants,
                          site : Sites, key : Keys]

(* Types, and the foreign key of the sites table: a site's tenant exists,  *)
(* whatever purges and creations interleave.                               *)
AdmissionTypeOK ==
  /\ tenants \subseteq Tenants
  /\ DOMAIN sites \subseteq Sites
  /\ \A s \in DOMAIN sites : sites[s] \in SiteRows /\ sites[s].tenant \in tenants
  /\ create \in [Requests -> Creations]

AdmissionInit ==
  /\ tenants = {}
  /\ sites = [s \in {} |-> Idle]
  /\ create = [r \in Requests |-> Idle]

(* Mutant: the limit is rounded up. *)
AdmittedRoundedUp(t, siteMB) ==
  perTenantTSDBMB * Cardinality(tenants \cup {t}) + siteMB <= (UsableMB * 85 + 99) \div 100

(* admissionCheck for tenant t and siteMB of proposed sites.  The plan has  *)
(* every tenant, the proposed one included, but the existing sites are      *)
(* appended to copies of its elements and do not reach it.                  *)
Admitted(t, siteMB) ==
  perTenantTSDBMB * Cardinality(tenants \cup {t}) + siteMB <= MaxAllowedMB

(* handleCreateTenant up to the INSERT; a rejected request is no step. *)
AdmitTenant(r, t) ==
  /\ create[r] = Idle
  /\ Admitted(t, 0)
  /\ create' = [create EXCEPT ![r] = [pc |-> "insertTenant", tenant |-> t]]
  /\ UNCHANGED <<tenants, sites>>

(* INSERT INTO tenants: a duplicate id changes nothing. *)
InsertTenant(r) ==
  /\ create[r].pc = "insertTenant"
  /\ tenants' = tenants \cup {create[r].tenant}
  /\ create' = [create EXCEPT ![r] = Idle]
  /\ UNCHANGED sites

(* handleCreateSite: the tenant must exist, the tier must not be high, and  *)
(* mosquitto does not go with mid.                                          *)
RequestSite(r, t, s, key) ==
  /\ create[r] = Idle
  /\ t \in tenants
  /\ key.tier # "high" /\ ~(key.broker = "mosquitto" /\ key.tier = "mid")
  /\ create' = [create EXCEPT ![r] =
                  [pc |-> "admitSite", tenant |-> t, site |-> s, key |-> key]]
  /\ UNCHANGED <<tenants, sites>>

(* Mutant: a key without a profile counts as zero. *)
AdmitSiteUnprofiled(r) ==
  LET q == create[r]
  IN  /\ q.pc = "admitSite"
      /\ create' = [create EXCEPT ![r] =
           IF Admitted(q.tenant, IF Profiled(q.key) THEN TotalMB(q.key) ELSE 0)
           THEN [q EXCEPT !.pc = "insertSite"] ELSE Idle]
      /\ UNCHANGED <<tenants, sites>>

(* Its admissionCheck: a key without a profile is an error of Predict. *)
AdmitSite(r) ==
  LET q == create[r]
  IN  /\ q.pc = "admitSite"
      /\ create' = [create EXCEPT ![r] =
           IF Profiled(q.key) /\ Admitted(q.tenant, TotalMB(q.key))
           THEN [q EXCEPT !.pc = "insertSite"] ELSE Idle]
      /\ UNCHANGED <<tenants, sites>>

(* Mutant: the foreign key is not enforced, so that the tenant may have     *)
(* been purged since the handler looked it up.                              *)
InsertSiteUnreferenced(r) ==
  LET q == create[r]
  IN  /\ q.pc = "insertSite"
      /\ sites' = IF q.site \notin DOMAIN sites
                  THEN [s \in DOMAIN sites \cup {q.site} |->
                          IF s = q.site THEN [tenant |-> q.tenant, key |-> q.key]
                          ELSE sites[s]]
                  ELSE sites
      /\ create' = [create EXCEPT ![r] = Idle]
      /\ UNCHANGED tenants

(* INSERT INTO sites: refused for a duplicate id or a purged tenant. *)
InsertSite(r) ==
  LET q == create[r]
  IN  /\ q.pc = "insertSite"
      /\ sites' = IF q.tenant \in tenants /\ q.site \notin DOMAIN sites
                  THEN [s \in DOMAIN sites \cup {q.site} |->
                          IF s = q.site THEN [tenant |-> q.tenant, key |-> q.key]
                          ELSE sites[s]]
                  ELSE sites
      /\ create' = [create EXCEPT ![r] = Idle]
      /\ UNCHANGED tenants

(* A statement under a request context that has ended fails. *)
GiveUp(r) ==
  /\ create[r] # Idle
  /\ create' = [create EXCEPT ![r] = Idle]
  /\ UNCHANGED <<tenants, sites>>

(* handleUpdateSite: the direction changes without an admission check. *)
PatchDirection(s, d) ==
  /\ s \in DOMAIN sites
  /\ sites' = [sites EXCEPT ![s].key.direction = d]
  /\ UNCHANGED <<tenants, create>>

SitesBut(S) == [s \in DOMAIN sites \ S |-> sites[s]]

PurgeSite(s) ==
  /\ s \in DOMAIN sites
  /\ sites' = SitesBut({s})
  /\ UNCHANGED <<tenants, create>>

PurgeTenant(t) ==
  /\ t \in tenants
  /\ sites' = SitesBut({s \in DOMAIN sites : sites[s].tenant = t})
  /\ tenants' = tenants \ {t}
  /\ UNCHANGED create

AdmissionNext ==
  \/ \E r \in Requests :
       \/ \E t \in Tenants : AdmitTenant(r, t)
       \/ \E t \in Tenants, s \in Sites, key \in Keys : RequestSite(r, t, s, key)
       \/ InsertTenant(r) \/ AdmitSite(r) \/ InsertSite(r) \/ GiveUp(r)
  \/ \E s \in Sites : PurgeSite(s) \/ \E d \in {"uni", "bi"} : PatchDirection(s, d)
  \/ \E t \in Tenants : PurgeTenant(t)

AdmissionSpec == AdmissionInit /\ [][AdmissionNext]_avars
-----------------------------------------------------------------------------
(* handleCapacity: Predict over every tenant and every site. *)
ProjectedMB ==
  perTenantTSDBMB * Cardinality(tenants)
    + MapThenSumSet(LAMBDA s : TotalMB(sites[s].key), DOMAIN sites)

(* Properties.                                                             *)

(* Tenants that exist or that a request was admitted to insert. *)
Promised == tenants \cup {create[r].tenant : r \in {q \in Requests :
                                                    create[q].pc = "insertTenant"}}

(* Checking and inserting are two statements, so concurrent creations can   *)
(* overshoot the limit, but never by more than the database of one tenant   *)
(* for each other request in flight: a request admitted long ago counts     *)
(* against the bound until it inserts or gives up.                          *)
OvershootBounded ==
  perTenantTSDBMB * Cardinality(Promised)
    <= MaxAllowedMB + perTenantTSDBMB * (Cardinality(Requests) - 1)

(* Every stored site has a profile, also after direction changes and races: *)
(* Predict never fails in handleCapacity.                                   *)
SitesProfiled == \A s \in DOMAIN sites : Profiled(sites[s].key)

-----------------------------------------------------------------------------
(* Claims of the documentation that the code does not keep.                *)

(* No creation is admitted whose projected total exceeds 85 %: the tenants' *)
(* databases alone stay within it ...                                       *)
TenantsFit == perTenantTSDBMB * Cardinality(tenants) <= MaxAllowedMB

(* ... and so does everything that was created. *)
NotOvercommitted == ProjectedMB <= MaxAllowedMB
====
